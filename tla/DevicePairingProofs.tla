------------------------ MODULE DevicePairingProofs ------------------------
(***************************************************************************)
(* TLAPS proofs about who may be connected to the Relay.  Bridges          *)
(* (DevicePairing): one credential per pairing, a binding only with a      *)
(* credential the Relay knows, and the end of every reachable connection   *)
(* of a revoked device.  Browsers (BrowserAuth): none is closed without a  *)
(* cause.                                                                  *)
(***************************************************************************)
EXTENDS DevicePairing, BrowserAuth, SequenceTheorems, FiniteSetTheorems, TLAPS

-----------------------------------------------------------------------------
(* Queues as the sets of their elements.                                   *)

\* Nothing is in the empty sequence.
LEMMA RangeEmpty == Range(<<>>) = {}
  BY DEF Range

\* An appended element is added to the elements of a queue.
LEMMA RangeAppend ==
    ASSUME NEW S, NEW q \in Seq(S), NEW x \in S
    PROVE  Range(Append(q, x)) = Range(q) \cup {x}
  <1>1. <<x>> \in Seq(S) /\ Range(<<x>>) = {x}
    BY DEF Range
  <1>2. Append(q, x) = q \o <<x>>
    BY AppendIsConcat
  <1>3. Range(q \o <<x>>) = Range(q) \cup Range(<<x>>)
    BY <1>1, RangeConcatenation
  <1> QED
    BY <1>1, <1>2, <1>3

-----------------------------------------------------------------------------

\* A pairing that has not been registered has left no trace.
Untouched(c) ==
    pair[c].ph = "idle" =>
        /\ ~ch[c].reg /\ ch[c].owner = Nobody /\ ~ch[c].delivered
        /\ c \notin Range(order)

\* The row says whether a credential was made, and for whom; a Browser is
\* told of the approval that the row records.
Delivered(c) ==
    /\ IF ch[c].delivered THEN \E q \in Claims : dev[c].creds = {q} ELSE dev[c].creds = {}
    /\ dev[c].creds # {} => ch[c].owner # Nobody /\ dev[c].owner = ch[c].owner
    /\ \A o \in Owners : c \in told[o] => ch[c].owner = o

\* What the pair command holds, in memory or in the keychain, was delivered.
Holds(c) ==
    /\ pair[c].ph \in {"got", "keychain"} => pair[c].cred \in dev[c].creds
    /\ pair[c].ph = "keychain" => pair[c].keychain # Nobody
    /\ pair[c].keychain # Nobody => pair[c].keychain \in dev[c].creds
    /\ pair[c].bound => pair[c].keychain # Nobody

\* A claim that answers `ready` has made the credential it delivers.
Ready(q) ==
    /\ cl[q].ph # "idle" => cl[q].c \in Challenges
    /\ cl[q].ph = "ready" => q \in dev[cl[q].c].creds

\* An open connection is the one a signal would reach, or was signalled, or
\* is one of those that slipped through.
Reachable(w) ==
    /\ conn[w].ph # "idle" => conn[w].d \in Challenges
    /\ conn[w].ph = "open" =>
          \/ conn[w].sig \/ w \in slipped
          \/ hub[conn[w].d] = w /\ dev[conn[w].d].rev # "done"

PairingInv ==
    /\ TypeOK
    /\ \A c \in Challenges : Untouched(c) /\ Delivered(c) /\ Holds(c)
    /\ \A q \in Claims : Ready(q)
    /\ \A w \in Conns : Reachable(w)


-----------------------------------------------------------------------------
(* What a step leaves alone, and updates of one row. *)

\* A step that touches neither connections nor revocations.
LEMMA ConnectionsStay ==
    ASSUME PairingInv, UNCHANGED <<conn, hub, slipped>>,
           \A c \in Challenges : dev'[c].rev = dev[c].rev
    PROVE  \A w \in Conns : Reachable(w)'
  BY DEF PairingInv, Reachable

\* A step that touches neither pairings nor credentials.
LEMMA PairingsStay ==
    ASSUME PairingInv, UNCHANGED <<ch, order, told, cl, pair>>,
           \A c \in Challenges :
               dev'[c].creds = dev[c].creds /\ dev'[c].owner = dev[c].owner
    PROVE  /\ \A c \in Challenges : Untouched(c)' /\ Delivered(c)' /\ Holds(c)'
           /\ \A q \in Claims : Ready(q)'
  BY DEF PairingInv, Untouched, Delivered, Holds, Ready

\* A pairing that a step leaves alone.
Same(c) ==
    /\ ch'[c] = ch[c] /\ pair'[c] = pair[c] /\ dev'[c] = dev[c]
    /\ c \in Range(order') => c \in Range(order)
    /\ \A o \in Owners : c \in told'[o] => c \in told[o]

\* It keeps what is known of it.
LEMMA PairingStays ==
    ASSUME NEW c \in Challenges, Untouched(c), Delivered(c), Holds(c), Same(c)
    PROVE  Untouched(c)' /\ Delivered(c)' /\ Holds(c)'
  BY DEF Untouched, Delivered, Holds, Same

\* One row of pairing_challenges is written.
LEMMA RowWritten ==
    ASSUME TypeOK, NEW c \in Challenges, NEW w \in Rows, ch' = [ch EXCEPT ![c] = w]
    PROVE  /\ ch' \in [Challenges -> Rows] /\ ch'[c] = w
           /\ \A e \in Challenges : e # c => ch'[e] = ch[e]
  BY DEF TypeOK

\* The pair command of one machine moves on.
LEMMA MachineMoved ==
    ASSUME TypeOK, NEW c \in Challenges, NEW m \in Machines, pair' = [pair EXCEPT ![c] = m]
    PROVE  /\ pair' \in [Challenges -> Machines] /\ pair'[c] = m
           /\ \A e \in Challenges : e # c => pair'[e] = pair[e]
  BY DEF TypeOK

\* A connection handler moves on.
LEMMA SocketMoved ==
    ASSUME TypeOK, NEW w \in Conns, NEW s \in Sockets, conn' = [conn EXCEPT ![w] = s]
    PROVE  /\ conn' \in [Conns -> Sockets] /\ conn'[w] = s
           /\ \A v \in Conns : v # w => conn'[v] = conn[v]
  BY DEF TypeOK

\* The absent row is a row.
LEMMA NoRowIsRow == NoRow \in Rows /\ NoRow.owner = Nobody /\ ~NoRow.delivered
  <1>1. (CHOOSE k \in Codes : TRUE) \in Codes
    BY PairingAssumption
  <1> QED
    BY <1>1, PairingAssumption DEF NoRow, Rows

-----------------------------------------------------------------------------
(* The initial state, and the life of a challenge. *)

\* Nothing is registered and nobody is connected.
LEMMA InitInv == Init => PairingInv
  <1> SUFFICES ASSUME Init PROVE PairingInv
    OBVIOUS
  <1>1. order \in Seq(Challenges) /\ Range(order) = {}
    BY RangeEmpty DEF Init
  <1>2. /\ cl \in [Claims -> Handlers] /\ pair \in [Challenges -> Machines]
        /\ dev \in [Challenges -> Devices] /\ conn \in [Conns -> Sockets]
    BY DEF Init, Handlers, Machines, Devices, Sockets
  <1>3. TypeOK
    BY <1>1, <1>2, NoRowIsRow DEF Init, TypeOK
  <1>4. ASSUME NEW c \in Challenges PROVE Untouched(c) /\ Delivered(c) /\ Holds(c)
    BY <1>1, NoRowIsRow DEF Init, Untouched, Delivered, Holds, NoRow
  <1>5. ASSUME NEW q \in Claims PROVE Ready(q)
    BY DEF Init, Ready
  <1>6. ASSUME NEW w \in Conns PROVE Reachable(w)
    BY DEF Init, Reachable
  <1> QED
    BY <1>3, <1>4, <1>5, <1>6 DEF PairingInv

\* A challenge is registered.
LEMMA RegisterInv ==
    ASSUME PairingInv, NEW c \in Challenges, Register(c)
    PROVE  PairingInv'
  <1> USE DEF Register, deviceVars
  <1>0. TypeOK /\ Untouched(c) /\ Delivered(c) /\ Holds(c)
    BY DEF PairingInv
  <1>1. PICK k \in Codes : ch' = [ch EXCEPT ![c] = [NoRow EXCEPT !.reg = TRUE, !.code = k]]
    OBVIOUS
  <1>2. /\ [NoRow EXCEPT !.reg = TRUE, !.code = k] \in Rows
        /\ [NoRow EXCEPT !.reg = TRUE, !.code = k].owner = Nobody
        /\ ~[NoRow EXCEPT !.reg = TRUE, !.code = k].delivered
    BY NoRowIsRow DEF Rows
  <1>3. /\ ch' \in [Challenges -> Rows] /\ ch'[c].owner = Nobody /\ ~ch'[c].delivered
        /\ \A e \in Challenges : e # c => ch'[e] = ch[e]
    BY <1>0, <1>1, <1>2, RowWritten
  <1>4. /\ order' \in Seq(Challenges) /\ Range(order') = Range(order) \cup {c}
    BY <1>0, RangeAppend DEF TypeOK
  <1>5. /\ pair' \in [Challenges -> Machines] /\ pair'[c].ph = "waiting"
        /\ pair'[c].keychain = pair[c].keychain /\ pair'[c].bound = pair[c].bound
        /\ \A e \in Challenges : e # c => pair'[e] = pair[e]
    <2>1. pair[c] \in Machines
      BY <1>0 DEF TypeOK
    <2>2. [pair[c] EXCEPT !.ph = "waiting"] \in Machines
      BY <2>1 DEF Machines
    <2>3. pair' = [pair EXCEPT ![c] = [pair[c] EXCEPT !.ph = "waiting"]]
      BY <1>0 DEF TypeOK
    <2> QED
      BY <1>0, <2>1, <2>2, <2>3, MachineMoved DEF Machines
  <1>6. TypeOK'
    BY <1>0, <1>3, <1>4, <1>5 DEF TypeOK
  <1>7. \A e \in Challenges : e # c => Same(e)
    BY <1>3, <1>4, <1>5 DEF Same
  <1>8. Untouched(c)' /\ Delivered(c)' /\ Holds(c)'
    <2>1. ch[c].owner = Nobody /\ dev[c].creds = {}
      BY <1>0 DEF Untouched, Delivered
    <2>2. \A o \in Owners : c \notin told[o]
      BY <1>0, <2>1, PairingAssumption DEF Delivered
    <2> QED
      BY <1>0, <1>3, <1>5, <2>1, <2>2 DEF Untouched, Delivered, Holds
  <1>9. \A q \in Claims : Ready(q)'
    BY DEF PairingInv, Ready
  <1> QED
    BY <1>6, <1>7, <1>8, <1>9, PairingStays, ConnectionsStay DEF PairingInv

\* The row of a registered challenge changes, neither its owner nor its
\* delivery: it expires, an attempt is counted, or it is cancelled.
LEMMA RowMarkedInv ==
    ASSUME PairingInv, NEW c \in Challenges,
           \/ Expires(c) \/ ApproveMismatch(c)
           \/ \E o \in Owners : CancelChallenge(o, c)
    PROVE  PairingInv'
  <1> USE DEF Expires, ApproveMismatch, CancelChallenge, deviceVars
  <1>0. TypeOK /\ ch[c] \in Rows /\ Untouched(c) /\ Delivered(c) /\ Holds(c)
    BY DEF PairingInv, TypeOK
  <1>1. PICK w \in Rows : /\ ch' = [ch EXCEPT ![c] = w] /\ w.owner = ch[c].owner
                          /\ w.delivered = ch[c].delivered /\ w.reg = ch[c].reg
                          /\ ch[c].consumed => w.consumed
    <2>1. CASE Expires(c)
      <3>1. ch' = [ch EXCEPT ![c] = [ch[c] EXCEPT !.expired = TRUE]]
        BY <1>0, <2>1 DEF TypeOK
      <3> QED
        BY <1>0, <3>1 DEF Rows
    <2>2. CASE ApproveMismatch(c)
      <3>1. ch' = [ch EXCEPT ![c] = [ch[c] EXCEPT !.attempts = @ + 1]]
        BY <1>0, <2>2 DEF TypeOK
      <3>2. ch[c].attempts + 1 \in 0..MaxAttempts
        BY <1>0, <2>2, PairingAssumption DEF Rows
      <3> QED
        BY <1>0, <3>1, <3>2 DEF Rows
    <2>3. CASE \E o \in Owners : CancelChallenge(o, c)
      <3>1. ch' = [ch EXCEPT ![c] = [ch[c] EXCEPT !.consumed = TRUE]]
        BY <1>0, <2>3 DEF TypeOK
      <3> QED
        BY <1>0, <3>1 DEF Rows
    <2> QED
      BY <2>1, <2>2, <2>3
  <1>2. UNCHANGED <<order, told, cl, pair, dev, conn, hub, slipped>>
    OBVIOUS
  <1> HIDE DEF Expires, ApproveMismatch, CancelChallenge
  <1>3. /\ ch' \in [Challenges -> Rows] /\ ch'[c] = w
        /\ \A e \in Challenges : e # c => ch'[e] = ch[e]
    BY <1>0, <1>1, RowWritten
  <1>4. TypeOK'
    BY <1>0, <1>1, <1>2, <1>3 DEF TypeOK
  <1>5. \A e \in Challenges : e # c => Same(e)
    BY <1>2, <1>3 DEF Same
  <1>6. Untouched(c)' /\ Delivered(c)' /\ Holds(c)'
    BY <1>0, <1>1, <1>2, <1>3 DEF Untouched, Delivered, Holds
  <1>7. \A q \in Claims : Ready(q)'
    BY <1>2 DEF PairingInv, Ready
  <1> QED
    BY <1>2, <1>4, <1>5, <1>6, <1>7, PairingStays, ConnectionsStay DEF PairingInv

\* An owner approves the newest pending challenge with a code.
LEMMA ApproveInv ==
    ASSUME PairingInv, NEW o \in Owners, NEW k \in Codes, Approve(o, k)
    PROVE  PairingInv'
  <1> USE DEF deviceVars
  <1>0. TypeOK
    BY DEF PairingInv
  <1>1. PICK n \in DOMAIN order :
          /\ Approvable(order[n], k)
          /\ ch' = [ch EXCEPT ![order[n]].owner = o]
          /\ told' = [told EXCEPT ![o] = @ \cup {order[n]}]
          /\ UNCHANGED <<order, cl, pair, dev, conn, hub, slipped>>
    BY DEF Approve
  <1>2. PICK c \in Challenges : c = order[n] /\ c \in Range(order)
    BY <1>0 DEF TypeOK, Range
  <1>3. Untouched(c) /\ Delivered(c) /\ Holds(c) /\ ch[c] \in Rows
    BY DEF PairingInv, TypeOK
  <1>4. ch[c].owner = Nobody
    BY <1>1, <1>2 DEF Approvable, Pending
  <1>5. /\ [ch[c] EXCEPT !.owner = o] \in Rows
        /\ [ch[c] EXCEPT !.owner = o].owner = o
        /\ [ch[c] EXCEPT !.owner = o].delivered = ch[c].delivered
        /\ [ch[c] EXCEPT !.owner = o].consumed = ch[c].consumed
    BY <1>3 DEF Rows
  <1>6. ch' = [ch EXCEPT ![c] = [ch[c] EXCEPT !.owner = o]]
    BY <1>0, <1>1, <1>2 DEF TypeOK
  <1>7. /\ ch' \in [Challenges -> Rows] /\ ch'[c].owner = o
        /\ ch'[c].delivered = ch[c].delivered /\ ch'[c].consumed = ch[c].consumed
        /\ \A e \in Challenges : e # c => ch'[e] = ch[e]
    BY <1>0, <1>5, <1>6, RowWritten
  <1>8. /\ told' \in [Owners -> SUBSET Challenges]
        /\ \A p \in Owners : told'[p] = IF p = o THEN told[p] \cup {c} ELSE told[p]
    <2>1. told' = [told EXCEPT ![o] = told[o] \cup {c}] /\ told \in [Owners -> SUBSET Challenges]
      BY <1>0, <1>1, <1>2 DEF TypeOK
    <2>2. told[o] \cup {c} \in SUBSET Challenges
      BY <2>1
    <2> QED
      BY <2>1, <2>2
  <1>9. TypeOK'
    BY <1>0, <1>1, <1>7, <1>8, PairingAssumption DEF TypeOK
  <1>10. \A e \in Challenges : e # c => Same(e)
    <2>1. \A e \in Challenges, p \in Owners : e # c => (e \in told'[p] => e \in told[p])
      BY <1>8
    <2>2. UNCHANGED <<order, pair, dev>>
      BY <1>1
    <2> QED
      BY <1>7, <2>1, <2>2 DEF Same
  <1>11. Untouched(c)' /\ Delivered(c)' /\ Holds(c)'
    <2>1. \A p \in Owners : c \in told'[p] => p = o
      BY <1>3, <1>4, <1>8, PairingAssumption DEF Delivered
    <2>2. ~ch[c].delivered /\ dev[c].creds = {}
      BY <1>3, <1>4, PairingAssumption DEF Delivered
    <2> QED
      BY <1>1, <1>2, <1>3, <1>7, <2>1, <2>2 DEF Untouched, Delivered, Holds
  <1>12. \A q \in Claims : Ready(q)'
    BY <1>1 DEF PairingInv, Ready
  <1> QED
    BY <1>1, <1>9, <1>10, <1>11, <1>12, PairingStays, ConnectionsStay DEF PairingInv

-----------------------------------------------------------------------------
(* The Bridge's claim and what it does with the credential. *)

\* A claim handler reads the row, or its transaction fails.
LEMMA ClaimMovesInv ==
    ASSUME PairingInv, NEW q \in Claims,
           (\E c \in Challenges : ClaimSelect(q, c)) \/ ClaimError(q)
    PROVE  PairingInv'
  <1> USE DEF ClaimSelect, ClaimError, deviceVars
  <1>0. TypeOK /\ cl[q] \in Handlers
    BY DEF PairingInv, TypeOK
  <1>1. PICK h \in Handlers : cl' = [cl EXCEPT ![q] = h] /\ h.c \in Challenges /\ h.ph # "ready"
    <2>1. CASE ClaimError(q)
      <3>1. cl' = [cl EXCEPT ![q] = [cl[q] EXCEPT !.ph = "gone"]] /\ cl[q].c \in Challenges
        BY <1>0, <2>1 DEF PairingInv, TypeOK, Ready
      <3>2. /\ [cl[q] EXCEPT !.ph = "gone"] \in Handlers
            /\ [cl[q] EXCEPT !.ph = "gone"].ph = "gone"
            /\ [cl[q] EXCEPT !.ph = "gone"].c = cl[q].c
        BY <1>0 DEF Handlers
      <3> HIDE DEF ClaimError, ClaimSelect
      <3> QED
        BY <3>1, <3>2
    <2>2. CASE \E c \in Challenges : ClaimSelect(q, c)
      <3>1. PICK c \in Challenges : ClaimSelect(q, c)
        BY <2>2
      <3>2. ClaimAnswer(c) \in {"gone", "conflict", "pending", "deliver"}
        BY DEF ClaimAnswer
      <3>3. [ph |-> ClaimAnswer(c), c |-> c] \in Handlers
        BY <3>2 DEF Handlers
      <3> QED
        BY <3>1, <3>2, <3>3
    <2> QED
      BY <2>1, <2>2
  <1>2. UNCHANGED <<ch, order, told, pair, dev, conn, hub, slipped>>
    OBVIOUS
  <1> HIDE DEF ClaimSelect, ClaimError
  <1>3. /\ cl' \in [Claims -> Handlers] /\ cl'[q] = h
        /\ \A p \in Claims : p # q => cl'[p] = cl[p]
    BY <1>0, <1>1 DEF TypeOK
  <1>4. TypeOK'
    BY <1>0, <1>2, <1>3 DEF TypeOK
  <1>5. \A c \in Challenges : Same(c)
    BY <1>2 DEF Same
  <1>6. \A p \in Claims : Ready(p)'
    BY <1>1, <1>2, <1>3 DEF PairingInv, Ready
  <1> QED
    BY <1>2, <1>4, <1>5, <1>6, PairingStays, ConnectionsStay DEF PairingInv

\* The transaction of a claim: the credential is made, or another claim has
\* made it.
LEMMA ClaimDeliverInv ==
    ASSUME PairingInv, NEW q \in Claims, ClaimDeliver(q)
    PROVE  PairingInv'
  <1> USE DEF ClaimDeliver
  <1>0. TypeOK /\ cl[q] \in Handlers /\ cl[q].ph = "deliver" /\ cl[q].c \in Challenges
    BY DEF PairingInv, TypeOK, Ready
  <1>1. PICK c \in Challenges : c = cl[q].c
    BY <1>0
  <1>2. ch[c] \in Rows /\ dev[c] \in Devices /\ Untouched(c) /\ Delivered(c) /\ Holds(c)
    BY DEF PairingInv, TypeOK
  <1>3. ASSUME NEW p \in {"ready", "conflict"}, cl' = [cl EXCEPT ![q].ph = p]
        PROVE  /\ cl' \in [Claims -> Handlers] /\ cl'[q].ph = p /\ cl'[q].c = c
               /\ \A r \in Claims : r # q => cl'[r] = cl[r]
    <2>1. cl' = [cl EXCEPT ![q] = [cl[q] EXCEPT !.ph = p]]
      BY <1>0, <1>3 DEF TypeOK
    <2>2. /\ [cl[q] EXCEPT !.ph = p] \in Handlers /\ [cl[q] EXCEPT !.ph = p].ph = p
          /\ [cl[q] EXCEPT !.ph = p].c = c
      BY <1>0, <1>1 DEF Handlers
    <2> QED
      BY <1>0, <2>1, <2>2 DEF TypeOK
  <1>4. CASE ~Deliverable(c)
    <2>1. /\ cl' = [cl EXCEPT ![q].ph = "conflict"]
          /\ UNCHANGED <<ch, dev, order, told, pair, conn, hub, slipped>>
      BY <1>1, <1>4
    <2>2. TypeOK'
      BY <1>0, <1>3, <2>1 DEF TypeOK
    <2>3. \A e \in Challenges : Same(e)
      BY <2>1 DEF Same
    <2>4. \A r \in Claims : Ready(r)'
      BY <1>3, <2>1 DEF PairingInv, Ready
    <2> QED
      BY <2>1, <2>2, <2>3, <2>4, PairingStays, ConnectionsStay DEF PairingInv
  <1>5. CASE Deliverable(c)
    <2>1. /\ ch' = [ch EXCEPT ![c].delivered = TRUE, ![c].consumed = TRUE]
          /\ dev' = [dev EXCEPT ![c].creds = @ \cup {q}, ![c].owner = ch[c].owner]
          /\ cl' = [cl EXCEPT ![q].ph = "ready"]
          /\ UNCHANGED <<order, told, pair, conn, hub, slipped>>
      BY <1>1, <1>5
    <2> HIDE DEF ClaimDeliver
    <2>2. ch[c].owner \in Owners \cup {Nobody} /\ ch[c].owner # Nobody /\ dev[c].creds = {}
      BY <1>2, <1>5 DEF Rows, Deliverable, Delivered
    <2>3. /\ ch' \in [Challenges -> Rows] /\ ch'[c].delivered /\ ch'[c].consumed
          /\ ch'[c].owner = ch[c].owner
          /\ \A e \in Challenges : e # c => ch'[e] = ch[e]
      <3>1. ch' = [ch EXCEPT ![c] = [ch[c] EXCEPT !.delivered = TRUE, !.consumed = TRUE]]
        BY <1>0, <2>1 DEF TypeOK
      <3>2. /\ [ch[c] EXCEPT !.delivered = TRUE, !.consumed = TRUE] \in Rows
            /\ [ch[c] EXCEPT !.delivered = TRUE, !.consumed = TRUE].delivered
            /\ [ch[c] EXCEPT !.delivered = TRUE, !.consumed = TRUE].consumed
            /\ [ch[c] EXCEPT !.delivered = TRUE, !.consumed = TRUE].owner = ch[c].owner
        BY <1>2 DEF Rows
      <3> QED
        BY <1>0, <3>1, <3>2, RowWritten
    <2>4. /\ dev' \in [Challenges -> Devices] /\ dev'[c].creds = {q}
          /\ dev'[c].owner = ch[c].owner /\ dev'[c].rev = dev[c].rev
          /\ \A e \in Challenges : e # c => dev'[e] = dev[e]
      <3> DEFINE d == [dev[c] EXCEPT !.creds = {q}, !.owner = ch[c].owner]
      <3>1. dev[c].creds \cup {q} = {q}
        BY <2>2
      <3>2. dev' = [dev EXCEPT ![c] = d]
        BY <1>0, <2>1, <3>1 DEF TypeOK
      <3>3. d \in Devices /\ d.creds = {q} /\ d.owner = ch[c].owner /\ d.rev = dev[c].rev
        BY <1>2, <2>2 DEF Devices
      <3> HIDE DEF d
      <3> QED
        BY <1>0, <3>2, <3>3 DEF TypeOK
    <2>5. TypeOK'
      BY <1>0, <1>3, <2>1, <2>2, <2>3, <2>4 DEF TypeOK
    <2>6. \A e \in Challenges : e # c => Same(e)
      BY <2>1, <2>3, <2>4 DEF Same
    <2>7. pair[c].ph # "idle"
      BY <1>2, <2>2 DEF Untouched
    <2>8. Untouched(c)' /\ Delivered(c)' /\ Holds(c)'
      BY <1>2, <2>1, <2>2, <2>3, <2>4, <2>7 DEF Untouched, Delivered, Holds
    <2>9. \A r \in Claims : Ready(r)'
      <3> TAKE r \in Claims
      <3>1. CASE r = q
        BY <1>3, <2>1, <2>4, <3>1 DEF Ready
      <3>2. CASE r # q
        BY <1>3, <2>1, <2>2, <2>4, <3>2 DEF PairingInv, Ready
      <3> QED
        BY <3>1, <3>2
    <2>10. \A e \in Challenges : dev'[e].rev = dev[e].rev
      BY <2>4
    <2> QED
      BY <2>1, <2>5, <2>6, <2>8, <2>9, <2>10, PairingStays, ConnectionsStay DEF PairingInv
  <1> QED
    BY <1>4, <1>5

\* The pair command of one machine moves on, holding what was delivered.
LEMMA MachineStep ==
    ASSUME PairingInv, NEW c \in Challenges, NEW m \in Machines,
           pair' = [pair EXCEPT ![c] = m], m.ph # "idle",
           m.ph \in {"got", "keychain"} => m.cred \in dev[c].creds,
           m.ph = "keychain" => m.keychain # Nobody,
           m.keychain # Nobody => m.keychain \in dev[c].creds,
           m.bound => m.keychain # Nobody,
           cl' \in [Claims -> Handlers],
           \A q \in Claims : cl'[q] = cl[q] \/ cl'[q].ph = "idle",
           UNCHANGED <<ch, order, told, dev, conn, hub, slipped>>
    PROVE  PairingInv'
  <1>0. TypeOK /\ Untouched(c) /\ Delivered(c) /\ Holds(c)
    BY DEF PairingInv
  <1>1. /\ pair' \in [Challenges -> Machines] /\ pair'[c] = m
        /\ \A e \in Challenges : e # c => pair'[e] = pair[e]
    BY <1>0, MachineMoved
  <1>2. TypeOK'
    BY <1>0, <1>1 DEF TypeOK
  <1>3. \A e \in Challenges : e # c => Same(e)
    BY <1>1 DEF Same
  <1>4. Untouched(c)' /\ Delivered(c)' /\ Holds(c)'
    BY <1>0, <1>1 DEF Untouched, Delivered, Holds
  <1>5. \A q \in Claims : Ready(q)'
    BY DEF PairingInv, Ready
  <1> QED
    BY <1>2, <1>3, <1>4, <1>5, PairingStays, ConnectionsStay DEF PairingInv

\* bind, its two parts; the command stops; the poll fails.
LEMMA BindInv ==
    ASSUME PairingInv, NEW c \in Challenges,
           BindKeychain(c) \/ BindStore(c) \/ PairStops(c) \/ PollFails(c)
    PROVE  PairingInv'
  <1> USE DEF BindKeychain, BindStore, PairStops, PollFails, deviceVars
  <1>0. TypeOK /\ pair[c] \in Machines /\ Holds(c)
    BY DEF PairingInv, TypeOK
  <1>1. UNCHANGED <<cl, ch, order, told, dev, conn, hub, slipped>>
    OBVIOUS
  <1>2. dev[c].creds \subseteq Claims
    BY <1>0 DEF TypeOK, Devices
  <1>3. CASE BindKeychain(c)
    <2> DEFINE m == [pair[c] EXCEPT !.ph = "keychain", !.keychain = pair[c].cred]
    <2>1. pair' = [pair EXCEPT ![c] = m] /\ pair[c].ph = "got"
      BY <1>0, <1>3 DEF TypeOK
    <2>2. /\ m \in Machines /\ m.ph = "keychain" /\ m.cred = pair[c].cred
          /\ m.keychain = pair[c].cred /\ m.bound = pair[c].bound
      BY <1>0 DEF Machines
    <2>3. pair[c].cred \in dev[c].creds /\ pair[c].cred # Nobody
      BY <1>0, <1>2, <2>1, PairingAssumption DEF Holds
    <2> HIDE DEF m, BindKeychain, BindStore, PairStops, PollFails
    <2> QED
      BY <1>0, <1>1, <2>1, <2>2, <2>3, MachineStep DEF TypeOK
  <1>4. CASE BindStore(c)
    <2> DEFINE m == [pair[c] EXCEPT !.ph = "bound", !.bound = TRUE]
    <2>1. pair' = [pair EXCEPT ![c] = m] /\ pair[c].ph = "keychain"
      BY <1>0, <1>4 DEF TypeOK
    <2>2. m \in Machines /\ m.ph = "bound" /\ m.keychain = pair[c].keychain
      BY <1>0 DEF Machines
    <2> HIDE DEF m, BindKeychain, BindStore, PairStops, PollFails
    <2> QED
      BY <1>0, <1>1, <2>1, <2>2, MachineStep DEF TypeOK, Holds
  <1>5. CASE PairStops(c)
    <2> DEFINE m == [pair[c] EXCEPT !.ph = "failed", !.cred = Nobody]
    <2>1. pair' = [pair EXCEPT ![c] = m]
      BY <1>0, <1>5 DEF TypeOK
    <2>2. /\ m \in Machines /\ m.ph = "failed" /\ m.keychain = pair[c].keychain
          /\ m.bound = pair[c].bound
      BY <1>0 DEF Machines
    <2> HIDE DEF m, BindKeychain, BindStore, PairStops, PollFails
    <2> QED
      BY <1>0, <1>1, <2>1, <2>2, MachineStep DEF TypeOK, Holds
  <1>6. CASE PollFails(c)
    <2> DEFINE m == [pair[c] EXCEPT !.ph = "failed"]
    <2>1. pair' = [pair EXCEPT ![c] = m]
      BY <1>0, <1>6 DEF TypeOK
    <2>2. /\ m \in Machines /\ m.ph = "failed" /\ m.keychain = pair[c].keychain
          /\ m.bound = pair[c].bound
      BY <1>0 DEF Machines
    <2> HIDE DEF m, BindKeychain, BindStore, PairStops, PollFails
    <2> QED
      BY <1>0, <1>1, <2>1, <2>2, MachineStep DEF TypeOK, Holds
  <1> QED
    BY <1>3, <1>4, <1>5, <1>6

\* The poll of a Bridge is answered.
LEMMA PollAnsweredInv ==
    ASSUME PairingInv, NEW q \in Claims, PollAnswered(q)
    PROVE  PairingInv'
  <1> USE DEF PollAnswered, deviceVars
  <1>0. TypeOK /\ Ready(q) /\ cl[q].ph # "idle" /\ cl[q].c \in Challenges
    BY DEF PairingInv, Ready
  <1>1. PICK c \in Challenges : c = cl[q].c
    BY <1>0
  <1>2. pair[c] \in Machines /\ Holds(c)
    BY DEF PairingInv, TypeOK
  <1>3. [ph |-> "idle", c |-> Nobody] \in Handlers
    BY DEF Handlers
  <1>4. /\ cl' \in [Claims -> Handlers]
        /\ \A p \in Claims : cl'[p] = cl[p] \/ cl'[p].ph = "idle"
    BY <1>0, <1>3 DEF TypeOK
  <1>5. UNCHANGED <<ch, order, told, dev, conn, hub, slipped>>
    OBVIOUS
  <1>6. CASE pair' = pair
    <2> HIDE DEF PollAnswered
    <2>1. TypeOK'
      BY <1>0, <1>4, <1>5, <1>6 DEF TypeOK
    <2>2. \A e \in Challenges : Same(e)
      BY <1>5, <1>6 DEF Same
    <2>3. \A p \in Claims : Ready(p)'
      BY <1>4, <1>5 DEF PairingInv, Ready
    <2> QED
      BY <1>5, <2>1, <2>2, <2>3, PairingStays, ConnectionsStay DEF PairingInv
  <1>7. CASE pair[c].ph = "waiting" /\ cl[q].ph = "ready"
    <2> DEFINE m == [pair[c] EXCEPT !.ph = "got", !.cred = q]
    <2>1. pair' = [pair EXCEPT ![c] = m]
      BY <1>0, <1>1, <1>7 DEF TypeOK
    <2>2. /\ m \in Machines /\ m.ph = "got" /\ m.cred = q
          /\ m.keychain = pair[c].keychain /\ m.bound = pair[c].bound
      BY <1>2 DEF Machines
    <2>3. q \in dev[c].creds
      BY <1>0, <1>1, <1>7 DEF Ready
    <2> HIDE DEF m, PollAnswered
    <2> QED
      BY <1>2, <1>4, <1>5, <2>1, <2>2, <2>3, MachineStep DEF Holds
  <1>8. CASE pair[c].ph = "waiting" /\ cl[q].ph \in {"gone", "conflict"}
    <2> DEFINE m == [pair[c] EXCEPT !.ph = "failed"]
    <2>1. pair' = [pair EXCEPT ![c] = m]
      BY <1>0, <1>1, <1>8 DEF TypeOK
    <2>2. /\ m \in Machines /\ m.ph = "failed" /\ m.keychain = pair[c].keychain
          /\ m.bound = pair[c].bound
      BY <1>2 DEF Machines
    <2> HIDE DEF m, PollAnswered
    <2> QED
      BY <1>2, <1>4, <1>5, <2>1, <2>2, MachineStep DEF Holds
  <1> QED
    BY <1>1, <1>6, <1>7, <1>8

-----------------------------------------------------------------------------
(* Connections and revocation. *)

\* Signalling the registered connection of a device sets one flag.
LEMMA SignalEffect ==
    ASSUME PairingInv, NEW d \in Challenges
    PROVE  /\ Signal(d) \in [Conns -> Sockets]
           /\ \A w \in Conns : /\ Signal(d)[w].ph = conn[w].ph /\ Signal(d)[w].d = conn[w].d
                               /\ conn[w].sig \/ hub[d] = w => Signal(d)[w].sig
  <1>0. TypeOK /\ conn \in [Conns -> Sockets] /\ hub[d] \in Conns \cup {Nobody}
    BY DEF PairingInv, TypeOK
  <1>1. CASE hub[d] = Nobody
    BY <1>0, <1>1, PairingAssumption DEF Signal
  <1>2. CASE hub[d] # Nobody
    <2>1. PICK v \in Conns : v = hub[d]
      BY <1>0, <1>2
    <2>2. conn[v] \in Sockets
      BY <1>0
    <2>3. Signal(d) = [conn EXCEPT ![v] = [conn[v] EXCEPT !.sig = TRUE]]
      BY <1>0, <1>2, <2>1 DEF Signal
    <2>4. /\ [conn[v] EXCEPT !.sig = TRUE] \in Sockets
          /\ [conn[v] EXCEPT !.sig = TRUE].ph = conn[v].ph
          /\ [conn[v] EXCEPT !.sig = TRUE].d = conn[v].d
          /\ [conn[v] EXCEPT !.sig = TRUE].sig
      BY <2>2 DEF Sockets
    <2>5. /\ Signal(d) \in [Conns -> Sockets]
          /\ Signal(d)[v] = [conn[v] EXCEPT !.sig = TRUE]
          /\ \A w \in Conns : w # v => Signal(d)[w] = conn[w]
      BY <1>0, <2>3, <2>4
    <2> QED
      BY <2>1, <2>4, <2>5
  <1> QED
    BY <1>1, <1>2

\* A connection handler that is not registered moves on; nobody else's state
\* changes but for signals.
LEMMA SocketStep ==
    ASSUME PairingInv, NEW w \in Conns, conn' \in [Conns -> Sockets],
           conn'[w].ph # "open", conn'[w].ph # "idle" => conn'[w].d \in Challenges,
           \A v \in Conns : v # w =>
               /\ conn'[v].ph = conn[v].ph /\ conn'[v].d = conn[v].d
               /\ conn[v].sig => conn'[v].sig,
           UNCHANGED <<pairingVars, dev, hub, slipped>>
    PROVE  PairingInv'
  <1> USE DEF pairingVars
  <1>1. TypeOK'
    BY DEF PairingInv, TypeOK
  <1>2. \A v \in Conns : Reachable(v)'
    BY DEF PairingInv, Reachable
  <1> QED
    BY <1>1, <1>2, PairingsStay DEF PairingInv

\* A Bridge authenticates; its ClientHello fails; its session ends.
LEMMA SocketMovesInv ==
    ASSUME PairingInv, NEW w \in Conns,
           \/ \E c \in Connecting : Authenticate(w, c)
           \/ HelloFails(w) \/ SessionEnds(w)
    PROVE  PairingInv'
  <1> USE DEF Authenticate, HelloFails, SessionEnds
  <1>0. TypeOK /\ conn[w] \in Sockets /\ Reachable(w)
    BY DEF PairingInv, TypeOK
  <1>1. UNCHANGED <<pairingVars, dev, hub, slipped>>
    OBVIOUS
  <1>2. PICK s \in Sockets : conn' = [conn EXCEPT ![w] = s] /\ s.ph # "open" /\ s.d \in Challenges
    <2>1. CASE \E c \in Connecting : Authenticate(w, c)
      <3>1. PICK c \in Challenges : conn' = [conn EXCEPT ![w] = [ph |-> "hello", d |-> c, sig |-> FALSE]]
        BY <2>1, PairingAssumption
      <3>2. [ph |-> "hello", d |-> c, sig |-> FALSE] \in Sockets
        BY DEF Sockets
      <3> QED
        BY <3>1, <3>2
    <2>2. CASE HelloFails(w) \/ SessionEnds(w)
      <3>1. PICK p \in {"gone", "leaving"} : conn' = [conn EXCEPT ![w] = [conn[w] EXCEPT !.ph = p]]
        BY <1>0, <2>2 DEF TypeOK
      <3>2. /\ [conn[w] EXCEPT !.ph = p] \in Sockets /\ [conn[w] EXCEPT !.ph = p].ph = p
            /\ [conn[w] EXCEPT !.ph = p].d = conn[w].d
        BY <1>0 DEF Sockets
      <3>3. conn[w].d \in Challenges
        BY <1>0, <2>2 DEF Reachable
      <3> HIDE DEF Authenticate, HelloFails, SessionEnds
      <3> QED
        BY <3>1, <3>2, <3>3
    <2> QED
      BY <2>1, <2>2
  <1> HIDE DEF Authenticate, HelloFails, SessionEnds
  <1> QED
    BY <1>0, <1>1, <1>2, SocketMoved, SocketStep

\* The connection before is told to close.
LEMMA CloseOldInv ==
    ASSUME PairingInv, NEW w \in Conns, CloseOld(w)
    PROVE  PairingInv'
  <1>0. TypeOK /\ conn[w].d \in Challenges /\ conn[w].ph = "hello"
    BY DEF PairingInv, Reachable, CloseOld
  <1> DEFINE c == Signal(conn[w].d)
  <1>1. /\ c \in [Conns -> Sockets] /\ c[w] \in Sockets
        /\ \A v \in Conns : /\ c[v].ph = conn[v].ph /\ c[v].d = conn[v].d
                            /\ conn[v].sig => c[v].sig
    BY <1>0, SignalEffect
  <1>2. conn' = [c EXCEPT ![w].ph = "closedOld"] /\ UNCHANGED <<pairingVars, dev, hub, slipped>>
    BY DEF CloseOld
  <1> HIDE DEF c
  <1>3. conn' = [c EXCEPT ![w] = [c[w] EXCEPT !.ph = "closedOld"]]
    BY <1>1, <1>2
  <1>4. /\ [c[w] EXCEPT !.ph = "closedOld"] \in Sockets
        /\ [c[w] EXCEPT !.ph = "closedOld"].ph = "closedOld"
        /\ [c[w] EXCEPT !.ph = "closedOld"].d = conn[w].d
    BY <1>1 DEF Sockets
  <1>5. /\ conn' \in [Conns -> Sockets] /\ conn'[w] = [c[w] EXCEPT !.ph = "closedOld"]
        /\ \A v \in Conns : v # w => conn'[v] = c[v]
    BY <1>1, <1>3, <1>4
  <1> QED
    BY <1>0, <1>1, <1>2, <1>4, <1>5, SocketStep

\* A connection is registered; the one it replaces can no longer be reached.
LEMMA RegisterBridgeInv ==
    ASSUME PairingInv, NEW w \in Conns, RegisterBridge(w)
    PROVE  PairingInv'
  <1>0. TypeOK /\ conn[w] \in Sockets /\ conn[w].d \in Challenges /\ conn[w].ph = "closedOld"
    BY DEF PairingInv, TypeOK, Reachable, RegisterBridge
  <1>1. PICK d \in Challenges : d = conn[w].d
    BY <1>0
  <1>2. /\ hub' = [hub EXCEPT ![d] = w] /\ conn' = [conn EXCEPT ![w].ph = "open"]
        /\ UNCHANGED <<ch, order, told, cl, pair, dev>>
    BY <1>1 DEF RegisterBridge, pairingVars
  <1>3. /\ slipped \subseteq slipped'
        /\ hub[d] # Nobody /\ ~conn[hub[d]].sig => hub[d] \in slipped'
        /\ dev[d].rev = "done" => w \in slipped'
    BY <1>1 DEF RegisterBridge
  <1>4. /\ hub' \in [Challenges -> Conns \cup {Nobody}] /\ hub'[d] = w
        /\ \A e \in Challenges : e # d => hub'[e] = hub[e]
    BY <1>0, <1>2 DEF TypeOK
  <1>5. /\ conn' \in [Conns -> Sockets] /\ conn'[w].ph = "open"
        /\ conn'[w].d = d /\ conn'[w].sig = conn[w].sig
        /\ \A v \in Conns : v # w => conn'[v] = conn[v]
    <2>1. conn' = [conn EXCEPT ![w] = [conn[w] EXCEPT !.ph = "open"]]
      BY <1>0, <1>2 DEF TypeOK
    <2>2. /\ [conn[w] EXCEPT !.ph = "open"] \in Sockets
          /\ [conn[w] EXCEPT !.ph = "open"].ph = "open"
          /\ [conn[w] EXCEPT !.ph = "open"].d = d
          /\ [conn[w] EXCEPT !.ph = "open"].sig = conn[w].sig
      BY <1>0, <1>1 DEF Sockets
    <2> QED
      BY <1>0, <2>1, <2>2, SocketMoved
  <1>6. TypeOK'
    BY <1>0, <1>2, <1>4, <1>5 DEF TypeOK
  <1>7. ASSUME NEW v \in Conns PROVE Reachable(v)'
    <2>1. CASE v = w
      BY <1>2, <1>3, <1>4, <1>5, <2>1 DEF Reachable
    <2>2. CASE v # w
      <3>1. Reachable(v) /\ v # Nobody
        BY PairingAssumption DEF PairingInv
      <3> QED
        BY <1>2, <1>3, <1>4, <1>5, <2>2, <3>1 DEF Reachable
    <2> QED
      BY <2>1, <2>2
  <1> QED
    BY <1>2, <1>6, <1>7, PairingsStay DEF PairingInv

\* A connection is removed, and with it whatever is registered.
LEMMA RemoveBridgeInv ==
    ASSUME PairingInv, NEW w \in Conns, RemoveBridge(w)
    PROVE  PairingInv'
  <1>0. TypeOK /\ conn[w] \in Sockets /\ conn[w].d \in Challenges /\ conn[w].ph = "leaving"
    BY DEF PairingInv, TypeOK, Reachable, RemoveBridge
  <1>1. PICK d \in Challenges : d = conn[w].d
    BY <1>0
  <1>2. /\ hub' = [hub EXCEPT ![d] = Nobody] /\ conn' = [conn EXCEPT ![w].ph = "gone"]
        /\ UNCHANGED <<ch, order, told, cl, pair, dev>>
    BY <1>1 DEF RemoveBridge, pairingVars
  <1>3. /\ slipped \subseteq slipped'
        /\ hub[d] \notin {Nobody, w} /\ ~conn[hub[d]].sig => hub[d] \in slipped'
    BY <1>1 DEF RemoveBridge
  <1>4. /\ hub' \in [Challenges -> Conns \cup {Nobody}]
        /\ \A e \in Challenges : e # d => hub'[e] = hub[e]
    BY <1>0, <1>2 DEF TypeOK
  <1>5. /\ conn' \in [Conns -> Sockets] /\ conn'[w].ph = "gone" /\ conn'[w].d = d
        /\ \A v \in Conns : v # w => conn'[v] = conn[v]
    <2>1. conn' = [conn EXCEPT ![w] = [conn[w] EXCEPT !.ph = "gone"]]
      BY <1>0, <1>2 DEF TypeOK
    <2>2. /\ [conn[w] EXCEPT !.ph = "gone"] \in Sockets
          /\ [conn[w] EXCEPT !.ph = "gone"].ph = "gone"
          /\ [conn[w] EXCEPT !.ph = "gone"].d = d
      BY <1>0, <1>1 DEF Sockets
    <2> QED
      BY <1>0, <2>1, <2>2, SocketMoved
  <1>6. TypeOK'
    BY <1>0, <1>2, <1>4, <1>5 DEF TypeOK
  <1>7. ASSUME NEW v \in Conns PROVE Reachable(v)'
    <2>1. CASE v = w
      BY <1>5, <2>1 DEF Reachable
    <2>2. CASE v # w
      <3>1. Reachable(v) /\ v # Nobody
        BY PairingAssumption DEF PairingInv
      <3> QED
        BY <1>2, <1>3, <1>4, <1>5, <2>2, <3>1 DEF Reachable
    <2> QED
      BY <2>1, <2>2
  <1> QED
    BY <1>2, <1>6, <1>7, PairingsStay DEF PairingInv

\* A device's row is marked revoked, and then its connection is signalled.
LEMMA RevokeInv ==
    ASSUME PairingInv, NEW c \in Challenges, ForceClose(c) \/ \E o \in Owners : Revoke(o, c)
    PROVE  PairingInv'
  <1> USE DEF ForceClose, Revoke
  <1>0. TypeOK /\ dev[c] \in Devices
    BY DEF PairingInv, TypeOK
  <1>1. PICK r \in {"row", "done"} :
          /\ dev' = [dev EXCEPT ![c].rev = r]
          /\ r = "row" => conn' = conn /\ dev[c].rev = "no"
          /\ r = "done" => conn' = Signal(c)
    OBVIOUS
  <1>2. UNCHANGED <<ch, order, told, cl, pair, hub, slipped>>
    BY DEF pairingVars
  <1> HIDE DEF ForceClose, Revoke
  <1>3. /\ dev' \in [Challenges -> Devices] /\ dev'[c].rev = r
        /\ dev'[c].creds = dev[c].creds /\ dev'[c].owner = dev[c].owner
        /\ \A e \in Challenges : e # c => dev'[e] = dev[e]
    <2>1. dev' = [dev EXCEPT ![c] = [dev[c] EXCEPT !.rev = r]]
      BY <1>0, <1>1 DEF TypeOK
    <2>2. /\ [dev[c] EXCEPT !.rev = r] \in Devices /\ [dev[c] EXCEPT !.rev = r].rev = r
          /\ [dev[c] EXCEPT !.rev = r].creds = dev[c].creds
          /\ [dev[c] EXCEPT !.rev = r].owner = dev[c].owner
      BY <1>0 DEF Devices
    <2> QED
      BY <1>0, <2>1, <2>2 DEF TypeOK
  <1>4. /\ conn' \in [Conns -> Sockets]
        /\ \A w \in Conns : /\ conn'[w].ph = conn[w].ph /\ conn'[w].d = conn[w].d
                            /\ conn[w].sig => conn'[w].sig
                            /\ r = "done" /\ hub[c] = w => conn'[w].sig
    <2>1. CASE r = "row"
      BY <1>0, <1>1, <2>1 DEF TypeOK
    <2>2. CASE r = "done"
      BY <1>1, <2>2, SignalEffect
    <2> QED
      BY <2>1, <2>2
  <1>5. TypeOK'
    BY <1>0, <1>2, <1>3, <1>4 DEF TypeOK
  <1>6. ASSUME NEW w \in Conns PROVE Reachable(w)'
    <2>1. Reachable(w)
      BY DEF PairingInv
    <2> QED
      BY <1>2, <1>3, <1>4, <2>1 DEF Reachable
  <1>7. \A e \in Challenges : dev'[e].creds = dev[e].creds /\ dev'[e].owner = dev[e].owner
    BY <1>3
  <1> QED
    BY <1>2, <1>5, <1>6, <1>7, PairingsStay DEF PairingInv

-----------------------------------------------------------------------------
(* The theorems. *)

\* Every step keeps the invariant.
LEMMA StepInv == PairingInv /\ [Next]_vars => PairingInv'
  <1> SUFFICES ASSUME PairingInv, [Next]_vars PROVE PairingInv'
    OBVIOUS
  <1>1. CASE UNCHANGED vars
    <2>1. TypeOK' /\ UNCHANGED <<ch, order, told, cl, pair, dev, conn, hub, slipped>>
      BY <1>1 DEF vars, PairingInv, TypeOK
    <2> QED
      BY <2>1, PairingsStay, ConnectionsStay DEF PairingInv
  <1>2. ASSUME NEW c \in Challenges,
               \/ Register(c) \/ Expires(c) \/ ApproveMismatch(c) \/ PollFails(c)
               \/ BindKeychain(c) \/ BindStore(c) \/ PairStops(c) \/ ForceClose(c)
        PROVE  PairingInv'
    BY <1>2, RegisterInv, RowMarkedInv, BindInv, RevokeInv
  <1>3. ASSUME NEW o \in Owners,
               \/ \E k \in Codes : Approve(o, k)
               \/ \E c \in Challenges : CancelChallenge(o, c)
               \/ \E c \in Connecting : Revoke(o, c)
        PROVE  PairingInv'
    BY <1>3, ApproveInv, RowMarkedInv, RevokeInv, PairingAssumption
  <1>4. ASSUME NEW q \in Claims,
               \/ \E c \in Challenges : ClaimSelect(q, c)
               \/ ClaimDeliver(q) \/ ClaimError(q) \/ PollAnswered(q)
        PROVE  PairingInv'
    BY <1>4, ClaimMovesInv, ClaimDeliverInv, PollAnsweredInv
  <1>5. ASSUME NEW w \in Conns,
               \/ \E c \in Connecting : Authenticate(w, c)
               \/ HelloFails(w) \/ CloseOld(w) \/ RegisterBridge(w)
               \/ SessionEnds(w) \/ RemoveBridge(w)
        PROVE  PairingInv'
    BY <1>5, SocketMovesInv, CloseOldInv, RegisterBridgeInv, RemoveBridgeInv
  <1> QED
    BY <1>1, <1>2, <1>3, <1>4, <1>5 DEF Next

\* The inductive invariant holds in every behaviour, for any number of
\* challenges, owners, codes, claims and connections.
THEOREM PairingInvariant == Spec => []PairingInv
  BY InitInv, StepInv, PTL DEF Spec

\* However claims and approvals overlap, one credential is made of a pairing,
\* for the owner who approved it, and only that owner is told so
\* (claim, approve).
THEOREM PairingDeliversOnce == Spec => []SingleDelivery
  <1>1. PairingInv => SingleDelivery
    <2> SUFFICES ASSUME PairingInv, NEW c \in Challenges
                 PROVE  /\ Cardinality(dev[c].creds) <= 1
                        /\ dev[c].creds # {} => dev[c].owner = ch[c].owner
                        /\ \A o \in Owners : c \in told[o] => ch[c].owner = o
      BY DEF SingleDelivery
    <2>1. Delivered(c)
      BY DEF PairingInv
    <2>2. dev[c].creds = {} \/ \E q \in Claims : dev[c].creds = {q}
      BY <2>1 DEF Delivered
    <2>3. Cardinality(dev[c].creds) <= 1
      BY <2>2, FS_EmptySet, FS_Singleton
    <2> QED
      BY <2>1, <2>3 DEF Delivered
  <1> QED
    BY <1>1, PairingInvariant, PTL

\* A binding is written only with a credential in the keychain that the Relay
\* knows, wherever the pair command stops (bind, claim).
THEOREM BoundMachinesConnect == Spec => []BoundCanConnect
  <1>1. PairingInv => BoundCanConnect
    BY DEF PairingInv, Holds, BoundCanConnect
  <1> QED
    BY <1>1, PairingInvariant, PTL

\* Once a revocation is answered, every connection of the device was told to
\* close, or is one that slipped between two steps of the handlers
\* (revoke_device, force_close_bridge, remove_bridge).
THEOREM RevocationCuts == Spec => []RevokedIsCut
  <1>1. PairingInv => RevokedIsCut
    BY DEF PairingInv, Reachable, RevokedIsCut
  <1> QED
    BY <1>1, PairingInvariant, PTL

-----------------------------------------------------------------------------
(* Browsers: the connections the introspection loop closes.                *)

Connections == [ph : {"idle", "hello", "open", "closing", "gone"},
                s : Sessions \cup {NoSession}, exp : BOOLEAN]
Passes == [on : BOOLEAN, all : SUBSET Browsers, todo : SUBSET Browsers,
           seen : SUBSET Sessions, close : SUBSET Browsers, unreachable : BOOLEAN]

\* What the pass has found out about a connection still holds when it ends.
Cause(c) == browser[c].exp \/ sess[browser[c].s] = "revoked"

AuthInv ==
    /\ AuthTypeOK
    /\ \A c \in Browsers : browser[c].ph = "idle" <=> browser[c].s = NoSession
    /\ \A c \in pass.close : Cause(c)

\* The initial states.
LEMMA AuthInitInv == AuthInit => AuthInv
  <1> SUFFICES ASSUME AuthInit PROVE AuthInv
    OBVIOUS
  <1>1. /\ sess = [s \in Sessions |-> "valid"] /\ up = TRUE
        /\ browser = [c \in Browsers |-> [ph |-> "idle", s |-> NoSession, exp |-> FALSE]]
        /\ degraded = "none"
        /\ pass = [on |-> FALSE, all |-> {}, todo |-> {}, seen |-> {}, close |-> {},
                   unreachable |-> FALSE]
    BY DEF AuthInit, NoPass
  <1> QED
    BY <1>1 DEF AuthInv, AuthTypeOK

\* A step of one connection that keeps its session and does not undo its expiry.
LEMMA ConnectionStep ==
    ASSUME AuthInv, NEW f \in [Browsers -> Connections],
           browser' = f, UNCHANGED <<sess, up, degraded, pass>>,
           \A c \in Browsers :
             /\ browser[c].ph = "idle" => f[c].ph = "idle" \/ c \notin pass.all
             /\ browser[c].ph # "idle" => f[c].ph # "idle" /\ f[c].s = browser[c].s
             /\ browser[c].ph # "idle" /\ browser[c].exp => f[c].exp
             /\ f[c].ph = "idle" <=> f[c].s = NoSession
    PROVE  AuthInv'
  <1>1. /\ AuthTypeOK /\ pass \in Passes /\ browser \in [Browsers -> Connections]
        /\ pass.todo \cup pass.close \subseteq pass.all
        /\ \A c \in pass.all : browser[c].s # NoSession
    BY DEF AuthInv, AuthTypeOK, Passes, Connections
  <1>2. pass.all \subseteq Browsers /\ pass.close \subseteq pass.all
    BY <1>1 DEF Passes
  <1>3. ASSUME NEW c \in pass.all
        PROVE  /\ c \in Browsers /\ browser[c].ph # "idle" /\ f[c].s = browser[c].s
               /\ f[c].s # NoSession /\ (browser[c].exp => f[c].exp)
    BY <1>1, <1>2 DEF AuthInv
  <1>4. AuthTypeOK'
    <2>1. browser' \in [Browsers -> [ph : {"idle", "hello", "open", "closing", "gone"},
                                     s : Sessions \cup {NoSession}, exp : BOOLEAN]]
      BY DEF Connections
    <2> QED
      BY <1>1, <1>3, <2>1 DEF AuthTypeOK
  <1>5. \A c \in pass.close : Cause(c)'
    BY <1>2, <1>3 DEF AuthInv, Cause
  <1> QED
    BY <1>4, <1>5 DEF AuthInv

\* One connection moves; it was connected, or the pass has not seen it.
LEMMA OneConnectionStep ==
    ASSUME AuthInv, NEW c \in Browsers, NEW x \in Connections,
           browser' = [browser EXCEPT ![c] = x], UNCHANGED <<sess, up, degraded, pass>>,
           x.ph \in {"hello", "open", "gone"}, x.s # NoSession,
           \/ browser[c].ph = "idle" /\ c \notin pass.all
           \/ browser[c].ph # "idle" /\ x.s = browser[c].s /\ (browser[c].exp => x.exp)
    PROVE  /\ AuthInv'
           /\ \A d \in Browsers : ~(browser[d].ph = "open" /\ browser'[d].ph = "closing")
  <1>1. browser \in [Browsers -> Connections]
    BY DEF AuthInv, AuthTypeOK, Connections
  <1>2. \A d \in Browsers : browser[d].ph = "idle" <=> browser[d].s = NoSession
    BY DEF AuthInv
  <1>3. PICK f \in [Browsers -> Connections] :
           f = browser' /\ f[c] = x /\ \A d \in Browsers : d # c => f[d] = browser[d]
    BY <1>1
  <1>4. AuthInv'
    BY <1>2, <1>3, ConnectionStep
  <1>5. \A d \in Browsers : browser'[d] = x \/ browser'[d] = browser[d]
    BY <1>3
  <1> QED
    BY <1>4, <1>5

\* What close_browser does to a connection.
LEMMA Closes ==
    ASSUME browser \in [Browsers -> Connections], NEW C
    PROVE  /\ CloseAll(C) \in [Browsers -> Connections]
           /\ \A c \in Browsers :
                /\ CloseAll(C)[c].s = browser[c].s /\ CloseAll(C)[c].exp = browser[c].exp
                /\ CloseAll(C)[c].ph = "idle" <=> browser[c].ph = "idle"
                /\ browser[c].ph = "open" /\ CloseAll(C)[c].ph = "closing" => c \in C
  <1>1. ASSUME NEW c \in Browsers
        PROVE  /\ CloseAll(C)[c] \in Connections
               /\ CloseAll(C)[c].s = browser[c].s /\ CloseAll(C)[c].exp = browser[c].exp
               /\ CloseAll(C)[c].ph = "idle" <=> browser[c].ph = "idle"
               /\ browser[c].ph = "open" /\ CloseAll(C)[c].ph = "closing" => c \in C
    <2>1. CloseAll(C)[c] = IF c \in C \cap Open THEN [browser[c] EXCEPT !.ph = "closing"]
                           ELSE browser[c]
      BY DEF CloseAll
    <2>2. browser[c] \in Connections
      OBVIOUS
    <2>3. CASE c \in C \cap Open
      <3>1. CloseAll(C)[c] = [browser[c] EXCEPT !.ph = "closing"] /\ browser[c].ph = "open"
        BY <2>1, <2>3 DEF Open
      <3> QED
        BY <2>2, <2>3, <3>1 DEF Connections
    <2>4. CASE c \notin C \cap Open
      BY <2>1, <2>2, <2>4
    <2> QED
      BY <2>3, <2>4
  <1>2. CloseAll(C) \in [Browsers -> Connections]
    BY <1>1 DEF CloseAll
  <1> QED
    BY <1>1, <1>2

\* The steps of a connection other than the tests of a pass.
LEMMA ConnectionInv ==
    ASSUME AuthInv, NEW c \in Browsers,
           \/ \E s \in Sessions : ConsumeTicket(c, s)
           \/ Hello(c) \/ SessionExpires(c) \/ BrowserCommand(c) \/ Disconnect(c)
    PROVE  /\ AuthInv'
           /\ \A d \in Browsers : browser[d].ph = "open" /\ browser'[d].ph = "closing" => Cause(d)
  <1>1. browser \in [Browsers -> Connections] /\ browser[c] \in Connections
    BY DEF AuthInv, AuthTypeOK, Connections
  <1>2. \A d \in Browsers : browser[d].ph = "idle" <=> browser[d].s = NoSession
    BY DEF AuthInv
  <1>3. CASE \E s \in Sessions : ConsumeTicket(c, s)
    <2>1. PICK s \in Sessions : ConsumeTicket(c, s)
      BY <1>3
    <2>2. PICK x \in Connections : x = [ph |-> "hello", s |-> s, exp |-> FALSE]
      BY DEF Connections
    <2>3. /\ browser[c].ph = "idle" /\ browser' = [browser EXCEPT ![c] = x]
          /\ UNCHANGED <<sess, up, degraded, pass>>
      BY <2>1, <2>2 DEF ConsumeTicket
    <2>4. c \notin pass.all
      BY <1>2, <2>3 DEF AuthInv, AuthTypeOK
    <2> QED
      BY <2>2, <2>3, <2>4, AuthAssumption, OneConnectionStep
  <1>4. CASE Hello(c) \/ Disconnect(c)
    <2>1. PICK p \in {"open", "gone"} :
             /\ browser[c].ph \in {"hello", "open", "closing"}
             /\ browser' = [browser EXCEPT ![c].ph = p] /\ UNCHANGED <<sess, up, degraded, pass>>
      BY <1>4 DEF Hello, Disconnect
    <2>2. PICK x \in Connections : /\ x = [browser[c] EXCEPT !.ph = p]
                                   /\ x.ph = p /\ x.s = browser[c].s /\ x.exp = browser[c].exp
      <3>1. [browser[c] EXCEPT !.ph = p] \in Connections
        BY <1>1 DEF Connections
      <3>2. \A y : /\ [browser[c] EXCEPT !.ph = y].s = browser[c].s
                   /\ [browser[c] EXCEPT !.ph = y].exp = browser[c].exp
                   /\ [browser[c] EXCEPT !.ph = y].ph = y
        BY <1>1 DEF Connections
      <3> QED
        BY <3>1, <3>2
    <2>3. browser' = [browser EXCEPT ![c] = x]
      BY <2>1, <2>2
    <2> QED
      <3>1. browser[c].ph # "idle" /\ x.s # NoSession /\ x.ph \in {"hello", "open", "gone"}
        BY <1>2, <2>1, <2>2
      <3>2. /\ AuthInv'
            /\ \A d \in Browsers : ~(browser[d].ph = "open" /\ browser'[d].ph = "closing")
        BY <2>1, <2>2, <2>3, <3>1, OneConnectionStep
      <3> QED
        BY <3>2
  <1>5. CASE SessionExpires(c)
    <2>1. /\ browser[c].ph \in {"hello", "open"}
          /\ browser' = [browser EXCEPT ![c].exp = TRUE] /\ UNCHANGED <<sess, up, degraded, pass>>
      BY <1>5 DEF SessionExpires
    <2>2. PICK x \in Connections : /\ x = [browser[c] EXCEPT !.exp = TRUE]
                                   /\ x.ph = browser[c].ph /\ x.s = browser[c].s /\ x.exp
      <3>1. [browser[c] EXCEPT !.exp = TRUE] \in Connections
        BY <1>1 DEF Connections
      <3>2. /\ [browser[c] EXCEPT !.exp = TRUE].s = browser[c].s
            /\ [browser[c] EXCEPT !.exp = TRUE].ph = browser[c].ph
            /\ [browser[c] EXCEPT !.exp = TRUE].exp
        BY <1>1 DEF Connections
      <3> QED
        BY <3>1, <3>2
    <2>3. browser' = [browser EXCEPT ![c] = x]
      BY <2>1, <2>2
    <2> QED
      <3>1. browser[c].ph # "idle" /\ x.s # NoSession /\ x.ph \in {"hello", "open", "gone"}
        BY <1>2, <2>1, <2>2
      <3>2. /\ AuthInv'
            /\ \A d \in Browsers : ~(browser[d].ph = "open" /\ browser'[d].ph = "closing")
        BY <2>1, <2>2, <2>3, <3>1, OneConnectionStep
      <3> QED
        BY <3>2
  <1>6. CASE BrowserCommand(c)
    <2>1. /\ UNCHANGED <<sess, up, degraded, pass>>
          /\ \/ browser' = browser
             \/ browser[c].exp /\ browser' = CloseAll({c})
      BY <1>6 DEF BrowserCommand
    <2>2. CASE browser' = browser
      BY <1>1, <1>2, <2>1, <2>2, ConnectionStep
    <2>3. CASE browser[c].exp /\ browser' = CloseAll({c})
      <3>1. PICK f \in [Browsers -> Connections] : f = CloseAll({c})
        BY <1>1, Closes
      <3>2. \A d \in Browsers :
               /\ f[d].s = browser[d].s /\ f[d].exp = browser[d].exp
               /\ f[d].ph = "idle" <=> browser[d].ph = "idle"
               /\ browser[d].ph = "open" /\ f[d].ph = "closing" => d = c
        BY <1>1, <3>1, Closes
      <3>3. AuthInv'
        BY <1>2, <2>1, <2>3, <3>1, <3>2, ConnectionStep
      <3> QED
        BY <2>3, <3>1, <3>2, <3>3 DEF Cause
    <2> QED
      BY <2>1, <2>2, <2>3
  <1> QED
    BY <1>3, <1>4, <1>5, <1>6

\* dev-toolbox, and the start and the tests of a pass.
LEMMA PassInv ==
    ASSUME AuthInv,
           \/ \E s \in Sessions : RevokeSession(s)
           \/ ToolboxToggles \/ GraceEnds \/ PassStart
           \/ \E c \in Browsers : PassCheck(c)
    PROVE  AuthInv' /\ browser' = browser
  <1>1. /\ browser \in [Browsers -> Connections] /\ pass \in Passes
        /\ sess \in [Sessions -> {"valid", "revoked"}]
        /\ up \in BOOLEAN /\ degraded \in {"none", "grace", "over"}
        /\ pass.todo \cup pass.close \subseteq pass.all
        /\ \A c \in pass.all : browser[c].s # NoSession
        /\ \A c \in Browsers : browser[c].ph = "idle" <=> browser[c].s = NoSession
        /\ \A c \in pass.close : Cause(c)
    BY DEF AuthInv, AuthTypeOK, Connections, Passes
  <1>2. /\ pass.all \subseteq Browsers /\ pass.todo \subseteq pass.all
        /\ pass.close \subseteq pass.all /\ pass.seen \subseteq Sessions
    BY <1>1 DEF Passes
  <1>3. \A c \in Browsers : browser[c].s \in Sessions \cup {NoSession}
    BY <1>1 DEF Connections
  <1>4. CASE \E s \in Sessions : RevokeSession(s)
    <2>1. PICK s \in Sessions : RevokeSession(s)
      BY <1>4
    <2>2. sess' = [sess EXCEPT ![s] = "revoked"] /\ UNCHANGED <<up, browser, degraded, pass>>
      BY <2>1 DEF RevokeSession
    <2>3. /\ sess' \in [Sessions -> {"valid", "revoked"}]
          /\ \A x \in Sessions : sess[x] = "revoked" => sess'[x] = "revoked"
      BY <1>1, <2>2
    <2>4. ASSUME NEW c \in pass.close PROVE Cause(c)'
      <3>1. c \in Browsers /\ browser[c].s \in Sessions /\ Cause(c)
        BY <1>1, <1>2, <1>3
      <3> QED
        BY <2>2, <2>3, <3>1 DEF Cause
    <2> QED
      BY <1>1, <2>2, <2>3, <2>4 DEF AuthInv, AuthTypeOK, Connections, Passes
  <1>5. CASE ToolboxToggles \/ GraceEnds
    <2>1. /\ UNCHANGED <<sess, browser, pass>> /\ up' \in BOOLEAN
          /\ degraded' \in {"none", "grace", "over"}
      BY <1>1, <1>5 DEF ToolboxToggles, GraceEnds
    <2> QED
      BY <1>1, <2>1 DEF AuthInv, AuthTypeOK, Connections, Passes, Cause
  <1>6. ASSUME NEW q \in Passes, pass' = q, UNCHANGED <<sess, up, browser, degraded>>,
               q.todo \subseteq q.all, q.close \subseteq q.all,
               \A c \in q.all : browser[c].s # NoSession, \A c \in q.close : Cause(c)
        PROVE  AuthInv'
    <2>1. AuthTypeOK'
      BY <1>1, <1>6 DEF AuthTypeOK, Connections, Passes
    <2>2. \A c \in pass'.close : Cause(c)'
      BY <1>6 DEF Cause
    <2> QED
      BY <1>1, <1>6, <2>1, <2>2 DEF AuthInv
  <1>7. CASE PassStart
    <2>1. PICK q \in Passes : /\ q = [on |-> TRUE, all |-> Open, todo |-> Open, seen |-> {},
                                      close |-> {}, unreachable |-> FALSE]
      BY DEF Passes, Open
    <2>2. pass' = q /\ UNCHANGED <<sess, up, browser, degraded>>
      BY <1>7, <2>1 DEF PassStart
    <2>3. q.all = Open /\ q.todo = Open /\ q.close = {}
      BY <2>1
    <2>4. \A c \in Open : browser[c].s # NoSession
      BY <1>1 DEF Open
    <2> QED
      BY <1>6, <2>2, <2>3, <2>4
  <1>8. CASE \E c \in Browsers : PassCheck(c)
    <2>1. PICK c \in Browsers : PassCheck(c)
      BY <1>8
    <2> DEFINE s == browser[c].s
    <2>2. c \in pass.todo /\ UNCHANGED <<sess, up, browser, degraded>>
      BY <2>1 DEF PassCheck
    <2>3. s \in Sessions /\ c \in pass.all
      BY <1>1, <1>2, <1>3, <2>2
    <2>4. PICK todo \in SUBSET Browsers : todo = pass.todo \ {c}
      BY <1>2
    <2>5. CASE browser[c].exp
      <3>1. PICK close \in SUBSET Browsers : close = pass.close \cup {c}
        BY <1>2
      <3>2. pass' = [pass EXCEPT !.todo = todo, !.close = close]
        BY <2>1, <2>4, <2>5, <3>1 DEF PassCheck
      <3>3. PICK q \in Passes : q = pass' /\ q.all = pass.all /\ q.todo = todo /\ q.close = close
        <4>1. pass' \in Passes
          BY <1>1, <3>2 DEF Passes
        <4>2. pass'.all = pass.all /\ pass'.todo = todo /\ pass'.close = close
          BY <1>1, <3>2 DEF Passes
        <4> QED
          BY <4>1, <4>2
      <3>4. \A d \in close : Cause(d)
        BY <1>1, <2>5, <3>1 DEF Cause
      <3> QED
        BY <1>1, <1>2, <1>6, <2>2, <2>3, <2>4, <3>1, <3>3, <3>4
    <2>6. CASE ~browser[c].exp /\ s \in pass.seen
      <3>1. pass' = [pass EXCEPT !.todo = todo]
        BY <2>1, <2>4, <2>6 DEF PassCheck
      <3>2. PICK q \in Passes : q = pass' /\ q.all = pass.all /\ q.todo = todo
                                /\ q.close = pass.close
        BY <1>1, <3>1 DEF Passes
      <3> QED
        BY <1>1, <1>2, <1>6, <2>2, <2>4, <3>2
    <2>7. CASE ~browser[c].exp /\ s \notin pass.seen
      <3>1. PICK close \in SUBSET Browsers :
               /\ close = IF up /\ sess[s] # "valid"
                          THEN pass.close \cup {d \in pass.all : browser[d].s = s}
                          ELSE pass.close
               /\ close \subseteq pass.all /\ \A d \in close : Cause(d)
        <4>1. CASE up /\ sess[s] # "valid"
          <5>1. sess[s] = "revoked"
            BY <1>1, <2>3, <4>1
          <5>2. \A d \in pass.close \cup {e \in pass.all : browser[e].s = s} : Cause(d)
            BY <1>1, <5>1 DEF Cause
          <5> QED
            BY <1>2, <4>1, <5>2
        <4>2. CASE ~(up /\ sess[s] # "valid")
          BY <1>1, <1>2, <4>2
        <4> QED
          BY <4>1, <4>2
      <3>2. PICK seen \in SUBSET Sessions : seen = pass.seen \cup {s}
        BY <1>2, <2>3
      <3>3. PICK lost \in BOOLEAN : lost = (pass.unreachable \/ ~up)
        OBVIOUS
      <3>4. pass' = [pass EXCEPT !.todo = todo, !.seen = seen, !.unreachable = lost, !.close = close]
        BY <2>1, <2>4, <2>7, <3>1, <3>2, <3>3 DEF PassCheck
      <3>5. PICK q \in Passes : q = pass' /\ q.all = pass.all /\ q.todo = todo /\ q.close = close
        <4>1. pass' \in Passes
          BY <1>1, <3>4 DEF Passes
        <4>2. pass'.all = pass.all /\ pass'.todo = todo /\ pass'.close = close
          BY <1>1, <3>4 DEF Passes
        <4> QED
          BY <4>1, <4>2
      <3> QED
        BY <1>1, <1>2, <1>6, <2>2, <2>4, <3>1, <3>5
    <2>8. AuthInv'
      BY <2>5, <2>6, <2>7
    <2> QED
      BY <2>2, <2>8
  <1>9. browser' = browser
    BY DEF RevokeSession, ToolboxToggles, GraceEnds, PassStart, PassCheck
  <1> QED
    BY <1>4, <1>5, <1>7, <1>8, <1>9

\* The end of a pass closes what it found, or everything when the grace period
\* is over.
LEMMA PassEndInv ==
    ASSUME AuthInv, PassEnd
    PROVE  /\ AuthInv'
           /\ \A c \in Browsers : browser[c].ph = "open" /\ browser'[c].ph = "closing" =>
                                    Cause(c) \/ degraded = "over"
  <1>1. /\ browser \in [Browsers -> Connections]
        /\ sess \in [Sessions -> {"valid", "revoked"}] /\ up \in BOOLEAN
        /\ degraded \in {"none", "grace", "over"}
        /\ \A c \in Browsers : browser[c].ph = "idle" <=> browser[c].s = NoSession
        /\ \A c \in pass.close : Cause(c)
    BY DEF AuthInv, AuthTypeOK, Connections
  <1>2. PICK C : /\ C = IF pass.unreachable /\ degraded = "over" THEN Browsers ELSE pass.close
                 /\ browser' = CloseAll(C)
    BY DEF PassEnd
  <1>3. \A c \in C : Cause(c) \/ degraded = "over"
    BY <1>1, <1>2
  <1>4. /\ pass' = [on |-> FALSE, all |-> {}, todo |-> {}, seen |-> {}, close |-> {},
                    unreachable |-> FALSE]
        /\ degraded' \in {"none", "grace", "over"} /\ UNCHANGED <<sess, up>>
    BY <1>1 DEF PassEnd, NoPass
  <1>5. /\ browser' \in [Browsers -> Connections]
        /\ \A c \in Browsers :
             /\ browser'[c].s = browser[c].s
             /\ browser'[c].ph = "idle" <=> browser[c].ph = "idle"
             /\ browser[c].ph = "open" /\ browser'[c].ph = "closing" => c \in C
    BY <1>1, <1>2, Closes
  <1>6. AuthTypeOK'
    BY <1>1, <1>4, <1>5 DEF AuthTypeOK, Connections
  <1> QED
    BY <1>1, <1>3, <1>4, <1>5, <1>6 DEF AuthInv

\* Every step keeps the invariant and closes a connection only for a cause.
LEMMA AuthStep ==
    ASSUME AuthInv, [AuthNext]_authVars
    PROVE  /\ AuthInv'
           /\ \A c \in Browsers : browser[c].ph = "open" /\ browser'[c].ph = "closing" =>
                                    Cause(c) \/ degraded = "over"
  <1>1. ASSUME NEW c \in Browsers,
               \/ \E s \in Sessions : ConsumeTicket(c, s)
               \/ Hello(c) \/ SessionExpires(c) \/ BrowserCommand(c) \/ Disconnect(c)
        PROVE  /\ AuthInv'
               /\ \A d \in Browsers : browser[d].ph = "open" /\ browser'[d].ph = "closing" =>
                                        Cause(d) \/ degraded = "over"
    BY <1>1, ConnectionInv
  <1>2. CASE \/ \E s \in Sessions : RevokeSession(s)
             \/ ToolboxToggles \/ GraceEnds \/ PassStart
             \/ \E c \in Browsers : PassCheck(c)
    BY <1>2, PassInv
  <1>3. CASE UNCHANGED authVars
    BY <1>3 DEF authVars, AuthInv, AuthTypeOK, Cause
  <1> QED
    BY <1>1, <1>2, <1>3, PassEndInv DEF AuthNext

\* The inductive invariant of the browser connections: what a pass of
\* introspection_loop means to close has lost its session.
THEOREM AuthInvariant == AuthSpec => []AuthInv
  BY AuthInitInv, AuthStep, PTL DEF AuthSpec

\* The Relay closes a connection only for a cause that holds at that moment,
\* although it decides on a snapshot and awaits dev-toolbox in between.
THEOREM ConnectionsCloseForCause == AuthSpec => ClosedForCause
  <1>1. AuthInv /\ [AuthNext]_authVars =>
          [\A c \in Browsers :
             browser[c].ph = "open" /\ browser'[c].ph = "closing" =>
               browser[c].exp \/ sess[browser[c].s] = "revoked" \/ degraded = "over"]_authVars
    BY AuthStep DEF Cause
  <1> QED
    BY <1>1, AuthInvariant, PTL DEF AuthSpec, ClosedForCause
=============================================================================
