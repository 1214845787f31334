------------------------ MODULE CodexFollowerProofs ------------------------
(***************************************************************************)
(* TLAPS proofs about CodexFollower: a refresh returns nothing older than  *)
(* what Desktop had when it was called, and once everything sent has been  *)
(* handled the projection of a followed conversation is Desktop's state.   *)
(***************************************************************************)
EXTENDS CodexFollower, SequenceTheorems, TLAPS

State == [t : Nat, run : BOOLEAN, q : BOOLEAN, out : [Turns -> [w : Nat, n : Nat]]]
Patches == UNION {Steps(st) : st \in State}

Desks == [up : BOOLEAN, gen : Nat, rev : Nat, st : State, follows : BOOLEAN]

(* What the two directions of the socket carry.                            *)
OutMessages ==
    [k : {"follow"}] \cup [k : {"owner"}, c : {"w"}, id : Nat]
    \cup [k : {"load"}, c : {"l", "r"}, id : Nat]
Snaps == [k : {"snap"}, gen : Nat, rev : Nat, st : State]
Diffs == [k : {"patch"}, gen : Nat, base : Nat, rev : Nat, p : Patches]
Responses == [k : {"resp"}, c : Callers, id : Nat, gen : Nat, rev : Nat]
InMessages == Snaps \cup Diffs \cup Responses \cup [k : {"bad", "status"}]

Requests == [ph : {"idle", "owner", "owned", "client", "load", "loaded"}, id : Nat, h : Nat,
             gen : Nat, rev : Nat, ag : Nat, ar : Nat]

Gaps == {"none", "unparsed", "failed"}

\* Types, as far as the proofs need them; Desktop's end is open only while
\* Desktop is up and the reader runs, and without it nobody is followed.
Shape ==
    /\ desk \in Desks
    /\ conn \in Nat /\ open \in BOOLEAN /\ wire \in BOOLEAN
    /\ outq \in Seq(OutMessages) /\ sock \in Seq(InMessages) /\ evq \in Seq(InMessages)
    /\ req \in [Callers -> Requests]
    /\ DOMAIN m = {"has", "rev", "gen", "st", "pend"}
    /\ m.has \in BOOLEAN /\ m.rev \in Nat /\ m.gen \in Nat
    /\ following \in BOOLEAN /\ gap \in Gaps /\ astray \in BOOLEAN
    /\ wire => open /\ desk.up
    /\ desk.follows => wire

-----------------------------------------------------------------------------
(* The order of revisions: those of a later owner come after all those of  *)
(* an earlier one.                                                         *)
NotAfter(g, r, h, s) == g < h \/ (g = h /\ r <= s)

Stream(x) == x.k \in {"snap", "patch"}
Before(x, y) == Stream(x) /\ Stream(y) => NotAfter(x.gen, x.rev, y.gen, y.rev)
Ordered(q) == \A i, j \in DOMAIN q : i < j => Before(q[i], q[j])
UpTo(q, g, r) == \A x \in Range(q) : Stream(x) => NotAfter(x.gen, x.rev, g, r)
From(q, g, r) == \A x \in Range(q) : Stream(x) => NotAfter(g, r, x.gen, x.rev)

\* What comes from Desktop is in the order of its revisions: behind what the
\* mapper has, in the event queue, then in the socket, up to Desktop's own.
OrderOf(eq, sk, mm, g, r) ==
    /\ Ordered(eq) /\ Ordered(sk)
    /\ \A x \in Range(eq), y \in Range(sk) : Before(x, y)
    /\ UpTo(eq, g, r) /\ UpTo(sk, g, r)
    /\ mm.has => /\ From(eq, mm.gen, mm.rev) /\ From(sk, mm.gen, mm.rev)
                 /\ NotAfter(mm.gen, mm.rev, g, r)
InOrder == OrderOf(evq, sock, m, desk.gen, desk.rev)

\* A patch is preceded by a snapshot of its owner, or the mapper has one.
SnapGens(q) == {x.gen : x \in {y \in Range(q) : y.k = "snap"}}
Grounded(q, G) ==
    \A i \in DOMAIN q : q[i].k = "patch" =>
        \/ q[i].gen \in G
        \/ \E j \in DOMAIN q : j < i /\ q[j].k = "snap" /\ q[j].gen = q[i].gen
Known(mm) == IF mm.has THEN {mm.gen} ELSE {}

GroundOf(eq, sk, mm, follows, g) ==
    /\ Grounded(eq, Known(mm))
    /\ Grounded(sk, Known(mm) \cup SnapGens(eq))
    /\ follows => g \in Known(mm) \cup SnapGens(eq) \cup SnapGens(sk)
PatchesGrounded == GroundOf(evq, sock, m, desk.follows, desk.gen)

\* While the wire is there and no case is excused, the way to Desktop's state
\* is on its way: the session will be followed (again), the pump has asked for
\* the complete history, or the latest revision is in the pipeline or in the mapper.
Has(q, kind) == \E x \in Range(q) : x.k = kind
PumpLoad(x) == x.k = "load" /\ x.c = "l"
Brings(q, g, r) == \E x \in Range(q) : Stream(x) /\ x.gen = g /\ x.rev = r
AtDesk(mm, g, r) == mm.has /\ mm.gen = g /\ mm.rev = r

CatchesUp ==
    wire /\ following /\ gap = "none" /\ ~astray =>
        \/ Has(outq, "follow")
        \/ Has(evq, "status") \/ Has(sock, "status")
        \/ /\ desk.follows
           /\ \/ \E x \in Range(outq) : PumpLoad(x)
              \/ Brings(evq, desk.gen, desk.rev) \/ Brings(sock, desk.gen, desk.rev)
              \/ AtDesk(m, desk.gen, desk.rev)

\* Some history of the conversation's states agrees with Desktop, with the
\* mapper and with everything in between.
Tells(x, H) ==
    /\ x.k = "snap" => x.st = H[x.gen][x.rev]
    /\ x.k = "patch" => /\ x.rev = x.base + 1
                        /\ H[x.gen][x.rev] = ApplyImmerPatches(H[x.gen][x.base], x.p)
Agrees(H, eq, sk, mm, d) ==
    /\ \A x \in Range(eq) \cup Range(sk) : Tells(x, H)
    /\ mm.has => mm.st = H[mm.gen][mm.rev]
    /\ d.st = H[d.gen][d.rev]
Histories == [Nat -> [Nat -> State]]
OneHistory == \E H \in Histories : Agrees(H, evq, sock, m, desk)

-----------------------------------------------------------------------------
\* There is one refresh: before it asks, nothing of it is on its way, and what
\* answers it is no older than what Desktop had when it was called.
Asked(r) == r.id = 1 /\ r.ph # "client"
RefreshInv ==
    LET r == req["r"] IN
    /\ r.ph \in {"idle", "client", "load", "loaded"}
    /\ NotAfter(r.ag, r.ar, desk.gen, desk.rev)
    /\ r.ph = "loaded" => NotAfter(r.ag, r.ar, r.gen, r.rev) /\ r.gen <= desk.gen
    /\ r.ph # "idle" => r.id = 1
    /\ \A x \in Range(outq) : x.k = "load" /\ x.c = "r" => Asked(r)
    /\ \A x \in Range(sock) : x.k = "resp" /\ x.c = "r" =>
           Asked(r) /\ NotAfter(r.ag, r.ar, x.gen, x.rev) /\ x.gen <= desk.gen
    /\ \A x \in Range(evq) : x.k # "resp"
    /\ RefreshIsFresh
-----------------------------------------------------------------------------
(* The order of revisions.                                                 *)

\* Nothing comes after itself; nothing comes before the beginning.
LEMMA NotAfterSelf == \A g, r \in Nat : NotAfter(g, r, g, r) /\ NotAfter(0, 0, g, r)
  BY DEF NotAfter

\* The order is transitive.
LEMMA NotAfterTrans ==
    \A g, r, h, s, i, t \in Nat :
        NotAfter(g, r, h, s) /\ NotAfter(h, s, i, t) => NotAfter(g, r, i, t)
  BY DEF NotAfter

\* Two revisions neither of which comes after the other are the same.
LEMMA NotAfterSame ==
    \A g, r, h, s \in Nat : NotAfter(g, r, h, s) /\ NotAfter(h, s, g, r) => g = h /\ r = s
  BY DEF NotAfter

\* Desktop's next revision, and the first one of the next owner, come later.
LEMMA NotAfterNext ==
    \A g, r \in Nat : NotAfter(g, r, g, r + 1) /\ NotAfter(g, r, g + 1, 0)
  BY DEF NotAfter

-----------------------------------------------------------------------------
(* Queues.                                                                 *)

\* Nothing is in the empty sequence.
LEMMA RangeEmpty == Range(<<>>) = {}
  BY DEF Range

\* What an appended queue holds, position by position and as a set.
LEMMA AppendAt ==
    ASSUME NEW S, NEW q \in Seq(S), NEW x \in S
    PROVE  /\ Append(q, x) \in Seq(S)
           /\ DOMAIN q = 1 .. Len(q) /\ Len(q) \in Nat
           /\ DOMAIN Append(q, x) = 1 .. (Len(q) + 1)
           /\ \A i \in 1 .. Len(q) : Append(q, x)[i] = q[i]
           /\ Append(q, x)[Len(q) + 1] = x
           /\ Range(Append(q, x)) = Range(q) \cup {x}
  <1>1. <<x>> \in Seq(S) /\ Range(<<x>>) = {x}
    BY DEF Range
  <1>2. Append(q, x) = q \o <<x>>
    BY AppendIsConcat
  <1>3. \A a, b \in Seq(S) : Range(a \o b) = Range(a) \cup Range(b)
    BY RangeConcatenation
  <1>4. Range(Append(q, x)) = Range(q) \cup {x}
    BY <1>1, <1>2, <1>3
  <1> QED
    BY <1>4

\* What a queue without its head holds.
LEMMA TailAt ==
    ASSUME NEW S, NEW q \in Seq(S), q # <<>>
    PROVE  /\ Head(q) \in S /\ Tail(q) \in Seq(S) /\ Head(q) = q[1]
           /\ DOMAIN q = 1 .. Len(q) /\ Len(q) \in Nat /\ Len(q) >= 1
           /\ DOMAIN Tail(q) = 1 .. (Len(q) - 1)
           /\ \A i \in 1 .. (Len(q) - 1) : Tail(q)[i] = q[i + 1]
           /\ Range(q) = {Head(q)} \cup Range(Tail(q))
  <1>1. Head(q) \in S /\ Tail(q) \in Seq(S) /\ q = <<Head(q)>> \o Tail(q)
    OBVIOUS
  <1>2. <<Head(q)>> \in Seq(S) /\ Range(<<Head(q)>>) = {Head(q)}
    BY <1>1 DEF Range
  <1>3. \A a, b \in Seq(S) : Range(a \o b) = Range(a) \cup Range(b)
    BY RangeConcatenation
  <1>4. Range(q) = {Head(q)} \cup Range(Tail(q))
    BY <1>1, <1>2, <1>3
  <1>5. /\ DOMAIN q = 1 .. Len(q) /\ Len(q) \in Nat /\ Len(q) >= 1 /\ Head(q) = q[1]
        /\ DOMAIN Tail(q) = 1 .. (Len(q) - 1)
        /\ \A i \in 1 .. (Len(q) - 1) : Tail(q)[i] = q[i + 1]
    OBVIOUS
  <1> QED
    BY <1>1, <1>4, <1>5

\* A queue stays in order when something later, or something that is no change
\* of the conversation, is appended.
LEMMA OrderedAppend ==
    ASSUME NEW S, NEW q \in Seq(S), NEW x \in S, Ordered(q),
           \A y \in Range(q) : Before(y, x)
    PROVE  Ordered(Append(q, x))
  <1>1. /\ DOMAIN q = 1 .. Len(q) /\ Len(q) \in Nat
        /\ DOMAIN Append(q, x) = 1 .. (Len(q) + 1)
        /\ \A i \in 1 .. Len(q) : Append(q, x)[i] = q[i]
        /\ Append(q, x)[Len(q) + 1] = x
    BY AppendAt
  <1>2. SUFFICES ASSUME NEW i \in 1 .. (Len(q) + 1), NEW j \in 1 .. (Len(q) + 1), i < j
                 PROVE  Before(Append(q, x)[i], Append(q, x)[j])
    BY <1>1 DEF Ordered
  <1>3. i \in 1 .. Len(q) /\ Append(q, x)[i] = q[i]
    BY <1>1, <1>2
  <1>4. CASE j \in 1 .. Len(q)
    BY <1>1, <1>2, <1>3, <1>4 DEF Ordered
  <1>5. CASE j = Len(q) + 1
    <2>1. q[i] \in Range(q)
      BY <1>1, <1>3 DEF Range
    <2> QED
      BY <1>1, <1>3, <1>5, <2>1
  <1> QED
    BY <1>1, <1>2, <1>4, <1>5

\* The tail of a queue in order is in order, and its head comes first.
LEMMA OrderedTail ==
    ASSUME NEW S, NEW q \in Seq(S), q # <<>>, Ordered(q)
    PROVE  Ordered(Tail(q)) /\ \A y \in Range(Tail(q)) : Before(Head(q), y)
  <1>1. /\ Head(q) = q[1] /\ DOMAIN q = 1 .. Len(q) /\ Len(q) \in Nat /\ Len(q) >= 1
        /\ DOMAIN Tail(q) = 1 .. (Len(q) - 1)
        /\ \A i \in 1 .. (Len(q) - 1) : Tail(q)[i] = q[i + 1]
    BY TailAt
  <1>2. Ordered(Tail(q))
    <2>1. SUFFICES ASSUME NEW i \in 1 .. (Len(q) - 1), NEW j \in 1 .. (Len(q) - 1), i < j
                   PROVE  Before(Tail(q)[i], Tail(q)[j])
      BY <1>1 DEF Ordered
    <2>2. i + 1 \in DOMAIN q /\ j + 1 \in DOMAIN q /\ i + 1 < j + 1
      BY <1>1, <2>1
    <2> QED
      BY <1>1, <2>1, <2>2 DEF Ordered
  <1>3. ASSUME NEW y \in Range(Tail(q)) PROVE Before(Head(q), y)
    <2>1. PICK i \in 1 .. (Len(q) - 1) : y = Tail(q)[i]
      BY <1>1, <1>3 DEF Range
    <2>2. 1 \in DOMAIN q /\ i + 1 \in DOMAIN q /\ 1 < i + 1
      BY <1>1, <2>1
    <2> QED
      BY <1>1, <2>1, <2>2 DEF Ordered
  <1> QED
    BY <1>2, <1>3

\* An appended patch of an owner whose snapshot is known or in the queue is
\* grounded.
LEMMA GroundedAppend ==
    ASSUME NEW S, NEW q \in Seq(S), NEW x \in S, NEW G, Grounded(q, G),
           x.k = "patch" => x.gen \in G \cup SnapGens(q)
    PROVE  Grounded(Append(q, x), G)
  <1>1. /\ DOMAIN q = 1 .. Len(q) /\ Len(q) \in Nat
        /\ DOMAIN Append(q, x) = 1 .. (Len(q) + 1)
        /\ \A i \in 1 .. Len(q) : Append(q, x)[i] = q[i]
        /\ Append(q, x)[Len(q) + 1] = x
    BY AppendAt
  <1>2. SUFFICES ASSUME NEW i \in 1 .. (Len(q) + 1), Append(q, x)[i].k = "patch",
                        Append(q, x)[i].gen \notin G
                 PROVE  \E j \in 1 .. (Len(q) + 1) :
                            /\ j < i /\ Append(q, x)[j].k = "snap"
                            /\ Append(q, x)[j].gen = Append(q, x)[i].gen
    BY <1>1 DEF Grounded
  <1>3. CASE i \in 1 .. Len(q)
    <2>1. PICK j \in 1 .. Len(q) : j < i /\ q[j].k = "snap" /\ q[j].gen = q[i].gen
      BY <1>1, <1>2, <1>3 DEF Grounded
    <2> QED
      BY <1>1, <1>3, <2>1
  <1>4. CASE i = Len(q) + 1
    <2>1. PICK y \in Range(q) : y.k = "snap" /\ y.gen = x.gen
      BY <1>1, <1>2, <1>4 DEF SnapGens
    <2>2. PICK j \in 1 .. Len(q) : q[j] = y
      BY <1>1 DEF Range
    <2> QED
      BY <1>1, <1>4, <2>1, <2>2
  <1> QED
    BY <1>1, <1>2, <1>3, <1>4

\* The head of a grounded queue is grounded by what is known; the tail is, with
\* the head known.
LEMMA GroundedTail ==
    ASSUME NEW S, NEW q \in Seq(S), q # <<>>, NEW G, Grounded(q, G), NEW K,
           \A x \in Range(Tail(q)) : x.k = "patch" /\ x.gen \in G => x.gen \in K,
           Head(q).k = "snap" => Head(q).gen \in K
    PROVE  /\ Head(q).k = "patch" => Head(q).gen \in G
           /\ Grounded(Tail(q), K)
  <1>1. /\ Head(q) = q[1] /\ DOMAIN q = 1 .. Len(q) /\ Len(q) \in Nat /\ Len(q) >= 1
        /\ DOMAIN Tail(q) = 1 .. (Len(q) - 1)
        /\ \A i \in 1 .. (Len(q) - 1) : Tail(q)[i] = q[i + 1]
    BY TailAt
  <1>2. Head(q).k = "patch" => Head(q).gen \in G
    <2>1. 1 \in DOMAIN q /\ \A j \in DOMAIN q : ~(j < 1)
      BY <1>1
    <2> QED
      BY <1>1, <2>1 DEF Grounded
  <1>3. SUFFICES ASSUME NEW i \in 1 .. (Len(q) - 1), Tail(q)[i].k = "patch",
                        Tail(q)[i].gen \notin K
                 PROVE  \E j \in 1 .. (Len(q) - 1) :
                            /\ j < i /\ Tail(q)[j].k = "snap"
                            /\ Tail(q)[j].gen = Tail(q)[i].gen
    BY <1>1, <1>2 DEF Grounded
  <1>4. i + 1 \in 1 .. Len(q) /\ Tail(q)[i] = q[i + 1] /\ Tail(q)[i] \in Range(Tail(q))
    <2>1. i + 1 \in 1 .. Len(q)
      BY <1>1
    <2> QED
      BY <1>1, <2>1 DEF Range
  <1>5. PICK j \in 1 .. Len(q) : j < i + 1 /\ q[j].k = "snap" /\ q[j].gen = q[i + 1].gen
    BY <1>1, <1>3, <1>4 DEF Grounded
  <1>6. j # 1
    BY <1>1, <1>3, <1>4, <1>5
  <1>7. j - 1 \in 1 .. (Len(q) - 1) /\ j - 1 < i /\ Tail(q)[j - 1] = q[j]
    BY <1>1, <1>3, <1>5, <1>6
  <1> QED
    BY <1>4, <1>5, <1>7

\* What grounds a queue may be more than it was, as long as it still holds for
\* the patches in the queue.
LEMMA GroundedMore ==
    ASSUME NEW S, NEW q \in Seq(S), NEW G, NEW K, Grounded(q, G),
           \A x \in Range(q) : x.k = "patch" /\ x.gen \in G => x.gen \in K
    PROVE  Grounded(q, K)
  BY DEF Grounded, Range
-----------------------------------------------------------------------------
(* Types.                                                                  *)

\* A rewritten output is an output.
LEMMA RewrittenType ==
    ASSUME NEW st \in State, NEW n \in Nat, NEW o \in Rewritten(st, n)
    PROVE  o \in [Turns -> [w : Nat, n : Nat]]
  <1>1. st.out \in [Turns -> [w : Nat, n : Nat]]
    BY DEF State
  <1>2. o = [st.out EXCEPT ![st.t] = [w |-> st.out[st.t].w + 1, n |-> n]]
    BY DEF Rewritten
  <1>3. st.t \in Turns => [w |-> st.out[st.t].w + 1, n |-> n] \in [w : Nat, n : Nat]
    BY <1>1
  <1> QED
    BY <1>1, <1>2, <1>3

\* One more piece of output.
LEMMA LongerType ==
    ASSUME NEW out \in [Turns -> [w : Nat, n : Nat]], NEW i
    PROVE  [out EXCEPT ![i].n = @ + 1] \in [Turns -> [w : Nat, n : Nat]]
  <1>1. \A r \in [w : Nat, n : Nat] : [r EXCEPT !.n = @ + 1] \in [w : Nat, n : Nat]
    OBVIOUS
  <1>2. ASSUME NEW j \in Turns
        PROVE  [out EXCEPT ![i].n = @ + 1][j] \in [w : Nat, n : Nat]
    <2>1. [out EXCEPT ![i].n = @ + 1][j] = IF j = i THEN [out[j] EXCEPT !.n = @ + 1] ELSE out[j]
      OBVIOUS
    <2> QED
      BY <1>1, <2>1
  <1> QED
    BY <1>2

\* A state with some of its fields replaced by fields of the right type is a
\* state.
LEMMA ApplyType ==
    ASSUME NEW st \in State, NEW p,
           "t" \in DOMAIN p => p["t"] \in Nat,
           "run" \in DOMAIN p => p["run"] \in BOOLEAN,
           "q" \in DOMAIN p => p["q"] \in BOOLEAN,
           "out" \in DOMAIN p => p["out"] \in [Turns -> [w : Nat, n : Nat]]
    PROVE  ApplyImmerPatches(st, p) \in State
  BY DEF State, ApplyImmerPatches

\* Whatever a turn does leads to a state.
LEMMA StepType ==
    ASSUME NEW st \in State, NEW p \in Steps(st)
    PROVE  ApplyImmerPatches(st, p) \in State
  <1>1. CASE p \in StartTurn(st)
    <2>1. p = [t |-> st.t + 1, run |-> TRUE] /\ st.t + 1 \in Nat
      BY <1>1 DEF StartTurn, State
    <2>2. DOMAIN p = {"t", "run"} /\ p["t"] \in Nat /\ p["run"] \in BOOLEAN
      BY <2>1
    <2> QED
      BY <2>2, ApplyType
  <1>2. CASE p \in EmitOutput(st)
    <2>1. p = [out |-> [st.out EXCEPT ![st.t].n = @ + 1]]
      BY <1>2 DEF EmitOutput
    <2>2. st.out \in [Turns -> [w : Nat, n : Nat]]
      BY DEF State
    <2>3. [st.out EXCEPT ![st.t].n = @ + 1] \in [Turns -> [w : Nat, n : Nat]]
      BY <2>2, LongerType
    <2>4. DOMAIN p = {"out"} /\ p["out"] \in [Turns -> [w : Nat, n : Nat]]
      BY <2>1, <2>3
    <2> QED
      BY <2>4, ApplyType
  <1>3. CASE p \in InjectPending(st)
    <2>1. p = [q |-> ~st.q]
      BY <1>3 DEF InjectPending
    <2>2. DOMAIN p = {"q"} /\ p["q"] \in BOOLEAN
      BY <2>1
    <2> QED
      BY <2>2, ApplyType
  <1>4. CASE p = [run |-> FALSE]
    <2>1. DOMAIN p = {"run"} /\ p["run"] \in BOOLEAN
      BY <1>4
    <2> QED
      BY <2>1, ApplyType
  <1>5. ASSUME NEW o \in Rewritten(st, 1), p = [run |-> FALSE, out |-> o]
        PROVE  ApplyImmerPatches(st, p) \in State
    <2>1. DOMAIN p = {"run", "out"} /\ p["run"] \in BOOLEAN /\ p["out"] = o
      BY <1>5
    <2>2. o \in [Turns -> [w : Nat, n : Nat]]
      BY <1>5, RewrittenType
    <2> QED
      BY <2>1, <2>2, ApplyType
  <1>6. ASSUME NEW o \in Rewritten(st, 2), p = [out |-> o]
        PROVE  ApplyImmerPatches(st, p) \in State
    <2>1. DOMAIN p = {"out"} /\ p["out"] = o
      BY <1>6
    <2>2. o \in [Turns -> [w : Nat, n : Nat]]
      BY <1>6, RewrittenType
    <2> QED
      BY <2>1, <2>2, ApplyType
  <1> QED
    BY <1>1, <1>2, <1>3, <1>4, <1>5, <1>6 DEF Steps, RunTurn

\* A state whose turn does not run is a state.
LEMMA StoppedType ==
    ASSUME NEW st \in State
    PROVE  [st EXCEPT !.run = FALSE] \in State
  BY DEF State

\* The two conversations the Bridge may start with.
LEMMA FirstStates == NewConversation \in State /\ Started \in State
  <1>1. Empty \in [w : Nat, n : Nat]
    BY DEF Empty
  <1>2. NewConversation \in State
    BY <1>1 DEF NewConversation, State
  <1>3. ASSUME NEW o \in [Turns -> [w : Nat, n : Nat]], 1 \in Turns
        PROVE  [o EXCEPT ![1].n = 1] \in [Turns -> [w : Nat, n : Nat]]
    <2>1. [o[1] EXCEPT !.n = 1] \in [w : Nat, n : Nat]
      BY <1>3
    <2> QED
      BY <1>3, <2>1
  <1>4. 1 \in Turns
    BY FollowerAssumption DEF Turns
  <1>5. NewConversation.out \in [Turns -> [w : Nat, n : Nat]]
    BY <1>2 DEF State
  <1>6. [NewConversation.out EXCEPT ![1].n = 1] \in [Turns -> [w : Nat, n : Nat]]
    BY <1>3, <1>4, <1>5
  <1>7. ASSUME NEW st \in State, [st.out EXCEPT ![1].n = 1] \in [Turns -> [w : Nat, n : Nat]]
        PROVE  [st EXCEPT !.t = 1, !.run = TRUE, !.out[1].n = 1] \in State
    BY <1>7 DEF State
  <1> QED
    BY <1>2, <1>6, <1>7 DEF Started

\* Desktop is the values of its fields.
LEMMA DeskFields ==
    ASSUME NEW e, e = [f \in {"up", "gen", "rev", "st", "follows"} |-> e[f]],
           e.up \in BOOLEAN, e.gen \in Nat, e.rev \in Nat, e.st \in State, e.follows \in BOOLEAN
    PROVE  e \in Desks
  BY DEF Desks

\* What becomes of Desktop when the conversation changes.
LEMMA ChangedDesk ==
    ASSUME Shape, NEW s \in State, desk' = [desk EXCEPT !.rev = @ + 1, !.st = s]
    PROVE  /\ desk' \in Desks /\ desk'.up = desk.up /\ desk'.follows = desk.follows
           /\ desk'.gen = desk.gen /\ desk'.rev = desk.rev + 1 /\ desk'.st = s
  <1>1. desk \in Desks
    BY DEF Shape
  <1>2. /\ desk'.up = desk.up /\ desk'.follows = desk.follows
        /\ desk'.gen = desk.gen /\ desk'.rev = desk.rev + 1 /\ desk'.st = s
    BY <1>1 DEF Desks
  <1>3. desk.rev + 1 \in Nat
    BY <1>1 DEF Desks
  <1>4. desk' = [f \in {"up", "gen", "rev", "st", "follows"} |-> desk'[f]]
    BY <1>1 DEF Desks
  <1>5. desk.up \in BOOLEAN /\ desk.gen \in Nat /\ desk.follows \in BOOLEAN
    BY <1>1 DEF Desks
  <1> QED
    BY <1>2, <1>3, <1>4, <1>5, DeskFields

\* What becomes of Desktop when another owner takes over.
LEMMA RebornDesk ==
    ASSUME NEW d \in Desks, NEW e,
           e = [d EXCEPT !.gen = @ + 1, !.rev = 0, !.st.run = FALSE, !.follows = FALSE]
    PROVE  /\ e \in Desks /\ e.up = d.up /\ e.follows = FALSE
           /\ e.gen = d.gen + 1 /\ e.rev = 0 /\ e.st = [d.st EXCEPT !.run = FALSE]
           /\ e.st \in State
  <1>1. d.gen + 1 \in Nat /\ d.st \in State
    BY DEF Desks
  <1>2. [d.st EXCEPT !.run = FALSE] \in State
    BY <1>1, StoppedType
  <1>3. /\ e.up = d.up /\ e.follows = FALSE
        /\ e.gen = d.gen + 1 /\ e.rev = 0 /\ e.st = [d.st EXCEPT !.run = FALSE]
    BY DEF Desks
  <1>4. DOMAIN e = {"up", "gen", "rev", "st", "follows"} /\ e = [f \in DOMAIN e |-> e[f]]
    BY DEF Desks
  <1> QED
    BY <1>1, <1>2, <1>3, <1>4 DEF Desks

\* The messages the Bridge and Desktop send.
LEMMA MessageTypes ==
    ASSUME Shape
    PROVE  /\ FollowMessage \in OutMessages
           /\ \A i \in Nat : OwnerRequest(i) \in OutMessages
           /\ \A c \in {"l", "r"}, i \in Nat : LoadRequest(c, i) \in OutMessages
           /\ Snapshot \in Snaps
           /\ [k |-> "bad"] \in InMessages /\ [k |-> "status"] \in InMessages
  <1>1. desk \in Desks
    BY DEF Shape
  <1>2. desk.gen \in Nat /\ desk.rev \in Nat /\ desk.st \in State
    BY <1>1 DEF Desks
  <1>3. Snapshot \in Snaps
    BY <1>2 DEF Snapshot, Snaps
  <1>4. [k |-> "bad"] \in InMessages /\ [k |-> "status"] \in InMessages
    BY DEF InMessages
  <1> QED
    BY <1>3, <1>4 DEF FollowMessage, OwnerRequest, LoadRequest, OutMessages

\* What Sent leaves in the queue to Desktop.
LEMMA SentType ==
    ASSUME Shape, NEW h, NEW msgs \in Seq(OutMessages)
    PROVE  Sent(h, msgs) \in Seq(OutMessages)
  BY DEF Sent, Shape

\* What a request that ended leaves.
LEMMA EndedType ==
    ASSUME NEW r \in Requests
    PROVE  /\ Ended(r) \in Requests /\ Ended(r).ph = "idle" /\ Ended(r).id = r.id
           /\ Ended(r).ag = 0 /\ Ended(r).ar = 0
  BY DEF Ended, NoReq, Requests

\* The initial states have the shape.
LEMMA ShapeInit == Init => Shape
  <1>1. SUFFICES ASSUME Init PROVE Shape
    OBVIOUS
  <1>2. PICK up \in BOOLEAN, st \in {NewConversation, Started} :
            /\ desk = [up |-> up, gen |-> 0, rev |-> 0, st |-> st, follows |-> FALSE]
            /\ conn = (IF up THEN 1 ELSE 0) /\ open = up /\ wire = up
    BY <1>1 DEF Init
  <1>3. st \in State
    BY <1>2, FirstStates
  <1>4. desk \in Desks
    BY <1>2, <1>3 DEF Desks
  <1>5. conn \in Nat /\ open \in BOOLEAN /\ wire \in BOOLEAN /\ (wire => open /\ desk.up)
        /\ ~desk.follows
    BY <1>2
  <1>6. req \in [Callers -> Requests]
    BY <1>1 DEF Init, NoReq, Requests
  <1>7. /\ outq \in Seq(OutMessages) /\ sock \in Seq(InMessages) /\ evq \in Seq(InMessages)
        /\ following \in BOOLEAN /\ gap \in Gaps /\ astray \in BOOLEAN
    <2>1. /\ outq = <<>> /\ sock = <<>> /\ evq = <<>>
          /\ following = FALSE /\ gap = "none" /\ astray = FALSE
      BY <1>1 DEF Init
    <2>2. <<>> \in Seq(OutMessages) /\ <<>> \in Seq(InMessages)
      BY EmptySeq
    <2>3. outq \in Seq(OutMessages) /\ sock \in Seq(InMessages) /\ evq \in Seq(InMessages)
      BY <2>1, <2>2
    <2> QED
      BY <2>1, <2>3 DEF Gaps
  <1>8. m = NewMapper
    BY <1>1 DEF Init
  <1>9. /\ DOMAIN m = {"has", "rev", "gen", "st", "pend"}
        /\ m.has \in BOOLEAN /\ m.rev \in Nat /\ m.gen \in Nat
    BY <1>8 DEF NewMapper
  <1> QED
    BY <1>4, <1>5, <1>6, <1>7, <1>9 DEF Shape

\* A change of the conversation: what becomes of Desktop, and what is sent.
LEMMA DeskChangesStep ==
    ASSUME Shape, NEW p \in Steps(desk.st), DeskChanges(p)
    PROVE  /\ ApplyImmerPatches(desk.st, p) \in State
           /\ desk' = [desk EXCEPT !.rev = @ + 1, !.st = ApplyImmerPatches(desk.st, p)]
           /\ \/ ~desk.follows /\ sock' = sock /\ gap' = gap
              \/ /\ desk.follows /\ gap' = "none"
                 /\ \E x \in Snaps \cup Diffs :
                       /\ sock' = Append(sock, x)
                       /\ x.gen = desk.gen /\ x.rev = desk.rev + 1
                       /\ x.k = "snap" => x.st = ApplyImmerPatches(desk.st, p)
                       /\ x.k = "patch" => x.base = desk.rev /\ x.p = p
              \/ sock' = Append(sock, [k |-> "bad"]) /\ gap' = "unparsed"
           /\ UNCHANGED <<conn, open, wire, outq, evq, rest, wch, req, m, following, view,
                          torn, astray, blurred, res>>
  <1>1. desk \in Desks
    BY DEF Shape
  <1>2. desk.st \in State /\ desk.gen \in Nat /\ desk.rev \in Nat /\ desk.rev + 1 \in Nat
    BY <1>1 DEF Desks
  <1>3. ApplyImmerPatches(desk.st, p) \in State
    BY <1>2, StepType
  <1>4. p \in Patches
    BY <1>2 DEF Patches
  <1> DEFINE x == [k |-> "patch", gen |-> desk.gen, base |-> desk.rev, rev |-> desk.rev + 1,
                   p |-> p]
             y == [k |-> "snap", gen |-> desk.gen, rev |-> desk.rev + 1,
                   st |-> ApplyImmerPatches(desk.st, p)]
  <1>5. /\ x \in Snaps \cup Diffs /\ x.k = "patch"
        /\ x.gen = desk.gen /\ x.rev = desk.rev + 1 /\ x.base = desk.rev /\ x.p = p
    BY <1>2, <1>4 DEF Diffs
  <1>6. /\ y \in Snaps \cup Diffs /\ y.k = "snap"
        /\ y.gen = desk.gen /\ y.rev = desk.rev + 1 /\ y.st = ApplyImmerPatches(desk.st, p)
    BY <1>2, <1>3 DEF Snaps
  <1>7. /\ desk' = [desk EXCEPT !.rev = @ + 1, !.st = ApplyImmerPatches(desk.st, p)]
        /\ UNCHANGED <<conn, open, wire, outq, evq, rest, wch, req, m, following, view,
                       torn, astray, blurred, res>>
    BY DEF DeskChanges, link
  <1>8. \/ ~(desk.follows /\ wire) /\ sock' = sock /\ gap' = gap
        \/ desk.follows /\ sock' = Append(sock, x) /\ gap' = "none"
        \/ desk.follows /\ sock' = Append(sock, y) /\ gap' = "none"
        \/ sock' = Append(sock, [k |-> "bad"]) /\ gap' = "unparsed"
    BY DEF DeskChanges
  <1>9. desk.follows => wire
    BY DEF Shape
  <1> HIDE DEF x, y
  <1>10. (desk.follows /\ sock' = Append(sock, x) /\ gap' = "none") \/ (desk.follows /\ sock' = Append(sock, y) /\ gap' = "none")
         => /\ desk.follows /\ gap' = "none"
            /\ \E z \in Snaps \cup Diffs :
                       /\ sock' = Append(sock, z)
                       /\ z.gen = desk.gen /\ z.rev = desk.rev + 1
                       /\ z.k = "snap" => z.st = ApplyImmerPatches(desk.st, p)
                       /\ z.k = "patch" => z.base = desk.rev /\ z.p = p
    <2>1. CASE desk.follows /\ sock' = Append(sock, x) /\ gap' = "none"
      BY <2>1, <1>5, Zenon
    <2>2. CASE desk.follows /\ sock' = Append(sock, y) /\ gap' = "none"
      BY <2>2, <1>6, Zenon
    <2> QED
      BY <2>1, <2>2
  <1> QED
    BY <1>3, <1>7, <1>8, <1>9, <1>10

\* What Desktop sends in answer to one message.
LEMMA DeskHandlesStep ==
    ASSUME Shape, DeskHandles
    PROVE  /\ outq # <<>> /\ Head(outq) \in OutMessages /\ outq' = Tail(outq) /\ wire
           /\ \/ /\ Head(outq).k = "follow" /\ gap' = "none"
                 /\ desk' = [desk EXCEPT !.follows = TRUE] /\ sock' = Append(sock, Snapshot)
              \/ /\ Head(outq).k = "owner" /\ desk' = desk /\ gap' = gap
                 /\ \E x \in Responses : x.c = "w" /\ sock' = Append(sock, x)
              \/ /\ Head(outq).k = "load" /\ desk' = desk
                 /\ \/ /\ gap' = "none" /\ desk.follows
                       /\ \/ sock' = Append(sock, Snapshot)
                          \/ /\ Head(outq).c = "r"
                             /\ \E x \in Responses :
                                   /\ x.c = "r" /\ x.gen = desk.gen /\ x.rev = desk.rev
                                   /\ sock' = Append(Append(sock, x), Snapshot)
                    \/ /\ gap' = gap /\ ~desk.follows
                       /\ \/ sock' = sock
                          \/ /\ Head(outq).c = "r"
                             /\ \E x \in Responses :
                                   /\ x.c = "r" /\ x.gen = desk.gen /\ x.rev = desk.rev
                                   /\ sock' = Append(sock, x)
                    \/ Head(outq).c = "l" /\ gap' = "failed" /\ sock' = sock
                    \/ Head(outq).c = "r" /\ gap' = gap /\ sock' = sock
           /\ UNCHANGED <<conn, open, wire, evq, rest, wch, req, m, following, view,
                          torn, astray, blurred, res>>
  <1> DEFINE msg == Head(outq)
             own == [k |-> "resp", c |-> msg.c, id |-> msg.id, gen |-> 0, rev |-> 0]
             got == [k |-> "resp", c |-> msg.c, id |-> msg.id, gen |-> desk.gen, rev |-> desk.rev]
  <1>1. /\ desk \in Desks
        /\ outq \in Seq(OutMessages) /\ sock \in Seq(InMessages)
    BY DEF Shape
  <1>2. /\ outq # <<>> /\ outq' = Tail(outq) /\ wire
        /\ UNCHANGED <<conn, open, wire, evq, rest, wch, req, m, following, view,
                       torn, astray, blurred, res>>
    BY DEF DeskHandles, link
  <1>3. msg \in OutMessages
    BY <1>1, <1>2, TailAt
  <1>4. /\ msg.k = "owner" => msg.c = "w" /\ msg.id \in Nat
        /\ msg.k = "load" => msg.c \in {"l", "r"} /\ msg.id \in Nat
    BY <1>3 DEF OutMessages
  <1>5. msg.k = "owner" => own \in Responses /\ own.c = "w"
    BY <1>4 DEF Responses, Callers
  <1>6. desk.gen \in Nat /\ desk.rev \in Nat
    BY <1>1 DEF Desks
  <1>7. msg.k = "load" /\ msg.c = "r" =>
            got \in Responses /\ got.c = "r" /\ got.gen = desk.gen /\ got.rev = desk.rev
    BY <1>4, <1>6 DEF Responses, Callers
  <1>8. \/ /\ msg.k = "follow" /\ desk' = [desk EXCEPT !.follows = TRUE]
           /\ sock' = Append(sock, Snapshot) /\ gap' = "none"
        \/ msg.k = "owner" /\ sock' = Append(sock, own) /\ desk' = desk /\ gap' = gap
        \/ /\ msg.k = "load" /\ desk' = desk
           /\ \/ /\ sock' = (IF msg.c = "l" THEN sock ELSE Append(sock, got))
                            \o (IF desk.follows THEN <<Snapshot>> ELSE <<>>)
                 /\ gap' = IF desk.follows THEN "none" ELSE gap
              \/ gap' = (IF msg.c = "l" THEN "failed" ELSE gap) /\ sock' = sock
    BY DEF DeskHandles
  <1>9. Snapshot \in InMessages
    BY MessageTypes DEF InMessages
  <1>10. ASSUME NEW q \in Seq(InMessages)
         PROVE  q \o <<>> = q /\ q \o <<Snapshot>> = Append(q, Snapshot)
    <2>1. Append(q, Snapshot) = q \o <<Snapshot>>
      BY <1>9, AppendIsConcat
    <2>2. q \o <<>> = q
      BY ConcatEmptySeq
    <2> QED
      BY <2>1, <2>2
  <1>11. CASE msg.k = "follow" /\ desk' = [desk EXCEPT !.follows = TRUE]
              /\ sock' = Append(sock, Snapshot) /\ gap' = "none"
    BY <1>2, <1>3, <1>11
  <1> HIDE DEF own, got
  <1>12. CASE msg.k = "owner" /\ sock' = Append(sock, own) /\ desk' = desk /\ gap' = gap
    BY <1>2, <1>3, <1>5, <1>12
  <1>13. ASSUME msg.k = "load", desk' = desk,
                sock' = (IF msg.c = "l" THEN sock ELSE Append(sock, got))
                            \o (IF desk.follows THEN <<Snapshot>> ELSE <<>>)
         PROVE  \/ /\ desk.follows
                   /\ \/ sock' = Append(sock, Snapshot)
                      \/ msg.c = "r" /\ sock' = Append(Append(sock, got), Snapshot)
                \/ /\ ~desk.follows
                   /\ \/ sock' = sock
                      \/ msg.c = "r" /\ sock' = Append(sock, got)
    <2>1. CASE msg.c = "l"
      BY <1>1, <1>10, <1>13, <2>1
    <2>2. CASE msg.c = "r"
      <3>1. Append(sock, got) \in Seq(InMessages)
        BY <1>1, <1>7, <1>13, <2>2, AppendAt DEF InMessages
      <3> QED
        BY <1>10, <1>13, <2>2, <3>1
    <2> QED
      BY <1>4, <1>13, <2>1, <2>2
  <1>14. CASE /\ msg.k = "load" /\ desk' = desk
              /\ gap' = IF desk.follows THEN "none" ELSE gap
              /\ sock' = (IF msg.c = "l" THEN sock ELSE Append(sock, got))
                            \o (IF desk.follows THEN <<Snapshot>> ELSE <<>>)
    BY <1>2, <1>3, <1>7, <1>13, <1>14
  <1>15. CASE /\ msg.k = "load" /\ desk' = desk /\ sock' = sock
              /\ gap' = IF msg.c = "l" THEN "failed" ELSE gap
    BY <1>2, <1>3, <1>4, <1>15
  <1> QED
    BY <1>8, <1>11, <1>12, <1>14, <1>15

\* What the mapper makes of a snapshot or of a patch that fits.
LEMMA TakeStep ==
    ASSUME NEW gen, NEW rev, NEW st, Take(gen, rev, st)
    PROVE  /\ DOMAIN m' = {"has", "rev", "gen", "st", "pend"}
           /\ m'.has = TRUE /\ m'.rev = rev /\ m'.gen = gen /\ m'.st = st
           /\ outq' = outq
  <1>1. m' = ApplySnapshot(m, gen, rev, st).m /\ outq' = outq
    BY DEF Take, Hand
  <1>2. m' = [has |-> TRUE, rev |-> rev, gen |-> gen, st |-> st,
              pend |-> [i \in Turns |-> ItemEvents(m, st, i).p]]
    BY <1>1 DEF ApplySnapshot
  <1> QED
    BY <1>1, <1>2

\* One message the pump takes.
LEMMA PumpTakesStep ==
    ASSUME Shape, PumpTakes
    PROVE  /\ evq # <<>> /\ Head(evq) \in InMessages /\ evq' = Tail(evq)
           /\ \/ Head(evq).k = "snap" /\ Take(Head(evq).gen, Head(evq).rev, Head(evq).st)
              \/ /\ Head(evq).k = "patch" /\ m.has /\ m.rev = Head(evq).base
                 /\ Take(Head(evq).gen, Head(evq).rev, ApplyImmerPatches(m.st, Head(evq).p))
              \/ /\ Head(evq).k = "patch" /\ m' = m
                 /\ outq' = Sent(conn, <<LoadRequest("l", 0)>>)
              \/ /\ Head(evq).k = "status" /\ m' = m
                 /\ outq' = IF following THEN Sent(conn, <<FollowMessage>>) ELSE outq
              \/ Head(evq).k = "bad" /\ m' = m /\ outq' = outq
           /\ UNCHANGED <<desk, conn, open, wire, sock, wch, req, following, gap, torn, astray,
                          res, changes>>
  <1>1. evq # <<>> /\ evq \in Seq(InMessages)
    BY DEF PumpTakes, Shape
  <1>2. Head(evq) \in InMessages
    BY <1>1, TailAt
  <1> QED
    BY <1>1, <1>2 DEF PumpTakes, link, Applies

\* Every step of Desktop keeps the shape.
LEMMA ShapeDesk ==
    ASSUME Shape,
           \/ \E p \in Steps(desk.st) : DeskChanges(p)
           \/ DeskHandles \/ DeskQuits \/ DeskStarts \/ DeskChangesOwner
    PROVE  Shape'
  <1>1. /\ desk \in Desks
        /\ outq \in Seq(OutMessages) /\ sock \in Seq(InMessages)
    BY DEF Shape
  <1>2. Snaps \subseteq InMessages /\ Diffs \subseteq InMessages /\ Responses \subseteq InMessages
        /\ Snapshot \in InMessages
        /\ [k |-> "bad"] \in InMessages /\ [k |-> "status"] \in InMessages
    BY MessageTypes DEF InMessages
  <1>3. \A x \in InMessages : Append(sock, x) \in Seq(InMessages)
    BY <1>1, AppendAt
  <1>4. ASSUME NEW p \in Steps(desk.st), DeskChanges(p) PROVE Shape'
    <2> DEFINE st == ApplyImmerPatches(desk.st, p)
    <2>1. /\ st \in State
          /\ desk' = [desk EXCEPT !.rev = @ + 1, !.st = st]
          /\ \/ sock' = sock /\ gap' = gap
             \/ gap' = "none" /\ \E x \in Snaps \cup Diffs : sock' = Append(sock, x)
             \/ sock' = Append(sock, [k |-> "bad"]) /\ gap' = "unparsed"
          /\ UNCHANGED <<conn, open, wire, outq, evq, req, m, following, astray>>
      BY <1>4, DeskChangesStep
    <2> HIDE DEF st
    <2>2. /\ desk' \in Desks
          /\ desk'.up = desk.up /\ desk'.follows = desk.follows
      BY <2>1, ChangedDesk
    <2>3. sock' \in Seq(InMessages)
      BY <1>1, <1>2, <1>3, <2>1
    <2>4. gap' \in Gaps
      BY <2>1 DEF Shape, Gaps
    <2> QED
      BY <2>1, <2>2, <2>3, <2>4 DEF Shape
  <1>5. CASE DeskHandles
    <2>1. /\ outq # <<>> /\ outq' = Tail(outq) /\ wire
          /\ desk' = desk \/ desk' = [desk EXCEPT !.follows = TRUE]
          /\ \/ sock' = sock
             \/ \E x \in InMessages : sock' = Append(sock, x)
             \/ \E x \in InMessages : sock' = Append(Append(sock, x), Snapshot)
          /\ UNCHANGED <<conn, open, wire, evq, req, m, following, astray>>
      BY <1>2, <1>5, DeskHandlesStep
    <2>2. gap' \in Gaps
      BY <1>5 DEF DeskHandles, Shape, Gaps
    <2>3. /\ desk' \in Desks
          /\ desk'.up = desk.up
      BY <1>1, <2>1 DEF Desks
    <2>4. \A q \in Seq(InMessages), x \in InMessages : Append(q, x) \in Seq(InMessages)
      BY AppendAt
    <2>5. sock' \in Seq(InMessages)
      <3>1. ASSUME NEW x \in InMessages
            PROVE  /\ Append(sock, x) \in Seq(InMessages)
                   /\ Append(Append(sock, x), Snapshot) \in Seq(InMessages)
        BY <1>1, <1>2, <2>4
      <3> QED
        BY <1>1, <2>1, <3>1
    <2>6. outq' \in Seq(OutMessages)
      BY <1>1, <2>1, TailAt
    <2> QED
      BY <2>1, <2>2, <2>3, <2>5, <2>6 DEF Shape
  <1>6. /\ Reborn \in Desks
        /\ Reborn.up = desk.up /\ ~Reborn.follows
    BY <1>1, RebornDesk DEF Reborn
  <1>7. CASE DeskQuits
    <2>1. /\ desk' = [Reborn EXCEPT !.up = FALSE] /\ wire' = FALSE /\ outq' = <<>>
          /\ UNCHANGED <<conn, open, sock, evq, req, m, following, gap, astray>>
      BY <1>7 DEF DeskQuits
    <2>2. /\ desk' \in Desks
          /\ ~desk'.follows
      BY <1>6, <2>1 DEF Desks
    <2>3. outq' \in Seq(OutMessages)
      BY <2>1, EmptySeq
    <2> QED
      BY <2>1, <2>2, <2>3 DEF Shape
  <1>8. CASE DeskStarts
    <2>1. /\ desk' = [desk EXCEPT !.up = TRUE] /\ UNCHANGED wire
          /\ UNCHANGED <<conn, open, outq, sock, evq, req, m, following, gap, astray>>
      BY <1>8 DEF DeskStarts, link, history
    <2>2. /\ desk' \in Desks
          /\ desk'.follows = desk.follows /\ desk'.up
      BY <1>1, <2>1 DEF Desks
    <2> QED
      BY <2>1, <2>2 DEF Shape
  <1>9. CASE DeskChangesOwner
    <2>1. /\ desk' = Reborn /\ UNCHANGED <<conn, open, wire>>
          /\ sock' = IF wire THEN Append(sock, [k |-> "status"]) ELSE sock
          /\ UNCHANGED <<outq, evq, req, m, following, gap, astray>>
      BY <1>9 DEF DeskChangesOwner, link
    <2>2. sock' \in Seq(InMessages)
      BY <1>1, <1>2, <1>3, <2>1
    <2> QED
      BY <1>6, <2>1, <2>2 DEF Shape
  <1> QED
    BY <1>4, <1>5, <1>7, <1>8, <1>9

\* Every step of the connection and of the pump keeps the shape.
LEMMA ShapeClient ==
    ASSUME Shape,
           \/ ReaderDispatches \/ ReaderEnds \/ PumpTakes \/ PumpHandsOut \/ Attach
           \/ \E c \in Callers : RequestTimesOut(c)
           \/ \E i \in Turns : PumpFlushes(i)
    PROVE  Shape'
  <1>1. /\ outq \in Seq(OutMessages) /\ sock \in Seq(InMessages) /\ evq \in Seq(InMessages)
        /\ req \in [Callers -> Requests]
    BY DEF Shape
  <1>2. \A r \in Requests : Ended(r) \in Requests
    BY EndedType
  <1>3. CASE ReaderDispatches
    <2> DEFINE msg == Head(sock)
    <2>1. /\ sock # <<>> /\ sock' = Tail(sock)
          /\ \/ /\ msg.k = "resp" /\ evq' = evq
                /\ \/ req' = req
                   \/ \E ph \in {"owned", "loaded"} :
                         req' = [req EXCEPT ![msg.c] = [req[msg.c] EXCEPT
                                   !.ph = ph, !.gen = msg.gen, !.rev = msg.rev]]
             \/ evq' = Append(evq, msg) /\ req' = req
          /\ UNCHANGED <<desk, conn, open, wire, outq, m, following, gap, astray>>
      BY <1>3 DEF ReaderDispatches, link, history
    <2>2. msg \in InMessages /\ sock' \in Seq(InMessages)
      BY <1>1, <2>1, TailAt
    <2>3. evq' \in Seq(InMessages)
      BY <1>1, <2>1, <2>2, AppendAt
    <2>4. msg.k = "resp" => msg.c \in Callers /\ msg.gen \in Nat /\ msg.rev \in Nat
      BY <2>2 DEF InMessages, Snaps, Diffs, Responses
    <2>5. req' \in [Callers -> Requests]
      <3>1. ASSUME NEW r \in Requests, NEW ph \in {"owned", "loaded"}, NEW g \in Nat, NEW v \in Nat
            PROVE  [r EXCEPT !.ph = ph, !.gen = g, !.rev = v] \in Requests
        BY DEF Requests
      <3>2. CASE req' = req
        BY <1>1, <3>2
      <3>3. ASSUME NEW ph \in {"owned", "loaded"}, msg.k = "resp",
                   req' = [req EXCEPT ![msg.c] = [req[msg.c] EXCEPT
                             !.ph = ph, !.gen = msg.gen, !.rev = msg.rev]]
            PROVE  req' \in [Callers -> Requests]
        <4>1. req[msg.c] \in Requests
          BY <1>1, <2>4, <3>3
        <4>2. [req[msg.c] EXCEPT !.ph = ph, !.gen = msg.gen, !.rev = msg.rev] \in Requests
          BY <2>4, <3>1, <3>3, <4>1
        <4> QED
          BY <1>1, <3>3, <4>2
      <3> QED
        BY <2>1, <3>2, <3>3
    <2> QED
      BY <2>1, <2>2, <2>3, <2>5 DEF Shape
  <1>4. CASE ReaderEnds
    <2>1. /\ open' = FALSE /\ ~wire
          /\ req' = [c \in Callers |->
                       IF req[c].ph \in {"owner", "load"} /\ req[c].h = conn
                       THEN Ended(req[c]) ELSE req[c]]
          /\ UNCHANGED <<desk, conn, wire, outq, sock, evq, m, following, gap, astray>>
      BY <1>4 DEF ReaderEnds, history
    <2>2. req' \in [Callers -> Requests]
      BY <1>1, <1>2, <2>1
    <2> QED
      BY <2>1, <2>2 DEF Shape
  <1>5. CASE PumpTakes
    <2>1. /\ evq # <<>> /\ Head(evq) \in InMessages /\ evq' = Tail(evq)
          /\ UNCHANGED <<desk, conn, open, wire, sock, req, following, gap, astray>>
      BY <1>5, PumpTakesStep
    <2>2. evq' \in Seq(InMessages)
      BY <1>1, <2>1, TailAt
    <2>3. \/ /\ Head(evq).k \in {"snap", "patch"} /\ outq' = outq
             /\ DOMAIN m' = {"has", "rev", "gen", "st", "pend"}
             /\ m'.has = TRUE /\ m'.rev = Head(evq).rev /\ m'.gen = Head(evq).gen
          \/ /\ m' = m
             /\ \/ outq' = outq
                \/ outq' = Sent(conn, <<FollowMessage>>)
                \/ outq' = Sent(conn, <<LoadRequest("l", 0)>>)
      BY <1>5, PumpTakesStep, TakeStep
    <2>4. /\ Sent(conn, <<FollowMessage>>) \in Seq(OutMessages)
          /\ Sent(conn, <<LoadRequest("l", 0)>>) \in Seq(OutMessages)
      <3>1. FollowMessage \in OutMessages /\ LoadRequest("l", 0) \in OutMessages
        BY MessageTypes
      <3>2. <<FollowMessage>> \in Seq(OutMessages) /\ <<LoadRequest("l", 0)>> \in Seq(OutMessages)
        BY <3>1
      <3> QED
        BY <3>2, SentType
    <2>5. Head(evq).k \in {"snap", "patch"} => Head(evq).rev \in Nat /\ Head(evq).gen \in Nat
      BY <2>1 DEF InMessages, Snaps, Diffs, Responses
    <2>6. /\ outq' \in Seq(OutMessages)
          /\ DOMAIN m' = {"has", "rev", "gen", "st", "pend"}
          /\ m'.has \in BOOLEAN /\ m'.rev \in Nat /\ m'.gen \in Nat
      BY <1>1, <2>3, <2>4, <2>5 DEF Shape
    <2> QED
      BY <2>1, <2>2, <2>6 DEF Shape
  <1>6. CASE PumpHandsOut
    BY <1>6 DEF PumpHandsOut, link, history, Shape
  <1>7. CASE Attach
    <2>1. /\ desk.up /\ ~open
          /\ conn' = conn + 1 /\ open' = TRUE /\ wire' = TRUE
          /\ sock' = <<>> /\ evq' = <<>>
          /\ outq' = (IF following THEN <<FollowMessage>> ELSE <<>>) /\ astray' = FALSE
          /\ UNCHANGED <<desk, req, m, following, gap>>
      BY <1>7 DEF Attach, Detached, NewClient
    <2>2. FollowMessage \in OutMessages
      BY MessageTypes
    <2>3. <<FollowMessage>> \in Seq(OutMessages) /\ <<>> \in Seq(OutMessages)
          /\ <<>> \in Seq(InMessages)
      BY <2>2
    <2>4. outq' \in Seq(OutMessages) /\ sock' \in Seq(InMessages) /\ evq' \in Seq(InMessages)
      BY <2>1, <2>3
    <2>5. conn' \in Nat
      BY <2>1 DEF Shape
    <2> QED
      BY <2>1, <2>4, <2>5 DEF Shape
  <1>8. ASSUME NEW c \in Callers, RequestTimesOut(c) PROVE Shape'
    <2>1. /\ req' = [req EXCEPT ![c] = Ended(req[c])]
          /\ UNCHANGED <<desk, conn, open, wire, outq, sock, evq, m, following, gap, astray>>
      BY <1>8 DEF RequestTimesOut, link, history
    <2>2. req' \in [Callers -> Requests]
      BY <1>1, <1>2, <2>1
    <2> QED
      BY <2>1, <2>2 DEF Shape
  <1>9. ASSUME NEW i \in Turns, PumpFlushes(i) PROVE Shape'
    <2>1. /\ m' = [m EXCEPT !.pend[i] = NoPending]
          /\ UNCHANGED <<desk, conn, open, wire, outq, sock, evq, req, following, gap, astray>>
      BY <1>9 DEF PumpFlushes, Hand, FlushDue, link, history
    <2>2. /\ DOMAIN m' = {"has", "rev", "gen", "st", "pend"}
          /\ m'.has = m.has /\ m'.rev = m.rev /\ m'.gen = m.gen
      BY <2>1 DEF Shape
    <2> QED
      BY <2>1, <2>2 DEF Shape
  <1> QED
    BY <1>3, <1>4, <1>5, <1>6, <1>7, <1>8, <1>9

\* Every step of the watcher and of a refresh keeps the shape.
LEMMA ShapeCallers ==
    ASSUME Shape,
           \/ WatcherTakes \/ WatcherGoesOn \/ Subscribe
           \/ RefreshStarts \/ RefreshAsks \/ RefreshEnds
    PROVE  Shape'
  <1>1. outq \in Seq(OutMessages) /\ req \in [Callers -> Requests] /\ "r" \in Callers /\ "w" \in Callers
    BY DEF Shape, Callers
  <1>2. \A r \in Requests : Ended(r) \in Requests
    BY EndedType
  <1>3. ASSUME NEW r \in Requests, NEW h \in Nat
        PROVE  /\ [r EXCEPT !.ph = "owner", !.id = @ + 1, !.h = h] \in Requests
               /\ [r EXCEPT !.ph = "load"] \in Requests
    <2>1. r.id + 1 \in Nat
      BY DEF Requests
    <2>2. \A i \in Nat : [r EXCEPT !.ph = "owner", !.id = i, !.h = h] \in Requests
      BY DEF Requests
    <2>3. [r EXCEPT !.ph = "load"] \in Requests
      BY DEF Requests
    <2> QED
      BY <2>1, <2>2, <2>3
  <1>4. /\ FollowMessage \in OutMessages /\ LoadRequest("r", 1) \in OutMessages
        /\ \A i \in Nat : OwnerRequest(i) \in OutMessages
    BY MessageTypes
  <1>5. CASE WatcherTakes
    <2>1. /\ \/ req' = req /\ outq' = outq
             \/ /\ req' = [req EXCEPT !["w"].ph = "owner", !["w"].id = @ + 1, !["w"].h = conn]
                /\ outq' = Sent(conn, <<OwnerRequest(req["w"].id + 1)>>)
          /\ UNCHANGED <<desk, conn, open, wire, sock, evq, m, following, gap, astray>>
      BY <1>5 DEF WatcherTakes, EnsureOwner, link, history
    <2>2. req["w"] \in Requests /\ conn \in Nat
      BY <1>1 DEF Shape
    <2>3. req["w"].id + 1 \in Nat
      BY <2>2 DEF Requests
    <2>4. Sent(conn, <<OwnerRequest(req["w"].id + 1)>>) \in Seq(OutMessages)
      <3>1. OwnerRequest(req["w"].id + 1) \in OutMessages
        BY <1>4, <2>3
      <3>2. <<OwnerRequest(req["w"].id + 1)>> \in Seq(OutMessages)
        BY <3>1
      <3> QED
        BY <3>2, SentType
    <2>5. [req EXCEPT !["w"].ph = "owner", !["w"].id = @ + 1, !["w"].h = conn]
            = [req EXCEPT !["w"] = [req["w"] EXCEPT !.ph = "owner", !.id = @ + 1, !.h = conn]]
      BY <1>1, <2>2 DEF Requests
    <2>6. [req["w"] EXCEPT !.ph = "owner", !.id = @ + 1, !.h = conn] \in Requests
      BY <1>3, <2>2
    <2>7. req' \in [Callers -> Requests] /\ outq' \in Seq(OutMessages)
      BY <1>1, <2>1, <2>4, <2>5, <2>6
    <2> QED
      BY <2>1, <2>7 DEF Shape
  <1>6. CASE WatcherGoesOn
    <2>1. /\ req' = [req EXCEPT !["w"] = Ended(req["w"])]
          /\ UNCHANGED <<desk, conn, open, wire, outq, sock, evq, m, following, gap, astray>>
      BY <1>6 DEF WatcherGoesOn, link, history
    <2>2. req' \in [Callers -> Requests]
      BY <1>1, <1>2, <2>1
    <2> QED
      BY <2>1, <2>2 DEF Shape
  <1>7. CASE Subscribe
    <2>1. /\ following' = TRUE /\ outq' = Sent(conn, <<FollowMessage>>)
          /\ UNCHANGED <<desk, conn, open, wire, sock, evq, req, m, gap, astray>>
      BY <1>7 DEF Subscribe, FollowLocked, link, history
    <2>2. <<FollowMessage>> \in Seq(OutMessages)
      BY <1>4
    <2>3. outq' \in Seq(OutMessages)
      BY <2>1, <2>2, SentType
    <2> QED
      BY <2>1, <2>3 DEF Shape
  <1>8. CASE RefreshStarts
    <2> DEFINE r == [NoReq EXCEPT !.ph = "client", !.id = 1, !.h = conn,
                                  !.ag = desk.gen, !.ar = desk.rev]
    <2>1. /\ req' = [req EXCEPT !["r"] = r]
          /\ UNCHANGED <<desk, conn, open, wire, outq, sock, evq, m, following, gap, astray>>
      BY <1>8 DEF RefreshStarts, link, history
    <2>2. r \in Requests
      BY DEF Shape, Desks, NoReq, Requests
    <2>3. req' \in [Callers -> Requests]
      BY <1>1, <2>1, <2>2
    <2> QED
      BY <2>1, <2>3 DEF Shape
  <1>9. CASE RefreshAsks
    <2>1. /\ req' = [req EXCEPT !["r"] = [req["r"] EXCEPT !.ph = "load"]]
          /\ following' = TRUE
          /\ outq' = Sent(req["r"].h, <<FollowMessage, LoadRequest("r", 1)>>)
          /\ UNCHANGED <<desk, conn, open, wire, sock, evq, m, gap>>
      BY <1>9 DEF RefreshAsks, link
    <2>2. astray' \in BOOLEAN
      BY <1>9 DEF RefreshAsks
    <2>3. req' \in [Callers -> Requests]
      BY <1>1, <1>3, <2>1 DEF Shape
    <2>4. outq' \in Seq(OutMessages)
      <3>1. <<FollowMessage, LoadRequest("r", 1)>> \in Seq(OutMessages)
        BY <1>4
      <3> QED
        BY <2>1, <3>1, SentType
    <2> QED
      BY <2>1, <2>2, <2>3, <2>4 DEF Shape
  <1>10. CASE RefreshEnds
    <2>1. /\ req' = [req EXCEPT !["r"] = Ended(req["r"])]
          /\ UNCHANGED <<desk, conn, open, wire, outq, sock, evq, m, following, gap, astray>>
      BY <1>10 DEF RefreshEnds, link
    <2>2. req' \in [Callers -> Requests]
      BY <1>1, <1>2, <2>1
    <2> QED
      BY <2>1, <2>2 DEF Shape
  <1> QED
    BY <1>5, <1>6, <1>7, <1>8, <1>9, <1>10

\* The shape is an invariant.
LEMMA ShapeStep == Shape /\ [Next]_vars => Shape'
  <1>1. CASE UNCHANGED vars
    BY <1>1 DEF vars, Shape
  <1> QED
    BY <1>1, ShapeDesk, ShapeClient, ShapeCallers DEF Next, BridgeSteps
-----------------------------------------------------------------------------
(* A refresh returns nothing older than what Desktop had.                  *)

\* What is in the queue to Desktop after something was sent.
LEMMA SentRange ==
    ASSUME Shape, NEW h, NEW msgs \in Seq(OutMessages)
    PROVE  /\ Range(Sent(h, msgs)) \subseteq Range(outq) \cup Range(msgs)
           /\ Range(outq) \subseteq Range(Sent(h, msgs))
           /\ wire /\ h = conn => Range(msgs) \subseteq Range(Sent(h, msgs))
  <1>1. Range(outq \o msgs) = Range(outq) \cup Range(msgs)
    BY RangeConcatenation DEF Shape
  <1> QED
    BY <1>1 DEF Sent, Shape

\* One message, or two, as a set.
LEMMA RangeFew ==
    ASSUME NEW x, NEW y
    PROVE  Range(<<x>>) = {x} /\ Range(<<x, y>>) = {x, y}
  BY DEF Range

\* Desktop's revisions only move on.
LEMMA DeskMovesOn ==
    ASSUME Shape, [Next]_vars
    PROVE  NotAfter(desk.gen, desk.rev, desk'.gen, desk'.rev)
  <1>1. desk \in Desks /\ desk.gen \in Nat /\ desk.rev \in Nat
    BY DEF Shape, Desks
  <1>2. CASE desk' = desk
    BY <1>1, <1>2, NotAfterSelf
  <1>3. ASSUME NEW p \in Steps(desk.st), DeskChanges(p)
        PROVE  NotAfter(desk.gen, desk.rev, desk'.gen, desk'.rev)
    <2>1. desk'.gen = desk.gen /\ desk'.rev = desk.rev + 1
      BY <1>3, DeskChangesStep, ChangedDesk
    <2> QED
      BY <1>1, <2>1, NotAfterNext
  <1>4. CASE DeskHandles
    <2>1. desk' = desk \/ desk' = [desk EXCEPT !.follows = TRUE]
      BY <1>4, DeskHandlesStep
    <2>2. desk'.gen = desk.gen /\ desk'.rev = desk.rev
      BY <1>1, <2>1 DEF Desks
    <2> QED
      BY <1>1, <2>2, NotAfterSelf
  <1>5. CASE DeskStarts
    <2>1. desk'.gen = desk.gen /\ desk'.rev = desk.rev
      BY <1>1, <1>5 DEF DeskStarts, Desks
    <2> QED
      BY <1>1, <2>1, NotAfterSelf
  <1>6. CASE DeskQuits \/ DeskChangesOwner
    <2>1. Reborn \in Desks /\ Reborn.gen = desk.gen + 1 /\ Reborn.rev = 0
      BY <1>1, RebornDesk DEF Reborn
    <2>2. desk' = Reborn \/ desk' = [Reborn EXCEPT !.up = FALSE]
      BY <1>6 DEF DeskQuits, DeskChangesOwner
    <2>3. desk'.gen = desk.gen + 1 /\ desk'.rev = 0
      BY <2>1, <2>2 DEF Desks
    <2> QED
      BY <1>1, <2>3, NotAfterNext
  <1>7. CASE UNCHANGED vars
    BY <1>2, <1>7 DEF vars
  <1>8. CASE BridgeSteps
    BY <1>2, <1>8 DEF BridgeSteps, ReaderDispatches, ReaderEnds, PumpTakes, PumpHandsOut, WatcherTakes,
          WatcherGoesOn, RefreshAsks, RefreshEnds, Attach, PumpFlushes
  <1>9. CASE Subscribe \/ RefreshStarts \/ \E c \in Callers : RequestTimesOut(c)
    BY <1>2, <1>9 DEF Subscribe, RefreshStarts, RequestTimesOut
  <1> QED
    BY <1>3, <1>4, <1>5, <1>6, <1>7, <1>8, <1>9 DEF Next

\* Steps that leave the refresh alone and send nothing for it.
LEMMA RefreshKept ==
    ASSUME Shape, Shape', RefreshInv, [Next]_vars, req'["r"] = req["r"], res' = res,
           \A x \in Range(outq') : x.k = "load" /\ x.c = "r" => x \in Range(outq),
           \A x \in Range(sock') : x.k = "resp" /\ x.c = "r" => x \in Range(sock),
           \A x \in Range(evq') : x.k = "resp" => x \in Range(evq)
    PROVE  RefreshInv'
  <1>1. NotAfter(desk.gen, desk.rev, desk'.gen, desk'.rev)
    BY DeskMovesOn
  <1>2. /\ desk.gen \in Nat /\ desk.rev \in Nat /\ desk'.gen \in Nat /\ desk'.rev \in Nat
        /\ req["r"].ag \in Nat /\ req["r"].ar \in Nat
    BY DEF Shape, Desks, Requests, Callers
  <1>3. NotAfter(req["r"].ag, req["r"].ar, desk.gen, desk.rev)
    BY DEF RefreshInv
  <1>4. NotAfter(req["r"].ag, req["r"].ar, desk'.gen, desk'.rev)
    BY <1>1, <1>2, <1>3, NotAfterTrans
  <1>5. desk.gen <= desk'.gen
    BY <1>1, <1>2 DEF NotAfter
  <1>6. req["r"].ph = "loaded" => req["r"].gen <= desk'.gen
    <2>1. req["r"].gen \in Nat
      BY DEF Shape, Requests, Callers
    <2> QED
      BY <1>2, <1>5, <2>1 DEF RefreshInv
  <1>7. \A x \in Range(sock) : x.k = "resp" /\ x.c = "r" => x.gen <= desk'.gen
    <2>1. SUFFICES ASSUME NEW x \in Range(sock), x.k = "resp", x.c = "r"
                   PROVE  x.gen <= desk'.gen
      OBVIOUS
    <2>2. x \in InMessages
      BY RangeOfSeq DEF Shape
    <2>3. x.gen \in Nat
      BY <2>1, <2>2 DEF InMessages, Snaps, Diffs, Responses
    <2>4. x.gen <= desk.gen
      BY <2>1 DEF RefreshInv
    <2> QED
      BY <1>2, <1>5, <2>3, <2>4
  <1>8. RefreshIsFresh'
    BY <1>2, <1>5 DEF RefreshInv, RefreshIsFresh
  <1> QED
    BY <1>4, <1>6, <1>7, <1>8 DEF RefreshInv

\* Nothing is asked for at first.
LEMMA RefreshInit == Init => RefreshInv
  <1>1. SUFFICES ASSUME Init PROVE RefreshInv
    OBVIOUS
  <1>2. /\ outq = <<>> /\ sock = <<>> /\ evq = <<>> /\ res = "none"
        /\ req = [c \in Callers |-> NoReq]
    BY <1>1 DEF Init
  <1>3. req["r"] = NoReq
    BY <1>2 DEF Callers
  <1>4. NoReq.ph = "idle" /\ NoReq.id = 0 /\ NoReq.ag = 0 /\ NoReq.ar = 0
    BY DEF NoReq
  <1>5. desk.gen \in Nat /\ desk.rev \in Nat
    BY <1>1, ShapeInit DEF Shape, Desks
  <1>6. NotAfter(0, 0, desk.gen, desk.rev)
    BY <1>5, NotAfterSelf
  <1> QED
    BY <1>2, <1>3, <1>4, <1>6, RangeEmpty DEF RefreshInv, RefreshIsFresh

\* An answer is no older than what Desktop has when it gives it.
LEMMA RefreshDesk ==
    ASSUME Shape, Shape', RefreshInv, [Next]_vars,
           \/ \E p \in Steps(desk.st) : DeskChanges(p)
           \/ DeskHandles \/ DeskQuits \/ DeskStarts \/ DeskChangesOwner
    PROVE  RefreshInv'
  <1>1. outq \in Seq(OutMessages) /\ sock \in Seq(InMessages)
    BY DEF Shape
  <1>2. ASSUME NEW x \in InMessages
        PROVE  Append(sock, x) \in Seq(InMessages) /\ Range(Append(sock, x)) = Range(sock) \cup {x}
    BY <1>1, AppendAt
  <1>3. \A x \in Snaps \cup Diffs : x \in InMessages /\ x.k # "resp"
    BY DEF InMessages, Snaps, Diffs
  <1>4. ASSUME NEW p \in Steps(desk.st), DeskChanges(p) PROVE RefreshInv'
    <2>1. /\ \/ sock' = sock
             \/ \E x \in Snaps \cup Diffs : sock' = Append(sock, x)
             \/ sock' = Append(sock, [k |-> "bad"])
          /\ UNCHANGED <<outq, evq, req, res>>
      BY <1>4, DeskChangesStep
    <2>2. [k |-> "bad"] \in InMessages
      BY MessageTypes
    <2>3. \A x \in Range(sock') : x.k = "resp" /\ x.c = "r" => x \in Range(sock)
      <3>1. ASSUME NEW y \in Snaps \cup Diffs, sock' = Append(sock, y)
            PROVE  \A x \in Range(sock') : x.k = "resp" /\ x.c = "r" => x \in Range(sock)
        BY <1>2, <1>3, <3>1
      <3>2. CASE sock' = Append(sock, [k |-> "bad"])
        BY <1>2, <2>2, <3>2
      <3> QED
        BY <2>1, <3>1, <3>2
    <2> QED
      BY <2>1, <2>3, RefreshKept
  <1>5. CASE DeskHandles
    <2>1. /\ outq # <<>> /\ Head(outq) \in OutMessages /\ outq' = Tail(outq)
          /\ UNCHANGED <<evq, req, res>>
      BY <1>5, DeskHandlesStep
    <2>2. Range(outq) = {Head(outq)} \cup Range(Tail(outq))
      BY <1>1, <2>1, TailAt
    <2>3. Snapshot \in InMessages /\ Snapshot.k # "resp"
      BY MessageTypes, <1>3
    <2>4. \/ \A x \in Range(sock') : x.k = "resp" /\ x.c = "r" => x \in Range(sock)
          \/ /\ Head(outq).k = "load" /\ Head(outq).c = "r" /\ desk' = desk
             /\ \A x \in Range(sock') : x.k = "resp" /\ x.c = "r" =>
                   x \in Range(sock) \/ (x.gen = desk.gen /\ x.rev = desk.rev)
      <3>1. \/ sock' = sock
            \/ sock' = Append(sock, Snapshot)
            \/ \E x \in Responses : x.c = "w" /\ sock' = Append(sock, x)
            \/ /\ Head(outq).k = "load" /\ Head(outq).c = "r" /\ desk' = desk
               /\ \E x \in Responses :
                     /\ x.c = "r" /\ x.gen = desk.gen /\ x.rev = desk.rev
                     /\ sock' = Append(sock, x) \/ sock' = Append(Append(sock, x), Snapshot)
        BY <1>5, DeskHandlesStep
      <3>2. Responses \subseteq InMessages
        BY DEF InMessages
      <3>3. \A q \in Seq(InMessages) : Range(Append(q, Snapshot)) = Range(q) \cup {Snapshot}
        BY <2>3, AppendAt
      <3>4. CASE sock' = sock \/ sock' = Append(sock, Snapshot)
        BY <1>1, <2>3, <3>3, <3>4
      <3>5. ASSUME NEW x \in Responses, x.c = "w", sock' = Append(sock, x)
            PROVE  \A y \in Range(sock') : y.k = "resp" /\ y.c = "r" => y \in Range(sock)
        BY <1>2, <3>2, <3>5
      <3>6. ASSUME NEW x \in Responses, x.gen = desk.gen, x.rev = desk.rev,
                   sock' = Append(sock, x) \/ sock' = Append(Append(sock, x), Snapshot)
            PROVE  \A y \in Range(sock') : y.k = "resp" /\ y.c = "r" =>
                        y \in Range(sock) \/ (y.gen = desk.gen /\ y.rev = desk.rev)
        <4>1. /\ Append(sock, x) \in Seq(InMessages)
              /\ Range(Append(sock, x)) = Range(sock) \cup {x}
          BY <1>2, <3>2, <3>6
        <4>2. Range(sock') \subseteq Range(sock) \cup {x, Snapshot}
          BY <3>3, <3>6, <4>1
        <4> QED
          BY <2>3, <3>6, <4>2
      <3> QED
        BY <3>1, <3>4, <3>5, <3>6
    <2>5. \A x \in Range(outq') : x.k = "load" /\ x.c = "r" => x \in Range(outq)
      BY <2>1, <2>2
    <2>6. CASE \A x \in Range(sock') : x.k = "resp" /\ x.c = "r" => x \in Range(sock)
      BY <2>1, <2>5, <2>6, RefreshKept
    <2>7. CASE /\ Head(outq).k = "load" /\ Head(outq).c = "r" /\ desk' = desk
               /\ \A x \in Range(sock') : x.k = "resp" /\ x.c = "r" =>
                     x \in Range(sock) \/ (x.gen = desk.gen /\ x.rev = desk.rev)
      <3>1. Asked(req["r"])
        BY <2>2, <2>7 DEF RefreshInv
      <3>2. NotAfter(req["r"].ag, req["r"].ar, desk.gen, desk.rev)
        BY DEF RefreshInv
      <3>3. \A x \in Range(sock') : x.k = "resp" /\ x.c = "r" =>
                /\ Asked(req["r"]) /\ NotAfter(req["r"].ag, req["r"].ar, x.gen, x.rev)
                /\ x.gen <= desk.gen
        <4>1. desk.gen \in Nat
          BY DEF Shape, Desks
        <4> QED
          BY <2>7, <3>1, <3>2, <4>1 DEF RefreshInv
      <3> QED
        BY <2>1, <2>5, <2>7, <3>3 DEF RefreshInv, RefreshIsFresh
    <2> QED
      BY <2>4, <2>6, <2>7
  <1>6. CASE DeskQuits
    BY <1>6, RangeEmpty, RefreshKept DEF DeskQuits
  <1>7. CASE DeskStarts
    BY <1>7, RefreshKept DEF DeskStarts, history
  <1>8. CASE DeskChangesOwner
    <2>1. /\ sock' = IF wire THEN Append(sock, [k |-> "status"]) ELSE sock
          /\ UNCHANGED <<outq, evq, req, res>>
      BY <1>8 DEF DeskChangesOwner
    <2>2. [k |-> "status"] \in InMessages
      BY MessageTypes
    <2>3. \A x \in Range(sock') : x.k = "resp" /\ x.c = "r" => x \in Range(sock)
      BY <1>2, <2>1, <2>2
    <2> QED
      BY <2>1, <2>3, RefreshKept
  <1> QED
    BY <1>4, <1>5, <1>6, <1>7, <1>8

\* The connection and the pump pass an answer on, or drop it with its request.
LEMMA RefreshClient ==
    ASSUME Shape, Shape', RefreshInv, [Next]_vars,
           \/ ReaderDispatches \/ ReaderEnds \/ PumpTakes \/ PumpHandsOut \/ Attach
           \/ \E c \in Callers : RequestTimesOut(c)
           \/ \E i \in Turns : PumpFlushes(i)
    PROVE  RefreshInv'
  <1>1. /\ outq \in Seq(OutMessages) /\ sock \in Seq(InMessages) /\ evq \in Seq(InMessages)
        /\ req \in [Callers -> Requests] /\ "r" \in Callers /\ req["r"] \in Requests
    BY DEF Shape, Callers
  <1>2. ASSUME req'["r"] = Ended(req["r"]), UNCHANGED <<desk, outq, sock, evq, res>>
        PROVE  RefreshInv'
    <2>1. /\ Ended(req["r"]).ph = "idle" /\ Ended(req["r"]).id = req["r"].id
          /\ Ended(req["r"]).ag = 0 /\ Ended(req["r"]).ar = 0
      BY <1>1, EndedType
    <2>2. desk.gen \in Nat /\ desk.rev \in Nat /\ NotAfter(0, 0, desk.gen, desk.rev)
      BY NotAfterSelf DEF Shape, Desks
    <2>3. ASSUME NEW x \in Range(sock), x.k = "resp"
          PROVE  NotAfter(0, 0, x.gen, x.rev)
      <3>1. x \in InMessages
        BY <1>1, RangeOfSeq
      <3>2. x.gen \in Nat /\ x.rev \in Nat
        BY <2>3, <3>1 DEF InMessages, Snaps, Diffs, Responses
      <3> QED
        BY <3>2, NotAfterSelf
    <2>4. Asked(req["r"]) => Asked(Ended(req["r"]))
      BY <2>1 DEF Asked
    <2> QED
      BY <1>2, <2>1, <2>2, <2>3, <2>4 DEF RefreshInv, RefreshIsFresh
  <1>3. CASE ReaderDispatches
    <2> DEFINE msg == Head(sock)
               r == req[msg.c]
    <2>1. /\ sock # <<>> /\ sock' = Tail(sock)
          /\ \/ /\ msg.k = "resp" /\ evq' = evq
                /\ \/ req' = req
                   \/ /\ r.ph \in {"owner", "load"}
                      /\ req' = [req EXCEPT ![msg.c] = [r EXCEPT
                                   !.ph = IF r.ph = "owner" THEN "owned" ELSE "loaded",
                                   !.gen = msg.gen, !.rev = msg.rev]]
             \/ msg.k # "resp" /\ evq' = Append(evq, msg) /\ req' = req
          /\ UNCHANGED <<desk, outq, res>>
      BY <1>3 DEF ReaderDispatches, history
    <2>2. msg \in InMessages /\ Range(sock) = {msg} \cup Range(Tail(sock))
      BY <1>1, <2>1, TailAt
    <2>3. \A x \in Range(evq') : x.k = "resp" => x \in Range(evq)
      <3>1. Range(Append(evq, msg)) = Range(evq) \cup {msg}
        BY <1>1, <2>2, AppendAt
      <3> QED
        BY <2>1, <3>1
    <2>4. CASE req'["r"] = req["r"]
      BY <2>1, <2>2, <2>3, <2>4, RefreshKept
    <2>5. ASSUME msg.k = "resp", msg.c = "r", req["r"].ph \in {"owner", "load"},
                 req' = [req EXCEPT !["r"] = [req["r"] EXCEPT
                                   !.ph = IF req["r"].ph = "owner" THEN "owned" ELSE "loaded",
                                   !.gen = msg.gen, !.rev = msg.rev]]
          PROVE  RefreshInv'
      <3>1. req["r"].ph = "load"
        BY <2>5 DEF RefreshInv
      <3>2. /\ req'["r"].ph = "loaded" /\ req'["r"].gen = msg.gen /\ req'["r"].rev = msg.rev
            /\ req'["r"].id = req["r"].id
            /\ req'["r"].ag = req["r"].ag /\ req'["r"].ar = req["r"].ar
        BY <1>1, <2>5, <3>1 DEF Requests
      <3>3. /\ Asked(req["r"]) /\ NotAfter(req["r"].ag, req["r"].ar, msg.gen, msg.rev)
            /\ msg.gen <= desk.gen
        BY <2>2, <2>5 DEF RefreshInv
      <3>4. Asked(req'["r"]) /\ NotAfter(req'["r"].ag, req'["r"].ar, req'["r"].gen, req'["r"].rev)
        BY <3>2, <3>3 DEF Asked
      <3> QED
        BY <2>1, <2>2, <2>5, <3>2, <3>3, <3>4 DEF RefreshInv, RefreshIsFresh
    <2>6. msg.k = "resp" => msg.c \in Callers
      BY <2>2 DEF InMessages, Snaps, Diffs, Responses
    <2>7. CASE req' # req /\ msg.c # "r"
      BY <1>1, <2>1, <2>4, <2>7
    <2> QED
      BY <2>1, <2>4, <2>5, <2>7
  <1>4. CASE ReaderEnds
    <2>1. /\ req'["r"] = Ended(req["r"]) \/ req'["r"] = req["r"]
          /\ UNCHANGED <<desk, outq, sock, evq, res>>
      BY <1>1, <1>4 DEF ReaderEnds, history
    <2> QED
      BY <1>2, <2>1, RefreshKept
  <1>5. CASE PumpTakes
    <2>1. /\ evq # <<>> /\ evq' = Tail(evq) /\ UNCHANGED <<sock, req, res>>
          /\ \/ outq' = outq
             \/ outq' = Sent(conn, <<FollowMessage>>)
             \/ outq' = Sent(conn, <<LoadRequest("l", 0)>>)
      BY <1>5, PumpTakesStep, TakeStep
    <2>2. Range(evq) = {Head(evq)} \cup Range(Tail(evq))
      BY <1>1, <2>1, TailAt
    <2>3. FollowMessage \in OutMessages /\ LoadRequest("l", 0) \in OutMessages
      BY MessageTypes
    <2>4. <<FollowMessage>> \in Seq(OutMessages) /\ <<LoadRequest("l", 0)>> \in Seq(OutMessages)
      BY <2>3
    <2>5. /\ Range(Sent(conn, <<FollowMessage>>)) \subseteq Range(outq) \cup {FollowMessage}
          /\ Range(Sent(conn, <<LoadRequest("l", 0)>>)) \subseteq Range(outq) \cup {LoadRequest("l", 0)}
      BY <2>4, SentRange, RangeFew
    <2>6. FollowMessage.k # "load" /\ LoadRequest("l", 0).c # "r"
      BY DEF FollowMessage, LoadRequest
    <2>7. \A x \in Range(outq') : x.k = "load" /\ x.c = "r" => x \in Range(outq)
      BY <2>1, <2>5, <2>6
    <2> QED
      BY <2>1, <2>2, <2>7, RefreshKept
  <1>6. CASE PumpHandsOut
    BY <1>6, RefreshKept DEF PumpHandsOut, history
  <1>7. CASE Attach
    <2>1. /\ sock' = <<>> /\ evq' = <<>> /\ UNCHANGED <<req, res>>
          /\ outq' = <<FollowMessage>> \/ outq' = <<>>
      BY <1>7 DEF Attach, NewClient
    <2>2. FollowMessage.k # "load"
      BY DEF FollowMessage
    <2>3. Range(outq') \subseteq {FollowMessage} /\ Range(sock') = {} /\ Range(evq') = {}
      BY <2>1, RangeEmpty, RangeFew
    <2> QED
      BY <2>1, <2>2, <2>3, RefreshKept
  <1>8. ASSUME NEW c \in Callers, RequestTimesOut(c) PROVE RefreshInv'
    <2>1. /\ req' = [req EXCEPT ![c] = Ended(req[c])] /\ UNCHANGED <<desk, outq, sock, evq, res>>
      BY <1>8 DEF RequestTimesOut, history
    <2>2. req'["r"] = Ended(req["r"]) \/ req'["r"] = req["r"]
      BY <1>1, <2>1
    <2> QED
      BY <1>2, <2>1, <2>2, RefreshKept
  <1>9. ASSUME NEW i \in Turns, PumpFlushes(i) PROVE RefreshInv'
    BY <1>9, RefreshKept DEF PumpFlushes, history
  <1> QED
    BY <1>3, <1>4, <1>5, <1>6, <1>7, <1>8, <1>9

\* The watcher's requests are not the refresh's; a refresh is called, asks and
\* ends with what the mapper has then.
LEMMA RefreshCallers ==
    ASSUME Shape, Shape', RefreshInv, [Next]_vars,
           \/ WatcherTakes \/ WatcherGoesOn \/ Subscribe
           \/ RefreshStarts \/ RefreshAsks \/ RefreshEnds
    PROVE  RefreshInv'
  <1>1. /\ outq \in Seq(OutMessages) /\ sock \in Seq(InMessages)
        /\ req \in [Callers -> Requests] /\ "r" \in Callers /\ "w" \in Callers
        /\ req["r"] \in Requests /\ req["w"] \in Requests
    BY DEF Shape, Callers
  <1>2. CASE WatcherTakes
    <2>1. /\ \/ req' = req /\ outq' = outq
             \/ /\ req' = [req EXCEPT !["w"].ph = "owner", !["w"].id = @ + 1, !["w"].h = conn]
                /\ outq' = Sent(conn, <<OwnerRequest(req["w"].id + 1)>>)
          /\ UNCHANGED <<sock, evq, res>>
      BY <1>2 DEF WatcherTakes, EnsureOwner, history
    <2>2. req'["r"] = req["r"]
      BY <1>1, <2>1
    <2>3. req["w"].id + 1 \in Nat
      BY <1>1 DEF Requests
    <2>4. OwnerRequest(req["w"].id + 1) \in OutMessages
          /\ OwnerRequest(req["w"].id + 1).k # "load"
      BY <2>3, MessageTypes DEF OwnerRequest
    <2>5. <<OwnerRequest(req["w"].id + 1)>> \in Seq(OutMessages)
      BY <2>4
    <2>6. Range(Sent(conn, <<OwnerRequest(req["w"].id + 1)>>))
            \subseteq Range(outq) \cup {OwnerRequest(req["w"].id + 1)}
      <3>1. PICK x : x = OwnerRequest(req["w"].id + 1)
        OBVIOUS
      <3>2. <<x>> \in Seq(OutMessages) /\ Range(<<x>>) = {x}
        BY <2>5, <3>1, RangeFew
      <3>3. Range(Sent(conn, <<x>>)) \subseteq Range(outq) \cup {x}
        BY <3>2, SentRange
      <3> QED
        BY <3>1, <3>3
    <2>7. \A x \in Range(outq') : x.k = "load" /\ x.c = "r" => x \in Range(outq)
      BY <2>1, <2>4, <2>6
    <2> QED
      BY <2>1, <2>2, <2>7, RefreshKept
  <1>3. CASE WatcherGoesOn
    <2>1. req' = [req EXCEPT !["w"] = Ended(req["w"])] /\ UNCHANGED <<outq, sock, evq, res>>
      BY <1>3 DEF WatcherGoesOn, history
    <2>2. req'["r"] = req["r"]
      BY <1>1, <2>1
    <2> QED
      BY <2>1, <2>2, RefreshKept
  <1>4. CASE Subscribe
    <2>1. outq' = Sent(conn, <<FollowMessage>>) /\ UNCHANGED <<req, sock, evq, res>>
      BY <1>4 DEF Subscribe, FollowLocked, history
    <2>2. FollowMessage \in OutMessages /\ FollowMessage.k # "load"
      BY MessageTypes DEF FollowMessage
    <2>3. <<FollowMessage>> \in Seq(OutMessages)
      BY <2>2
    <2>4. Range(outq') \subseteq Range(outq) \cup {FollowMessage}
      BY <2>1, <2>3, SentRange, RangeFew
    <2> QED
      BY <2>1, <2>2, <2>4, RefreshKept
  <1>5. CASE RefreshStarts
    <2> DEFINE r == [NoReq EXCEPT !.ph = "client", !.id = 1, !.h = conn,
                                  !.ag = desk.gen, !.ar = desk.rev]
    <2>1. /\ req["r"] = NoReq /\ req' = [req EXCEPT !["r"] = r]
          /\ UNCHANGED <<desk, outq, sock, evq, res>>
      BY <1>5 DEF RefreshStarts, history
    <2>2. req'["r"] = r /\ ~Asked(req["r"])
      BY <1>1, <2>1 DEF Asked, NoReq
    <2>3. /\ \A x \in Range(outq) : ~(x.k = "load" /\ x.c = "r")
          /\ \A x \in Range(sock) : ~(x.k = "resp" /\ x.c = "r")
      BY <2>2 DEF RefreshInv
    <2>4. r.ph = "client" /\ r.id = 1 /\ r.ag = desk.gen /\ r.ar = desk.rev
      BY DEF NoReq
    <2>5. NotAfter(desk.gen, desk.rev, desk.gen, desk.rev)
      BY NotAfterSelf DEF Shape, Desks
    <2> QED
      BY <2>1, <2>2, <2>3, <2>4, <2>5 DEF RefreshInv, RefreshIsFresh
  <1>6. CASE RefreshAsks
    <2>1. /\ req["r"].ph = "client"
          /\ req' = [req EXCEPT !["r"] = [req["r"] EXCEPT !.ph = "load"]]
          /\ UNCHANGED <<desk, sock, evq, res>>
      BY <1>6 DEF RefreshAsks
    <2>2. /\ req'["r"].ph = "load" /\ req'["r"].id = req["r"].id
          /\ req'["r"].ag = req["r"].ag /\ req'["r"].ar = req["r"].ar
      BY <1>1, <2>1 DEF Requests
    <2>3. req["r"].id = 1 /\ Asked(req'["r"])
      BY <2>1, <2>2 DEF RefreshInv, Asked
    <2> QED
      BY <2>1, <2>2, <2>3 DEF RefreshInv, RefreshIsFresh
  <1>7. CASE RefreshEnds
    <2>1. /\ req["r"].ph = "loaded"
          /\ req' = [req EXCEPT !["r"] = Ended(req["r"])]
          /\ \/ Reached /\ res' = Compared(req["r"])
             \/ res' = res
          /\ UNCHANGED <<desk, outq, sock, evq>>
      BY <1>7 DEF RefreshEnds
    <2>2. NotAfter(req["r"].ag, req["r"].ar, req["r"].gen, req["r"].rev)
      BY <2>1 DEF RefreshInv
    <2>3. /\ req["r"].ag \in Nat /\ req["r"].ar \in Nat /\ req["r"].gen \in Nat
          /\ req["r"].rev \in Nat /\ m.gen \in Nat /\ m.rev \in Nat
      BY <1>1 DEF Requests, Shape
    <2>4. Reached => Compared(req["r"]) # "stale"
      <3>1. \A ag, ar, g, v, mg, mr \in Nat :
                NotAfter(ag, ar, g, v) /\ mr >= v =>
                    mg > ag \/ (mg = ag /\ mr >= ar) \/ mg < g
        BY DEF NotAfter
      <3>2. m.rev >= req["r"].rev =>
                \/ m.gen > req["r"].ag \/ (m.gen = req["r"].ag /\ m.rev >= req["r"].ar)
                \/ m.gen < req["r"].gen
        BY <2>2, <2>3, <3>1
      <3> QED
        BY <3>2 DEF Reached, Compared
    <2>5. RefreshIsFresh'
      <3>1. Compared(req["r"]) = "former" => m.gen < req["r"].gen
        BY DEF Compared
      <3>2. req["r"].gen <= desk.gen /\ desk.gen \in Nat
        BY <2>1 DEF RefreshInv, Shape, Desks
      <3>3. Compared(req["r"]) = "former" => desk.gen > 0
        BY <2>3, <3>1, <3>2
      <3> QED
        BY <2>1, <2>4, <3>3 DEF RefreshInv, RefreshIsFresh
    <2>6. /\ req'["r"].ph = "idle" /\ req'["r"].id = req["r"].id
          /\ req'["r"].ag = 0 /\ req'["r"].ar = 0
      BY <1>1, <2>1, EndedType
    <2>7. desk.gen \in Nat /\ desk.rev \in Nat /\ NotAfter(0, 0, desk.gen, desk.rev)
      BY NotAfterSelf DEF Shape, Desks
    <2>8. ASSUME NEW x \in Range(sock), x.k = "resp"
          PROVE  NotAfter(0, 0, x.gen, x.rev)
      <3>1. x \in InMessages
        BY <1>1, RangeOfSeq
      <3>2. x.gen \in Nat /\ x.rev \in Nat
        BY <2>8, <3>1 DEF InMessages, Snaps, Diffs, Responses
      <3> QED
        BY <3>2, NotAfterSelf
    <2>9. Asked(req["r"]) => Asked(req'["r"])
      BY <2>6 DEF Asked
    <2> QED
      BY <2>1, <2>5, <2>6, <2>7, <2>8, <2>9 DEF RefreshInv
  <1> QED
    BY <1>2, <1>3, <1>4, <1>5, <1>6, <1>7

\* refresh_snapshot returns nothing older than what Desktop had when it was
\* called, for every number of changes: what it waits for is the revision the
\* owner answered, that answer was given after the call, and Desktop's
\* revisions only move on.  Excused is the one case in which the conversation
\* has had another owner and the mapper still has the state of an owner before
\* the one that answered: then the revisions that are compared do not belong
\* together (refresh_snapshot, load_complete_history).
THEOREM RefreshFreshness == Spec => []RefreshIsFresh
  <1>1. Init => Shape /\ RefreshInv
    BY ShapeInit, RefreshInit
  <1>2. Shape /\ RefreshInv /\ [Next]_vars => Shape' /\ RefreshInv'
    <2>1. SUFFICES ASSUME Shape, RefreshInv, [Next]_vars PROVE Shape' /\ RefreshInv'
      OBVIOUS
    <2>2. Shape'
      BY <2>1, ShapeStep
    <2>3. CASE UNCHANGED vars
      BY <2>1, <2>2, <2>3, RefreshKept DEF vars
    <2>4. CASE Next
      BY <2>1, <2>2, <2>4, RefreshDesk, RefreshClient, RefreshCallers DEF Next, BridgeSteps
    <2> QED
      BY <2>1, <2>2, <2>3, <2>4
  <1>3. RefreshInv => RefreshIsFresh
    BY DEF RefreshInv
  <1> QED
    BY <1>1, <1>2, <1>3, PTL DEF Spec

-----------------------------------------------------------------------------
(* The order of what comes from Desktop.                                   *)

\* Snapshots and patches carry a revision.
LEMMA StreamType ==
    \A x \in InMessages : Stream(x) => x.gen \in Nat /\ x.rev \in Nat
  BY DEF Stream, InMessages, Snaps, Diffs, Responses

\* Desktop may move on.
LEMMA OrderAdvances ==
    ASSUME NEW eq \in Seq(InMessages), NEW sk \in Seq(InMessages), NEW mm,
           mm.gen \in Nat, mm.rev \in Nat,
           NEW g \in Nat, NEW r \in Nat, NEW h \in Nat, NEW s \in Nat,
           OrderOf(eq, sk, mm, g, r), NotAfter(g, r, h, s)
    PROVE  OrderOf(eq, sk, mm, h, s)
  <1>1. ASSUME NEW a \in Nat, NEW b \in Nat, NotAfter(a, b, g, r)
        PROVE  NotAfter(a, b, h, s)
    BY <1>1, NotAfterTrans
  <1>2. ASSUME NEW q \in Seq(InMessages), UpTo(q, g, r)
        PROVE  UpTo(q, h, s)
    <2>1. SUFFICES ASSUME NEW x \in Range(q), Stream(x) PROVE NotAfter(x.gen, x.rev, h, s)
      BY DEF UpTo
    <2>2. x \in InMessages
      BY RangeOfSeq
    <2>3. x.gen \in Nat /\ x.rev \in Nat
      BY <2>1, <2>2, StreamType
    <2>4. NotAfter(x.gen, x.rev, g, r)
      BY <1>2, <2>1 DEF UpTo
    <2> QED
      BY <1>1, <2>3, <2>4
  <1>3. mm.has => NotAfter(mm.gen, mm.rev, h, s)
    BY <1>1 DEF OrderOf
  <1>4. UpTo(eq, h, s) /\ UpTo(sk, h, s)
    BY <1>2 DEF OrderOf
  <1> QED
    BY <1>3, <1>4 DEF OrderOf

\* What Desktop sends carries its own revision.
LEMMA OrderAppends ==
    ASSUME NEW eq \in Seq(InMessages), NEW sk \in Seq(InMessages), NEW mm,
           NEW g \in Nat, NEW r \in Nat, OrderOf(eq, sk, mm, g, r),
           NEW x \in InMessages, Stream(x) => x.gen = g /\ x.rev = r
    PROVE  OrderOf(eq, Append(sk, x), mm, g, r)
  <1>1. Range(Append(sk, x)) = Range(sk) \cup {x}
    BY AppendAt
  <1>2. \A y \in Range(eq) \cup Range(sk) : Before(y, x)
    BY DEF Before, OrderOf, UpTo
  <1>3. Ordered(Append(sk, x))
    BY <1>2, OrderedAppend DEF OrderOf
  <1>4. UpTo(Append(sk, x), g, r)
    <2>1. NotAfter(g, r, g, r)
      BY NotAfterSelf
    <2> QED
      BY <1>1, <2>1 DEF UpTo, OrderOf
  <1>5. mm.has => From(Append(sk, x), mm.gen, mm.rev)
    BY <1>1 DEF From, OrderOf
  <1>6. \A y \in Range(eq), z \in Range(Append(sk, x)) : Before(y, z)
    BY <1>1, <1>2 DEF OrderOf
  <1> QED
    BY <1>3, <1>4, <1>5, <1>6 DEF OrderOf

\* The reader drops an answer from the socket.
LEMMA OrderDrops ==
    ASSUME NEW eq \in Seq(InMessages), NEW sk \in Seq(InMessages), NEW mm, NEW g, NEW r,
           OrderOf(eq, sk, mm, g, r), sk # <<>>
    PROVE  OrderOf(eq, Tail(sk), mm, g, r)
  <1>1. Range(sk) = {Head(sk)} \cup Range(Tail(sk))
    BY TailAt
  <1>2. Ordered(Tail(sk))
    BY OrderedTail DEF OrderOf
  <1> QED
    BY <1>1, <1>2 DEF OrderOf, UpTo, From

\* The reader moves a message to the end of the event queue.
LEMMA OrderMoves ==
    ASSUME NEW eq \in Seq(InMessages), NEW sk \in Seq(InMessages), NEW mm, NEW g, NEW r,
           OrderOf(eq, sk, mm, g, r), sk # <<>>
    PROVE  OrderOf(Append(eq, Head(sk)), Tail(sk), mm, g, r)
  <1>1. Head(sk) \in InMessages /\ Range(sk) = {Head(sk)} \cup Range(Tail(sk))
    BY TailAt
  <1>2. Ordered(Tail(sk)) /\ \A y \in Range(Tail(sk)) : Before(Head(sk), y)
    BY OrderedTail DEF OrderOf
  <1>3. Range(Append(eq, Head(sk))) = Range(eq) \cup {Head(sk)}
    BY <1>1, AppendAt
  <1>4. \A y \in Range(eq) : Before(y, Head(sk))
    BY <1>1 DEF OrderOf
  <1>5. Ordered(Append(eq, Head(sk)))
    BY <1>1, <1>4, OrderedAppend DEF OrderOf
  <1>6. \A y \in Range(Append(eq, Head(sk))), z \in Range(Tail(sk)) : Before(y, z)
    BY <1>1, <1>2, <1>3 DEF OrderOf
  <1>7. UpTo(Append(eq, Head(sk)), g, r) /\ UpTo(Tail(sk), g, r)
    BY <1>1, <1>3 DEF OrderOf, UpTo
  <1>8. mm.has => From(Append(eq, Head(sk)), mm.gen, mm.rev) /\ From(Tail(sk), mm.gen, mm.rev)
    BY <1>1, <1>3 DEF OrderOf, From
  <1> QED
    BY <1>2, <1>5, <1>6, <1>7, <1>8 DEF OrderOf

\* The pump takes a message, and the mapper its revision or none.
LEMMA OrderTakes ==
    ASSUME NEW eq \in Seq(InMessages), NEW sk \in Seq(InMessages), NEW mm, NEW n, NEW g, NEW r,
           OrderOf(eq, sk, mm, g, r), eq # <<>>,
           \/ n = mm
           \/ Stream(Head(eq)) /\ n.gen = Head(eq).gen /\ n.rev = Head(eq).rev
    PROVE  OrderOf(Tail(eq), sk, n, g, r)
  <1>1. Range(eq) = {Head(eq)} \cup Range(Tail(eq))
    BY TailAt
  <1>2. Ordered(Tail(eq)) /\ \A y \in Range(Tail(eq)) : Before(Head(eq), y)
    BY OrderedTail DEF OrderOf
  <1>3. /\ Ordered(sk) /\ \A x \in Range(Tail(eq)), y \in Range(sk) : Before(x, y)
        /\ UpTo(Tail(eq), g, r) /\ UpTo(sk, g, r)
    BY <1>1 DEF OrderOf, UpTo
  <1>4. CASE n = mm
    BY <1>1, <1>2, <1>3, <1>4 DEF OrderOf, From
  <1>5. CASE Stream(Head(eq)) /\ n.gen = Head(eq).gen /\ n.rev = Head(eq).rev
    <2>1. From(Tail(eq), n.gen, n.rev)
      BY <1>2, <1>5 DEF From, Before
    <2>2. From(sk, n.gen, n.rev)
      BY <1>1, <1>5 DEF From, Before, OrderOf
    <2>3. NotAfter(n.gen, n.rev, g, r)
      BY <1>1, <1>5 DEF OrderOf, UpTo
    <2> QED
      BY <1>2, <1>3, <2>1, <2>2, <2>3 DEF OrderOf
  <1> QED
    BY <1>4, <1>5

-----------------------------------------------------------------------------
(* Patches come behind a snapshot of their owner.                          *)

\* Snapshots in a queue that grows or shrinks.
LEMMA SnapGensAppend ==
    ASSUME NEW q \in Seq(InMessages), NEW x \in InMessages
    PROVE  SnapGens(Append(q, x)) = SnapGens(q) \cup (IF x.k = "snap" THEN {x.gen} ELSE {})
  <1>1. Range(Append(q, x)) = Range(q) \cup {x}
    BY AppendAt
  <1> QED
    BY <1>1 DEF SnapGens

\* Snapshots in a queue without its head.
LEMMA SnapGensTail ==
    ASSUME NEW q \in Seq(InMessages), q # <<>>
    PROVE  SnapGens(q) = SnapGens(Tail(q)) \cup (IF Head(q).k = "snap" THEN {Head(q).gen} ELSE {})
  <1>1. Range(q) = {Head(q)} \cup Range(Tail(q))
    BY TailAt
  <1> QED
    BY <1>1 DEF SnapGens

\* Desktop sends patches to followers only, who had a snapshot.
LEMMA GroundAppends ==
    ASSUME NEW eq \in Seq(InMessages), NEW sk \in Seq(InMessages), NEW mm, NEW f, NEW ff, NEW g,
           GroundOf(eq, sk, mm, f, g), NEW x \in InMessages,
           x.k = "patch" => f /\ x.gen = g,
           ff => f \/ (x.k = "snap" /\ x.gen = g)
    PROVE  GroundOf(eq, Append(sk, x), mm, ff, g)
  <1>1. x.k = "patch" => x.gen \in (Known(mm) \cup SnapGens(eq)) \cup SnapGens(sk)
    BY DEF GroundOf
  <1>2. Grounded(Append(sk, x), Known(mm) \cup SnapGens(eq))
    BY <1>1, GroundedAppend DEF GroundOf
  <1>3. SnapGens(Append(sk, x)) = SnapGens(sk) \cup (IF x.k = "snap" THEN {x.gen} ELSE {})
    BY SnapGensAppend
  <1> QED
    BY <1>2, <1>3 DEF GroundOf

\* The reader drops an answer.
LEMMA GroundDrops ==
    ASSUME NEW eq \in Seq(InMessages), NEW sk \in Seq(InMessages), NEW mm, NEW f, NEW g,
           GroundOf(eq, sk, mm, f, g), sk # <<>>, Head(sk).k = "resp"
    PROVE  GroundOf(eq, Tail(sk), mm, f, g)
  <1>1. Grounded(Tail(sk), Known(mm) \cup SnapGens(eq))
    BY GroundedTail DEF GroundOf
  <1>2. SnapGens(sk) = SnapGens(Tail(sk))
    BY SnapGensTail
  <1> QED
    BY <1>1, <1>2 DEF GroundOf

\* The reader moves a message to the end of the event queue.
LEMMA GroundMoves ==
    ASSUME NEW eq \in Seq(InMessages), NEW sk \in Seq(InMessages), NEW mm, NEW f, NEW g,
           GroundOf(eq, sk, mm, f, g), sk # <<>>
    PROVE  GroundOf(Append(eq, Head(sk)), Tail(sk), mm, f, g)
  <1> DEFINE x == Head(sk)
             G == Known(mm) \cup SnapGens(eq)
             K == Known(mm) \cup SnapGens(Append(eq, x))
  <1>1. x \in InMessages
    BY TailAt
  <1>2. /\ SnapGens(Append(eq, x)) = SnapGens(eq) \cup (IF x.k = "snap" THEN {x.gen} ELSE {})
        /\ SnapGens(sk) = SnapGens(Tail(sk)) \cup (IF x.k = "snap" THEN {x.gen} ELSE {})
    BY <1>1, SnapGensAppend, SnapGensTail
  <1>3. G \subseteq K /\ (x.k = "snap" => x.gen \in K)
    BY <1>2
  <1>4. Grounded(sk, G)
    BY DEF GroundOf
  <1> HIDE DEF K
  <1>5. (x.k = "patch" => x.gen \in G) /\ Grounded(Tail(sk), K)
    BY <1>3, <1>4, GroundedTail
  <1>6. Grounded(Append(eq, x), Known(mm))
    BY <1>1, <1>5, GroundedAppend DEF GroundOf
  <1> QED
    BY <1>2, <1>5, <1>6 DEF GroundOf, K

\* The pump takes a message that is no snapshot, and the mapper stays.
LEMMA GroundSkips ==
    ASSUME NEW eq \in Seq(InMessages), NEW sk \in Seq(InMessages), NEW mm, NEW f, NEW g,
           GroundOf(eq, sk, mm, f, g), eq # <<>>, Head(eq).k # "snap"
    PROVE  GroundOf(Tail(eq), sk, mm, f, g)
  <1>1. Grounded(Tail(eq), Known(mm))
    BY GroundedTail DEF GroundOf
  <1>2. SnapGens(eq) = SnapGens(Tail(eq))
    BY SnapGensTail
  <1> QED
    BY <1>1, <1>2 DEF GroundOf

\* Owners come one after the other.
LEMMA Between ==
    \A a, b, c, r, s, t \in Nat : NotAfter(a, r, b, s) /\ NotAfter(b, s, c, t) /\ a = c => b = c
  BY DEF NotAfter

\* The pump takes a snapshot or a patch, and the mapper its revision: what the
\* mapper grounded before, the revision it has now grounds, because the order
\* leaves no other owner.
LEMMA GroundTakes ==
    ASSUME NEW eq \in Seq(InMessages), NEW sk \in Seq(InMessages), NEW mm, NEW n, NEW f,
           NEW g \in Nat, NEW r \in Nat, mm.gen \in Nat, mm.rev \in Nat,
           OrderOf(eq, sk, mm, g, r), GroundOf(eq, sk, mm, f, g), eq # <<>>,
           Stream(Head(eq)), n.has, n.gen = Head(eq).gen
    PROVE  GroundOf(Tail(eq), sk, n, f, g)
  <1> DEFINE e == Head(eq)
  <1>1. e \in InMessages /\ e.gen \in Nat /\ e.rev \in Nat
    BY TailAt, StreamType
  <1>2. Range(eq) = {e} \cup Range(Tail(eq))
    BY TailAt
  <1>3. \A y \in Range(Tail(eq)) : Before(e, y)
    BY OrderedTail DEF OrderOf
  <1>4. \A y \in Range(sk) : Before(e, y)
    BY <1>2 DEF OrderOf
  <1>5. mm.has => NotAfter(mm.gen, mm.rev, e.gen, e.rev)
    BY <1>2 DEF OrderOf, From
  <1>6. NotAfter(e.gen, e.rev, g, r)
    BY <1>2 DEF OrderOf, UpTo
  <1>7. ASSUME NEW y \in Range(Tail(eq)) \cup Range(sk), y.k = "patch", y.gen \in Known(mm)
        PROVE  y.gen = e.gen
    <2>1. y \in InMessages
      <3>1. Tail(eq) \in Seq(InMessages)
        BY TailAt
      <3> QED
        BY <3>1, RangeOfSeq
    <2>2. Stream(y)
      BY <1>7 DEF Stream
    <2>3. y.gen \in Nat /\ y.rev \in Nat
      BY <2>1, <2>2, StreamType
    <2>4. NotAfter(e.gen, e.rev, y.gen, y.rev)
      BY <1>3, <1>4, <2>2 DEF Before
    <2>5. mm.has /\ y.gen = mm.gen
      BY <1>7 DEF Known
    <2> QED
      BY <1>1, <1>5, <2>3, <2>4, <2>5, Between
  <1>8. Known(n) = {e.gen}
    BY DEF Known
  <1>9. Grounded(Tail(eq), Known(n))
    <2>1. \A x \in Range(Tail(eq)) : x.k = "patch" /\ x.gen \in Known(mm) => x.gen \in Known(n)
      BY <1>7, <1>8
    <2>2. e.k = "snap" => e.gen \in Known(n)
      BY <1>8
    <2>3. Grounded(eq, Known(mm))
      BY DEF GroundOf
    <2> QED
      BY <2>1, <2>2, <2>3, GroundedTail
  <1>10. SnapGens(eq) \subseteq SnapGens(Tail(eq)) \cup Known(n)
    BY <1>8, SnapGensTail
  <1>11. Grounded(sk, Known(n) \cup SnapGens(Tail(eq)))
    <2>1. \A x \in Range(sk) : x.k = "patch" /\ x.gen \in Known(mm) \cup SnapGens(eq) =>
              x.gen \in Known(n) \cup SnapGens(Tail(eq))
      BY <1>7, <1>8, <1>10
    <2>2. Grounded(sk, Known(mm) \cup SnapGens(eq))
      BY DEF GroundOf
    <2> QED
      BY <2>1, <2>2, GroundedMore
  <1>12. f => g \in Known(n) \cup SnapGens(Tail(eq)) \cup SnapGens(sk)
    <2>1. CASE g \in Known(mm)
      <3>1. mm.has /\ mm.gen = g
        BY <2>1 DEF Known
      <3>2. e.gen = g
        BY <1>1, <1>5, <1>6, <3>1, Between
      <3> QED
        BY <1>8, <3>2
    <2>2. CASE g \notin Known(mm)
      BY <1>10, <2>2 DEF GroundOf
    <2> QED
      BY <2>1, <2>2
  <1> QED
    BY <1>9, <1>11, <1>12 DEF GroundOf

-----------------------------------------------------------------------------
(* One history of the conversation.                                        *)

\* I is the history H, with st for revision r of owner g.
Extends(I, H, g, r, st) ==
    /\ I[g][r] = st
    /\ \A a, b \in Nat : ~(a = g /\ b = r) => I[a][b] = H[a][b]

\* A history with one more state.
LEMMA HistoryExtends ==
    ASSUME NEW H \in Histories, NEW g \in Nat, NEW r \in Nat, NEW st \in State
    PROVE  \E I \in Histories : Extends(I, H, g, r, st)
  <1>1. H[g] \in [Nat -> State]
    BY DEF Histories
  <1>2. [H[g] EXCEPT ![r] = st] \in [Nat -> State]
    BY <1>1
  <1> DEFINE I == [H EXCEPT ![g] = [H[g] EXCEPT ![r] = st]]
  <1>3. I \in Histories
    BY <1>2 DEF Histories
  <1>4. I[g] = [H[g] EXCEPT ![r] = st] /\ \A a \in Nat : a # g => I[a] = H[a]
    BY DEF Histories
  <1> HIDE DEF I
  <1>5. I[g][r] = st /\ \A b \in Nat : b # r => I[g][b] = H[g][b]
    BY <1>1, <1>4
  <1>6. \A a, b \in Nat : ~(a = g /\ b = r) => I[a][b] = H[a][b]
    BY <1>4, <1>5
  <1>7. Extends(I, H, g, r, st)
    BY <1>5, <1>6 DEF Extends
  <1> QED
    BY <1>3, <1>7

\* A later revision is none of those up to now.
LEMMA LaterIsNew ==
    \A a, b, g, r, h, s \in Nat :
        NotAfter(a, b, g, r) /\ ~NotAfter(h, s, g, r) => ~(a = h /\ b = s)
  BY DEF NotAfter

\* What comes before a revision up to now is one up to now.
LEMMA EarlierIsOld ==
    \A a, b, g, r \in Nat : NotAfter(a, b + 1, g, r) => NotAfter(a, b, g, r)
  BY DEF NotAfter

\* The next revision, and the first one of the next owner, are later.
LEMMA NextIsLater ==
    \A g, r \in Nat : ~NotAfter(g, r + 1, g, r) /\ ~NotAfter(g + 1, 0, g, r)
  BY DEF NotAfter

\* When Desktop moves on to a new revision, the history does.
LEMMA HistoryMovesOn ==
    ASSUME NEW eq \in Seq(InMessages), NEW sk \in Seq(InMessages), NEW mm,
           mm.gen \in Nat, mm.rev \in Nat, NEW d \in Desks, NEW e \in Desks,
           OrderOf(eq, sk, mm, d.gen, d.rev),
           NEW H \in Histories, Agrees(H, eq, sk, mm, d),
           ~NotAfter(e.gen, e.rev, d.gen, d.rev)
    PROVE  \E I \in Histories : Agrees(I, eq, sk, mm, e) /\ I[d.gen][d.rev] = d.st
  <1>1. /\ d.gen \in Nat /\ d.rev \in Nat /\ d.st \in State
        /\ e.gen \in Nat /\ e.rev \in Nat /\ e.st \in State
    BY DEF Desks
  <1>0. PICK g \in Nat, r \in Nat, st \in State : g = e.gen /\ r = e.rev /\ st = e.st
    BY <1>1
  <1>2. PICK I \in Histories : Extends(I, H, g, r, st)
    BY HistoryExtends
  <1>3. ASSUME NEW a \in Nat, NEW b \in Nat, NotAfter(a, b, d.gen, d.rev)
        PROVE  I[a][b] = H[a][b]
    <2>1. ~(a = g /\ b = r)
      BY <1>0, <1>1, <1>3, LaterIsNew
    <2> QED
      BY <1>2, <2>1 DEF Extends
  <1>4. I[d.gen][d.rev] = d.st
    <2>1. NotAfter(d.gen, d.rev, d.gen, d.rev)
      BY <1>1, NotAfterSelf
    <2> QED
      BY <1>1, <1>3, <2>1 DEF Agrees
  <1>5. mm.has => mm.st = I[mm.gen][mm.rev]
    BY <1>3 DEF Agrees, OrderOf
  <1>6. ASSUME NEW x \in Range(eq) \cup Range(sk) PROVE Tells(x, I)
    <2>1. x \in InMessages /\ Tells(x, H)
      BY RangeOfSeq DEF Agrees
    <2>2. ASSUME Stream(x)
          PROVE  /\ x.gen \in Nat /\ x.rev \in Nat
                 /\ NotAfter(x.gen, x.rev, d.gen, d.rev)
      BY <2>1, <2>2, StreamType DEF OrderOf, UpTo
    <2>3. CASE x.k = "snap"
      BY <1>3, <2>1, <2>2, <2>3 DEF Tells, Stream
    <2>4. CASE x.k = "patch"
      <3>1. x.base \in Nat /\ x.rev = x.base + 1
        BY <2>1, <2>4 DEF InMessages, Snaps, Diffs, Responses, Tells
      <3>2. Stream(x)
        BY <2>4 DEF Stream
      <3>3. NotAfter(x.gen, x.base, d.gen, d.rev)
        BY <1>1, <2>2, <3>1, <3>2, EarlierIsOld
      <3>4. I[x.gen][x.base] = H[x.gen][x.base] /\ I[x.gen][x.rev] = H[x.gen][x.rev]
        BY <1>3, <2>2, <3>1, <3>2, <3>3
      <3> QED
        BY <2>1, <2>4, <3>1, <3>4 DEF Tells
    <2> QED
      BY <2>1, <2>3, <2>4 DEF Tells
  <1> QED
    BY <1>0, <1>2, <1>4, <1>5, <1>6 DEF Agrees, Extends

\* What Desktop sends, the history tells.
LEMMA HistoryAppends ==
    ASSUME NEW eq, NEW sk \in Seq(InMessages), NEW mm, NEW d, NEW H,
           Agrees(H, eq, sk, mm, d), NEW x \in InMessages, Tells(x, H)
    PROVE  Agrees(H, eq, Append(sk, x), mm, d)
  <1>1. Range(Append(sk, x)) = Range(sk) \cup {x}
    BY AppendAt
  <1> QED
    BY <1>1 DEF Agrees

\* The reader drops an answer, or moves another message on.
LEMMA HistoryMoves ==
    ASSUME NEW eq \in Seq(InMessages), NEW sk \in Seq(InMessages), NEW mm, NEW d, NEW H,
           Agrees(H, eq, sk, mm, d), sk # <<>>
    PROVE  Agrees(H, eq, Tail(sk), mm, d) /\ Agrees(H, Append(eq, Head(sk)), Tail(sk), mm, d)
  <1>1. Head(sk) \in InMessages /\ Range(sk) = {Head(sk)} \cup Range(Tail(sk))
    BY TailAt
  <1>2. Range(Append(eq, Head(sk))) = Range(eq) \cup {Head(sk)}
    BY <1>1, AppendAt
  <1> QED
    BY <1>1, <1>2 DEF Agrees

\* The mapper takes the state a snapshot carries, or the one a patch leads to
\* from the mapper's own.
LEMMA HistoryTakes ==
    ASSUME NEW eq \in Seq(InMessages), NEW sk, NEW mm, NEW n, NEW d, NEW H,
           Agrees(H, eq, sk, mm, d), eq # <<>>,
           \/ n = mm
           \/ /\ Head(eq).k = "snap" /\ n.st = Head(eq).st
              /\ n.gen = Head(eq).gen /\ n.rev = Head(eq).rev
           \/ /\ Head(eq).k = "patch" /\ mm.has /\ mm.gen = Head(eq).gen /\ mm.rev = Head(eq).base
              /\ n.st = ApplyImmerPatches(mm.st, Head(eq).p)
              /\ n.gen = Head(eq).gen /\ n.rev = Head(eq).rev
    PROVE  Agrees(H, Tail(eq), sk, n, d)
  <1>1. Range(eq) = {Head(eq)} \cup Range(Tail(eq))
    BY TailAt
  <1>2. Tells(Head(eq), H) /\ \A x \in Range(Tail(eq)) \cup Range(sk) : Tells(x, H)
    BY <1>1 DEF Agrees
  <1>3. n.has => n.st = H[n.gen][n.rev]
    <2>1. CASE n = mm
      BY <2>1 DEF Agrees
    <2>2. CASE /\ Head(eq).k = "snap" /\ n.st = Head(eq).st
               /\ n.gen = Head(eq).gen /\ n.rev = Head(eq).rev
      BY <1>2, <2>2 DEF Tells
    <2>3. CASE /\ Head(eq).k = "patch" /\ mm.has /\ mm.gen = Head(eq).gen /\ mm.rev = Head(eq).base
               /\ n.st = ApplyImmerPatches(mm.st, Head(eq).p)
               /\ n.gen = Head(eq).gen /\ n.rev = Head(eq).rev
      <3>1. mm.st = H[Head(eq).gen][Head(eq).base]
        BY <2>3 DEF Agrees
      <3> QED
        BY <1>2, <2>3, <3>1 DEF Tells
    <2> QED
      BY <2>1, <2>2, <2>3
  <1> QED
    BY <1>2, <1>3 DEF Agrees

-----------------------------------------------------------------------------
(* What is between Desktop and the mapper, step by step.                   *)
Pipeline == InOrder /\ PatchesGrounded /\ OneHistory

\* At first there is nothing.
LEMMA PipelineInit == Init => Pipeline
  <1>1. SUFFICES ASSUME Init PROVE Pipeline
    OBVIOUS
  <1>2. evq = <<>> /\ sock = <<>> /\ m.has = FALSE
    BY <1>1 DEF Init, NewMapper
  <1>3. Range(evq) = {} /\ Range(sock) = {} /\ DOMAIN evq = {} /\ DOMAIN sock = {}
    BY <1>2, RangeEmpty
  <1>4. desk.gen \in Nat /\ desk.rev \in Nat /\ desk.st \in State
    BY <1>1, ShapeInit DEF Shape, Desks
  <1>5. InOrder
    BY <1>2, <1>3 DEF InOrder, OrderOf, Ordered, UpTo
  <1>6. ~desk.follows
    BY <1>1 DEF Init
  <1>7. PatchesGrounded
    BY <1>3, <1>6 DEF PatchesGrounded, GroundOf, Grounded
  <1>8. OneHistory
    <2> DEFINE H == [g \in Nat |-> [r \in Nat |-> desk.st]]
    <2>1. H \in Histories /\ H[desk.gen][desk.rev] = desk.st
      BY <1>4 DEF Histories
    <2> HIDE DEF H
    <2>2. Agrees(H, evq, sock, m, desk)
      BY <1>2, <1>3, <2>1 DEF Agrees
    <2> QED
      BY <2>1, <2>2 DEF OneHistory
  <1> QED
    BY <1>5, <1>7, <1>8 DEF Pipeline

\* Steps that leave the queues, the mapper's state and the conversation alone.
LEMMA PipelineKept ==
    ASSUME Shape, Pipeline, UNCHANGED <<sock, evq>>,
           m'.has = m.has, m'.gen = m.gen, m'.rev = m.rev, m'.st = m.st,
           desk'.gen = desk.gen, desk'.rev = desk.rev, desk'.st = desk.st,
           desk'.follows => desk.follows
    PROVE  Pipeline'
  <1>1. InOrder'
    BY DEF Pipeline, InOrder, OrderOf
  <1>2. PatchesGrounded'
    BY DEF Pipeline, PatchesGrounded, GroundOf, Known
  <1>3. OneHistory'
    <2>1. PICK H \in Histories : Agrees(H, evq, sock, m, desk)
      BY DEF Pipeline, OneHistory
    <2>2. Agrees(H, evq', sock', m', desk')
      BY <2>1 DEF Agrees
    <2> QED
      BY <2>2 DEF OneHistory
  <1> QED
    BY <1>1, <1>2, <1>3 DEF Pipeline

\* What the proofs know of the types, for every step.
LEMMA PipelineTypes ==
    ASSUME Shape
    PROVE  /\ evq \in Seq(InMessages) /\ sock \in Seq(InMessages) /\ outq \in Seq(OutMessages)
           /\ desk \in Desks /\ desk.gen \in Nat /\ desk.rev \in Nat /\ desk.st \in State
           /\ m.gen \in Nat /\ m.rev \in Nat
  BY DEF Shape, Desks

\* A change of the conversation.
LEMMA PipelineChanges ==
    ASSUME Shape, Shape', Pipeline, NEW p \in Steps(desk.st), DeskChanges(p)
    PROVE  Pipeline'
  <1> DEFINE st == ApplyImmerPatches(desk.st, p)
  <1>1. /\ evq \in Seq(InMessages) /\ sock \in Seq(InMessages)
        /\ desk \in Desks /\ desk.gen \in Nat /\ desk.rev \in Nat /\ desk.st \in State
        /\ m.gen \in Nat /\ m.rev \in Nat /\ desk.rev + 1 \in Nat
    BY PipelineTypes
  <1>2. st \in State /\ UNCHANGED <<evq, m>>
    BY DeskChangesStep
  <1>3. /\ desk' \in Desks /\ desk'.follows = desk.follows
        /\ desk'.gen = desk.gen /\ desk'.rev = desk.rev + 1 /\ desk'.st = st
    BY <1>2, DeskChangesStep, ChangedDesk
  <1>4. \/ sock' = sock
        \/ \E x \in InMessages :
              /\ sock' = Append(sock, x)
              /\ Stream(x) => desk.follows /\ x.gen = desk.gen /\ x.rev = desk.rev + 1
              /\ x.k = "snap" => x.st = st
              /\ x.k = "patch" => x.base = desk.rev /\ x.p = p
    <2>1. CASE sock' = sock
      BY <2>1
    <2>2. ASSUME NEW x \in Snaps \cup Diffs, sock' = Append(sock, x), desk.follows,
                 x.gen = desk.gen, x.rev = desk.rev + 1, x.k = "snap" => x.st = st,
                 x.k = "patch" => x.base = desk.rev /\ x.p = p
          PROVE  \E y \in InMessages :
                    /\ sock' = Append(sock, y)
                    /\ Stream(y) => desk.follows /\ y.gen = desk.gen /\ y.rev = desk.rev + 1
                    /\ y.k = "snap" => y.st = st
                    /\ y.k = "patch" => y.base = desk.rev /\ y.p = p
      <3>1. x \in InMessages
        BY <2>2 DEF InMessages
      <3> QED
        BY <2>2, <3>1
    <2>3. CASE sock' = Append(sock, [k |-> "bad"])
      <3>1. PICK y \in InMessages : y = [k |-> "bad"]
        BY MessageTypes
      <3>2. ~Stream(y) /\ y.k = "bad"
        BY <3>1 DEF Stream
      <3> QED
        BY <2>3, <3>1, <3>2
    <2> HIDE DEF st
    <2> QED
      BY <2>1, <2>2, <2>3, DeskChangesStep DEF st
  <1>5. /\ OrderOf(evq, sock, m, desk.gen, desk.rev)
        /\ GroundOf(evq, sock, m, desk.follows, desk.gen)
    BY DEF Pipeline, InOrder, PatchesGrounded
  <1>6. OrderOf(evq, sock, m, desk.gen, desk.rev + 1)
    <2>1. NotAfter(desk.gen, desk.rev, desk.gen, desk.rev + 1)
      BY <1>1, NotAfterNext
    <2> QED
      BY <1>1, <1>5, <2>1, OrderAdvances
  <1>7. PICK H \in Histories : Agrees(H, evq, sock, m, desk)
    BY DEF Pipeline, OneHistory
  <1>8. PICK e \in Desks : e = desk'
    BY <1>3
  <1>9. /\ e.gen = desk.gen /\ e.rev = desk.rev + 1 /\ e.st = st
        /\ ~NotAfter(e.gen, e.rev, desk.gen, desk.rev)
    BY <1>1, <1>3, <1>8, NextIsLater
  <1>10. PICK I \in Histories : Agrees(I, evq, sock, m, e) /\ I[desk.gen][desk.rev] = desk.st
    BY <1>1, <1>5, <1>7, <1>9, HistoryMovesOn
  <1> HIDE DEF st
  <1>11. CASE sock' = sock
    <2>1. InOrder' /\ PatchesGrounded'
      BY <1>2, <1>3, <1>5, <1>6, <1>11 DEF InOrder, PatchesGrounded
    <2>2. OneHistory'
      BY <1>2, <1>8, <1>10, <1>11 DEF OneHistory
    <2> QED
      BY <2>1, <2>2 DEF Pipeline
  <1>12. ASSUME NEW x \in InMessages, sock' = Append(sock, x),
                Stream(x) => desk.follows /\ x.gen = desk.gen /\ x.rev = desk.rev + 1,
                x.k = "snap" => x.st = st, x.k = "patch" => x.base = desk.rev /\ x.p = p
         PROVE  Pipeline'
    <2>1. OrderOf(evq, Append(sock, x), m, desk.gen, desk.rev + 1)
      BY <1>1, <1>6, <1>12, OrderAppends
    <2>2. x.k = "patch" => desk.follows /\ x.gen = desk.gen
      BY <1>12 DEF Stream
    <2>3. GroundOf(evq, Append(sock, x), m, desk.follows, desk.gen)
      BY <1>1, <1>5, <2>2, GroundAppends
    <2>4. Tells(x, I)
      <3>1. I[desk.gen][desk.rev + 1] = st
        BY <1>9, <1>10 DEF Agrees
      <3>2. x.k \in {"snap", "patch"} => x.gen = desk.gen /\ x.rev = desk.rev + 1
        BY <1>12 DEF Stream
      <3> QED
        BY <1>10, <1>12, <3>1, <3>2 DEF Tells, st
    <2>5. Agrees(I, evq, Append(sock, x), m, e)
      BY <1>1, <1>10, <2>4, HistoryAppends
    <2>6. InOrder' /\ PatchesGrounded'
      BY <1>2, <1>3, <1>12, <2>1, <2>3 DEF InOrder, PatchesGrounded
    <2>7. OneHistory'
      BY <1>2, <1>8, <1>10, <1>12, <2>5 DEF OneHistory
    <2> QED
      BY <2>6, <2>7 DEF Pipeline
  <1> QED
    BY <1>4, <1>11, <1>12

\* The three of them, for any queues, mapper and Desktop.
PipelineOf(eq, sk, mm, d) ==
    /\ OrderOf(eq, sk, mm, d.gen, d.rev)
    /\ GroundOf(eq, sk, mm, d.follows, d.gen)
    /\ \E H \in Histories : Agrees(H, eq, sk, mm, d)

\* They are the ones of the pipeline.
LEMMA PipelineIs == Pipeline <=> PipelineOf(evq, sock, m, desk)
  BY DEF Pipeline, PipelineOf, InOrder, PatchesGrounded, OneHistory

\* The same after a step.
LEMMA PipelineIsNext == Pipeline' <=> PipelineOf(evq', sock', m', desk')
  BY DEF Pipeline, PipelineOf, InOrder, PatchesGrounded, OneHistory

\* Desktop may send the snapshot of what it has, with which the client becomes
\* a follower, or what is no change of the conversation.
LEMMA PipelineSends ==
    ASSUME NEW eq \in Seq(InMessages), NEW sk \in Seq(InMessages), NEW mm,
           NEW d \in Desks, NEW e \in Desks, PipelineOf(eq, sk, mm, d),
           e.gen = d.gen, e.rev = d.rev, e.st = d.st,
           NEW x \in InMessages,
           Stream(x) => x.k = "snap" /\ x.gen = d.gen /\ x.rev = d.rev /\ x.st = d.st,
           e.follows => d.follows \/ x.k = "snap"
    PROVE  PipelineOf(eq, Append(sk, x), mm, e)
  <1>1. d.gen \in Nat /\ d.rev \in Nat
    BY DEF Desks
  <1>2. OrderOf(eq, sk, mm, d.gen, d.rev) /\ GroundOf(eq, sk, mm, d.follows, d.gen)
    BY DEF PipelineOf
  <1>3. Stream(x) => x.gen = d.gen /\ x.rev = d.rev
    OBVIOUS
  <1>4. OrderOf(eq, Append(sk, x), mm, d.gen, d.rev)
    BY <1>1, <1>2, <1>3, OrderAppends
  <1>5. /\ x.k = "patch" => d.follows /\ x.gen = d.gen
        /\ e.follows => d.follows \/ (x.k = "snap" /\ x.gen = d.gen)
    BY DEF Stream
  <1>6. GroundOf(eq, Append(sk, x), mm, e.follows, d.gen)
    BY <1>2, <1>5, GroundAppends
  <1>7. PICK H \in Histories : Agrees(H, eq, sk, mm, d)
    BY DEF PipelineOf
  <1>8. Tells(x, H)
    BY <1>7 DEF Tells, Agrees, Stream
  <1>9. Agrees(H, eq, Append(sk, x), mm, d)
    BY <1>7, <1>8, HistoryAppends
  <1>10. Agrees(H, eq, Append(sk, x), mm, e)
    BY <1>9 DEF Agrees
  <1> QED
    BY <1>4, <1>6, <1>10 DEF PipelineOf

\* Another owner: a later revision, and no follower until it is asked.
LEMMA PipelineReborn ==
    ASSUME NEW eq \in Seq(InMessages), NEW sk \in Seq(InMessages), NEW mm,
           mm.gen \in Nat, mm.rev \in Nat,
           NEW d \in Desks, NEW e \in Desks, PipelineOf(eq, sk, mm, d),
           e.gen = d.gen + 1, e.rev = 0, ~e.follows
    PROVE  PipelineOf(eq, sk, mm, e)
  <1>1. d.gen \in Nat /\ d.rev \in Nat /\ e.gen \in Nat /\ e.rev \in Nat
    BY DEF Desks
  <1>2. OrderOf(eq, sk, mm, d.gen, d.rev) /\ GroundOf(eq, sk, mm, d.follows, d.gen)
    BY DEF PipelineOf
  <1>3. NotAfter(d.gen, d.rev, e.gen, e.rev) /\ ~NotAfter(e.gen, e.rev, d.gen, d.rev)
    <2>1. NotAfter(d.gen, d.rev, d.gen + 1, 0)
      BY <1>1, NotAfterNext
    <2>2. ~NotAfter(d.gen + 1, 0, d.gen, d.rev)
      BY <1>1, NextIsLater
    <2> QED
      BY <2>1, <2>2
  <1>4. OrderOf(eq, sk, mm, e.gen, e.rev)
    BY <1>1, <1>2, <1>3, OrderAdvances
  <1>5. GroundOf(eq, sk, mm, e.follows, e.gen)
    BY <1>2 DEF GroundOf
  <1>6. PICK H \in Histories : Agrees(H, eq, sk, mm, d)
    BY DEF PipelineOf
  <1>7. \E I \in Histories : Agrees(I, eq, sk, mm, e) /\ I[d.gen][d.rev] = d.st
    BY <1>2, <1>3, <1>6, HistoryMovesOn
  <1> QED
    BY <1>4, <1>5, <1>7 DEF PipelineOf

\* The reader takes a message out of the socket: it drops a response, and puts
\* anything else into the event queue.
LEMMA PipelineReads ==
    ASSUME NEW eq \in Seq(InMessages), NEW sk \in Seq(InMessages), NEW mm, NEW d,
           PipelineOf(eq, sk, mm, d), sk # <<>>
    PROVE  /\ Head(sk).k = "resp" => PipelineOf(eq, Tail(sk), mm, d)
           /\ PipelineOf(Append(eq, Head(sk)), Tail(sk), mm, d)
  <1>1. OrderOf(eq, sk, mm, d.gen, d.rev) /\ GroundOf(eq, sk, mm, d.follows, d.gen)
    BY DEF PipelineOf
  <1>2. PICK H \in Histories : Agrees(H, eq, sk, mm, d)
    BY DEF PipelineOf
  <1>3. Agrees(H, eq, Tail(sk), mm, d) /\ Agrees(H, Append(eq, Head(sk)), Tail(sk), mm, d)
    BY <1>2, HistoryMoves
  <1>4. OrderOf(eq, Tail(sk), mm, d.gen, d.rev)
    BY <1>1, OrderDrops
  <1>5. OrderOf(Append(eq, Head(sk)), Tail(sk), mm, d.gen, d.rev)
    BY <1>1, OrderMoves
  <1>6. Head(sk).k = "resp" => GroundOf(eq, Tail(sk), mm, d.follows, d.gen)
    BY <1>1, GroundDrops
  <1>7. GroundOf(Append(eq, Head(sk)), Tail(sk), mm, d.follows, d.gen)
    BY <1>1, GroundMoves
  <1> QED
    BY <1>3, <1>4, <1>5, <1>6, <1>7 DEF PipelineOf

\* The pump passes over what it does not apply.
LEMMA PipelineSkips ==
    ASSUME NEW eq \in Seq(InMessages), NEW sk \in Seq(InMessages), NEW mm, NEW d,
           PipelineOf(eq, sk, mm, d), eq # <<>>, Head(eq).k # "snap"
    PROVE  PipelineOf(Tail(eq), sk, mm, d)
  <1>1. OrderOf(eq, sk, mm, d.gen, d.rev) /\ GroundOf(eq, sk, mm, d.follows, d.gen)
    BY DEF PipelineOf
  <1>2. PICK H \in Histories : Agrees(H, eq, sk, mm, d)
    BY DEF PipelineOf
  <1>3. Agrees(H, Tail(eq), sk, mm, d)
    BY <1>2, HistoryTakes
  <1>4. OrderOf(Tail(eq), sk, mm, d.gen, d.rev)
    BY <1>1, OrderTakes
  <1>5. GroundOf(Tail(eq), sk, mm, d.follows, d.gen)
    BY <1>1, GroundSkips
  <1> QED
    BY <1>3, <1>4, <1>5 DEF PipelineOf

\* The pump applies a snapshot, or a patch whose base is the mapper's revision:
\* it is then of the mapper's owner as well, since a patch is grounded.
LEMMA PipelineApplies ==
    ASSUME NEW eq \in Seq(InMessages), NEW sk \in Seq(InMessages), NEW mm, NEW n,
           NEW d \in Desks, PipelineOf(eq, sk, mm, d), eq # <<>>,
           mm.gen \in Nat, mm.rev \in Nat,
           n.has, n.gen = Head(eq).gen, n.rev = Head(eq).rev,
           \/ Head(eq).k = "snap" /\ n.st = Head(eq).st
           \/ /\ Head(eq).k = "patch" /\ mm.has /\ mm.rev = Head(eq).base
              /\ n.st = ApplyImmerPatches(mm.st, Head(eq).p)
    PROVE  PipelineOf(Tail(eq), sk, n, d)
  <1>1. OrderOf(eq, sk, mm, d.gen, d.rev) /\ GroundOf(eq, sk, mm, d.follows, d.gen)
    BY DEF PipelineOf
  <1>2. PICK H \in Histories : Agrees(H, eq, sk, mm, d)
    BY DEF PipelineOf
  <1>3. Stream(Head(eq)) /\ d.gen \in Nat /\ d.rev \in Nat
    BY DEF Stream, Desks
  <1>4. Head(eq).k = "patch" => Head(eq).gen \in Known(mm)
    <2>1. Grounded(eq, Known(mm))
      BY <1>1 DEF GroundOf
    <2>2. 1 \in DOMAIN eq /\ Head(eq) = eq[1] /\ \A j \in DOMAIN eq : ~(j < 1)
      OBVIOUS
    <2> QED
      BY <2>1, <2>2 DEF Grounded
  <1>5. Head(eq).k = "patch" => mm.gen = Head(eq).gen
    BY <1>4 DEF Known
  <1>6. Agrees(H, Tail(eq), sk, n, d)
    BY <1>2, <1>5, HistoryTakes
  <1>7. OrderOf(Tail(eq), sk, n, d.gen, d.rev)
    BY <1>1, <1>3, OrderTakes
  <1>8. GroundOf(Tail(eq), sk, n, d.follows, d.gen)
    BY <1>1, <1>3, GroundTakes
  <1> QED
    BY <1>6, <1>7, <1>8 DEF PipelineOf

\* With a new client nothing is on its way.
LEMMA PipelineStartsOver ==
    ASSUME NEW eq \in Seq(InMessages), NEW sk \in Seq(InMessages), NEW mm, NEW d,
           PipelineOf(eq, sk, mm, d), ~d.follows
    PROVE  PipelineOf(<<>>, <<>>, mm, d)
  <1>1. Range(<<>>) = {} /\ DOMAIN <<>> = {}
    BY RangeEmpty
  <1>2. PICK e : e = <<>>
    OBVIOUS
  <1>3. Range(e) = {} /\ DOMAIN e = {}
    BY <1>1, <1>2
  <1>4. OrderOf(e, e, mm, d.gen, d.rev)
    BY <1>3 DEF PipelineOf, OrderOf, Ordered, UpTo, From
  <1>5. GroundOf(e, e, mm, d.follows, d.gen)
    BY <1>3 DEF GroundOf, Grounded
  <1>6. \E H \in Histories : Agrees(H, e, e, mm, d)
    BY <1>3 DEF PipelineOf, Agrees
  <1> QED
    BY <1>2, <1>4, <1>5, <1>6 DEF PipelineOf

\* What Desktop does keeps the pipeline in order, grounded and of one history.
LEMMA PipelineDesk ==
    ASSUME Shape, Shape', Pipeline,
           \/ \E p \in Steps(desk.st) : DeskChanges(p)
           \/ DeskHandles \/ DeskQuits \/ DeskStarts \/ DeskChangesOwner
    PROVE  Pipeline'
  <1>1. /\ evq \in Seq(InMessages) /\ sock \in Seq(InMessages)
        /\ desk \in Desks /\ m.gen \in Nat /\ m.rev \in Nat
    BY PipelineTypes
  <1>2. desk' \in Desks
    BY DEF Shape
  <1>3. PICK e \in Desks : e = desk'
    BY <1>2
  <1>4. PipelineOf(evq, sock, m, desk)
    BY PipelineIs
  <1>5. ASSUME NEW p \in Steps(desk.st), DeskChanges(p) PROVE Pipeline'
    BY <1>5, PipelineChanges
  <1>6. CASE DeskHandles
    <2>1. UNCHANGED <<evq, m>>
      BY <1>6, DeskHandlesStep
    <2>2. e.gen = desk.gen /\ e.rev = desk.rev /\ e.st = desk.st
      <3>1. desk' = desk \/ desk' = [desk EXCEPT !.follows = TRUE]
        BY <1>6, DeskHandlesStep
      <3> QED
        BY <1>1, <1>3, <3>1 DEF Desks
    <2>3. PICK s \in InMessages : s = Snapshot
      BY MessageTypes DEF InMessages
    <2>4. /\ s.k = "snap" /\ s.gen = desk.gen /\ s.rev = desk.rev /\ s.st = desk.st
      BY <2>3 DEF Snapshot
    <2>5. \/ sock' = sock /\ e = desk
          \/ sock' = Append(sock, s)
          \/ \E x \in Responses : sock' = Append(sock, x) /\ e = desk
          \/ \E x \in Responses : sock' = Append(Append(sock, x), s) /\ e = desk
      BY <1>3, <1>6, <2>3, DeskHandlesStep
    <2>6. \A x \in Responses : x \in InMessages /\ ~Stream(x)
      BY DEF InMessages, Responses, Stream
    <2>7. ASSUME NEW x \in Responses
          PROVE  PipelineOf(evq, Append(sock, x), m, desk) /\ Append(sock, x) \in Seq(InMessages)
      <3>1. x \in InMessages /\ ~Stream(x)
        BY <2>6, <2>7
      <3> QED
        BY <1>1, <1>4, <3>1, PipelineSends, AppendAt
    <2>8. ASSUME NEW q \in Seq(InMessages), PipelineOf(evq, q, m, desk)
          PROVE  PipelineOf(evq, Append(q, s), m, e)
      BY <1>1, <2>2, <2>4, <2>8, PipelineSends
    <2>9. PipelineOf(evq, sock', m, e)
      BY <1>1, <1>4, <2>5, <2>7, <2>8
    <2> QED
      BY <1>3, <2>1, <2>9, PipelineIsNext
  <1>7. ASSUME desk' = Reborn \/ desk' = [Reborn EXCEPT !.up = FALSE]
        PROVE  e.gen = desk.gen + 1 /\ e.rev = 0 /\ ~e.follows
    <2>1. PICK d : d = Reborn
      OBVIOUS
    <2>2. d \in Desks /\ d.gen = desk.gen + 1 /\ d.rev = 0 /\ ~d.follows
      BY <1>1, <2>1, RebornDesk DEF Reborn
    <2>3. desk' = d \/ desk' = [d EXCEPT !.up = FALSE]
      BY <1>7, <2>1
    <2> QED
      BY <1>3, <2>2, <2>3 DEF Desks
  <1>8. CASE DeskQuits
    <2>1. desk' = [Reborn EXCEPT !.up = FALSE] /\ UNCHANGED <<evq, sock, m>>
      BY <1>8 DEF DeskQuits
    <2>2. e.gen = desk.gen + 1 /\ e.rev = 0 /\ ~e.follows
      BY <1>7, <2>1
    <2>3. PipelineOf(evq, sock, m, e)
      BY <1>1, <1>4, <2>2, PipelineReborn
    <2> QED
      BY <1>3, <2>1, <2>3, PipelineIsNext
  <1>9. CASE DeskStarts
    <2>1. desk' = [desk EXCEPT !.up = TRUE] /\ UNCHANGED <<evq, sock, m>>
      BY <1>9 DEF DeskStarts
    <2>2. /\ desk'.gen = desk.gen /\ desk'.rev = desk.rev /\ desk'.st = desk.st
          /\ desk'.follows = desk.follows
      BY <1>1, <2>1 DEF Desks
    <2> QED
      BY <2>1, <2>2, PipelineKept
  <1>10. CASE DeskChangesOwner
    <2>1. /\ desk' = Reborn /\ UNCHANGED <<evq, m>>
          /\ sock' = IF wire THEN Append(sock, [k |-> "status"]) ELSE sock
      BY <1>10 DEF DeskChangesOwner
    <2>2. e.gen = desk.gen + 1 /\ e.rev = 0 /\ ~e.follows
      BY <1>7, <2>1
    <2>3. PipelineOf(evq, sock, m, e)
      BY <1>1, <1>4, <2>2, PipelineReborn
    <2>4. PICK x \in InMessages : x = [k |-> "status"]
      BY MessageTypes
    <2>5. ~Stream(x)
      BY <2>4 DEF Stream
    <2>6. PipelineOf(evq, Append(sock, x), m, e)
      BY <1>1, <2>3, <2>5, PipelineSends
    <2> QED
      BY <1>3, <2>1, <2>3, <2>4, <2>6, PipelineIsNext
  <1> QED
    BY <1>5, <1>6, <1>8, <1>9, <1>10

\* So do the reader, the pump and a new client.
LEMMA PipelineClient ==
    ASSUME Shape, Shape', Pipeline,
           \/ ReaderDispatches \/ ReaderEnds \/ PumpTakes \/ PumpHandsOut \/ Attach
           \/ \E c \in Callers : RequestTimesOut(c)
           \/ \E i \in Turns : PumpFlushes(i)
    PROVE  Pipeline'
  <1>1. /\ evq \in Seq(InMessages) /\ sock \in Seq(InMessages)
        /\ desk \in Desks /\ m.gen \in Nat /\ m.rev \in Nat
    BY PipelineTypes
  <1>2. PipelineOf(evq, sock, m, desk)
    BY PipelineIs
  <1>3. CASE ReaderDispatches
    <2>1. /\ sock # <<>> /\ sock' = Tail(sock) /\ UNCHANGED <<desk, m>>
          /\ \/ Head(sock).k = "resp" /\ evq' = evq
             \/ evq' = Append(evq, Head(sock))
      BY <1>3 DEF ReaderDispatches
    <2>2. /\ Head(sock).k = "resp" => PipelineOf(evq, Tail(sock), m, desk)
          /\ PipelineOf(Append(evq, Head(sock)), Tail(sock), m, desk)
      BY <1>1, <1>2, <2>1, PipelineReads
    <2> QED
      BY <2>1, <2>2, PipelineIsNext
  <1>4. CASE PumpTakes
    <2>1. PICK n : n = m'
      OBVIOUS
    <2>2. /\ evq # <<>> /\ evq' = Tail(evq) /\ UNCHANGED <<desk, sock>>
          /\ \/ Head(evq).k = "snap" /\ Take(Head(evq).gen, Head(evq).rev, Head(evq).st)
             \/ /\ Head(evq).k = "patch" /\ m.has /\ m.rev = Head(evq).base
                /\ Take(Head(evq).gen, Head(evq).rev, ApplyImmerPatches(m.st, Head(evq).p))
             \/ Head(evq).k # "snap" /\ m' = m
      BY <1>4, PumpTakesStep
    <2>3. CASE Head(evq).k = "snap" /\ Take(Head(evq).gen, Head(evq).rev, Head(evq).st)
      <3>1. /\ n.has /\ n.gen = Head(evq).gen /\ n.rev = Head(evq).rev /\ n.st = Head(evq).st
        BY <2>1, <2>3, TakeStep
      <3>2. PipelineOf(Tail(evq), sock, n, desk)
        BY <1>1, <1>2, <2>2, <2>3, <3>1, PipelineApplies
      <3> QED
        BY <2>1, <2>2, <3>2, PipelineIsNext
    <2>4. CASE /\ Head(evq).k = "patch" /\ m.has /\ m.rev = Head(evq).base
               /\ Take(Head(evq).gen, Head(evq).rev, ApplyImmerPatches(m.st, Head(evq).p))
      <3>1. /\ n.has /\ n.gen = Head(evq).gen /\ n.rev = Head(evq).rev
            /\ n.st = ApplyImmerPatches(m.st, Head(evq).p)
        BY <2>1, <2>4, TakeStep
      <3>2. PipelineOf(Tail(evq), sock, n, desk)
        BY <1>1, <1>2, <2>2, <2>4, <3>1, PipelineApplies
      <3> QED
        BY <2>1, <2>2, <3>2, PipelineIsNext
    <2>5. CASE Head(evq).k # "snap" /\ m' = m
      <3>1. PipelineOf(Tail(evq), sock, m, desk)
        BY <1>1, <1>2, <2>2, <2>5, PipelineSkips
      <3> QED
        BY <2>2, <2>5, <3>1, PipelineIsNext
    <2> QED
      BY <2>2, <2>3, <2>4, <2>5
  <1>5. CASE Attach
    <2>1. /\ ~open /\ sock' = <<>> /\ evq' = <<>> /\ UNCHANGED <<desk, m>>
      BY <1>5 DEF Attach, Detached, NewClient
    <2>2. ~desk.follows
      BY <2>1 DEF Shape
    <2>3. PipelineOf(<<>>, <<>>, m, desk)
      BY <1>1, <1>2, <2>2, PipelineStartsOver
    <2> QED
      BY <2>1, <2>3, PipelineIsNext
  <1>6. ASSUME NEW i \in Turns, PumpFlushes(i) PROVE Pipeline'
    <2>1. m' = [m EXCEPT !.pend[i] = NoPending] /\ UNCHANGED <<desk, sock, evq>>
      BY <1>6 DEF PumpFlushes, Hand, FlushDue
    <2>2. m'.has = m.has /\ m'.rev = m.rev /\ m'.gen = m.gen /\ m'.st = m.st
      BY <2>1 DEF Shape
    <2> QED
      BY <2>1, <2>2, PipelineKept
  <1>7. CASE ReaderEnds \/ PumpHandsOut \/ \E c \in Callers : RequestTimesOut(c)
    <2>1. UNCHANGED <<desk, sock, evq, m>>
      BY <1>7 DEF ReaderEnds, PumpHandsOut, RequestTimesOut
    <2> QED
      BY <2>1, PipelineKept
  <1> QED
    BY <1>3, <1>4, <1>5, <1>6, <1>7

\* The watcher and a refresh leave it alone; so every step keeps the pipeline.
LEMMA PipelineStep ==
    ASSUME Shape, Shape', Pipeline, [Next]_vars
    PROVE  Pipeline'
  <1>1. CASE \/ WatcherTakes \/ WatcherGoesOn \/ Subscribe
             \/ RefreshStarts \/ RefreshAsks \/ RefreshEnds \/ UNCHANGED vars
    <2>1. UNCHANGED <<desk, sock, evq, m>>
      BY <1>1 DEF WatcherTakes, WatcherGoesOn, Subscribe, RefreshStarts, RefreshAsks,
                  RefreshEnds, vars
    <2> QED
      BY <2>1, PipelineKept
  <1> QED
    BY <1>1, PipelineDesk, PipelineClient DEF Next, BridgeSteps

-----------------------------------------------------------------------------
(* The way to Desktop's state.                                             *)

\* The disjuncts of CatchesUp, for what is in the queues.
Way(out, in, mm, d) ==
    \/ \E x \in out : x.k = "follow"
    \/ \E x \in in : x.k = "status"
    \/ /\ d.follows
       /\ \/ \E x \in out : PumpLoad(x)
          \/ \E x \in in : Stream(x) /\ x.gen = d.gen /\ x.rev = d.rev
          \/ AtDesk(mm, d.gen, d.rev)

\* They are the ones of CatchesUp.
LEMMA CatchesUpIs ==
    CatchesUp <=> (wire /\ following /\ gap = "none" /\ ~astray =>
                     Way(Range(outq), Range(evq) \cup Range(sock), m, desk))
  BY DEF CatchesUp, Way, Has, Brings

\* The same after a step.
LEMMA CatchesUpIsNext ==
    CatchesUp' <=> (wire' /\ following' /\ gap' = "none" /\ ~astray' =>
                      Way(Range(outq'), Range(evq') \cup Range(sock'), m', desk'))
  BY DEF CatchesUp, Way, Has, Brings

\* A step under which nothing is lost that matters.
LEMMA CatchesUpKept ==
    ASSUME CatchesUp, wire' => wire, following' => following, astray => astray',
           gap' = "none" => gap = "none",
           desk'.gen = desk.gen, desk'.rev = desk.rev, desk.follows => desk'.follows,
           \A x \in Range(outq) : x.k = "follow" \/ PumpLoad(x) => x \in Range(outq'),
           \A x \in Range(evq) \cup Range(sock) :
               Stream(x) \/ x.k = "status" => x \in Range(evq') \cup Range(sock'),
           AtDesk(m, desk.gen, desk.rev) => AtDesk(m', desk.gen, desk.rev)
    PROVE  CatchesUp'
  <1>1. SUFFICES ASSUME wire', following', gap' = "none", ~astray'
                 PROVE  Way(Range(outq'), Range(evq') \cup Range(sock'), m', desk')
    BY CatchesUpIsNext
  <1>2. Way(Range(outq), Range(evq) \cup Range(sock), m, desk)
    BY <1>1, CatchesUpIs
  <1> QED
    BY <1>2 DEF Way

\* What Desktop does: it tells a follower each change or the change cannot be
\* parsed, a request for the history brings it or fails, and another owner is announced.
LEMMA CatchesUpDesk ==
    ASSUME Shape, Shape', CatchesUp,
           \/ \E p \in Steps(desk.st) : DeskChanges(p)
           \/ DeskHandles \/ DeskQuits \/ DeskStarts \/ DeskChangesOwner
    PROVE  CatchesUp'
  <1>1. /\ evq \in Seq(InMessages) /\ sock \in Seq(InMessages) /\ outq \in Seq(OutMessages)
        /\ desk \in Desks
    BY PipelineTypes
  <1>2. ASSUME NEW q \in Seq(InMessages), NEW x \in InMessages
        PROVE  Append(q, x) \in Seq(InMessages) /\ Range(Append(q, x)) = Range(q) \cup {x}
    BY AppendAt
  <1>3. PICK s \in InMessages : s = Snapshot
    BY MessageTypes DEF InMessages
  <1>4. Stream(s) /\ s.gen = desk.gen /\ s.rev = desk.rev
    BY <1>3 DEF Snapshot, Stream
  <1>5. ASSUME NEW p \in Steps(desk.st), DeskChanges(p) PROVE CatchesUp'
    <2>1. /\ \/ ~desk.follows /\ sock' = sock /\ gap' = gap
             \/ /\ desk.follows
                /\ \E x \in Snaps \cup Diffs :
                      sock' = Append(sock, x) /\ x.gen = desk.gen /\ x.rev = desk.rev + 1
             \/ gap' # "none"
          /\ UNCHANGED <<outq, evq, wire, following, astray, m>>
      BY <1>5, DeskChangesStep
    <2>2. /\ desk'.follows = desk.follows
          /\ desk'.gen = desk.gen /\ desk'.rev = desk.rev + 1
      <3>1. PICK st \in State : st = ApplyImmerPatches(desk.st, p)
        BY <1>5, DeskChangesStep
      <3>2. desk' = [desk EXCEPT !.rev = @ + 1, !.st = st]
        BY <1>5, <3>1, DeskChangesStep
      <3> QED
        BY <3>2, ChangedDesk
    <2>3. CASE ~desk.follows /\ sock' = sock /\ gap' = gap
      BY <2>1, <2>2, <2>3, CatchesUpIs, CatchesUpIsNext DEF Way
    <2>4. ASSUME desk.follows, NEW x \in Snaps \cup Diffs, sock' = Append(sock, x),
                 x.gen = desk.gen, x.rev = desk.rev + 1
          PROVE  CatchesUp'
      <3>1. x \in InMessages /\ Stream(x)
        BY <2>4 DEF InMessages, Snaps, Diffs, Stream
      <3>2. x \in Range(sock')
        BY <1>1, <1>2, <2>4, <3>1
      <3> QED
        BY <2>2, <2>4, <3>1, <3>2, CatchesUpIsNext DEF Way
    <2>5. CASE gap' # "none"
      BY <2>5, CatchesUpIsNext
    <2> QED
      BY <2>1, <2>3, <2>4, <2>5
  <1>6. CASE DeskHandles
    <2>1. /\ outq # <<>> /\ outq' = Tail(outq)
          /\ UNCHANGED <<evq, wire, following, astray, m>>
      BY <1>6, DeskHandlesStep
    <2>2. Range(outq) = {Head(outq)} \cup Range(outq')
      BY <1>1, <2>1, TailAt
    <2>3. \A x \in Responses : x \in InMessages
      BY DEF InMessages
    <2>4. CASE Head(outq).k = "follow"
      <3>1. desk' = [desk EXCEPT !.follows = TRUE] /\ sock' = Append(sock, s)
        BY <1>3, <1>6, <2>4, DeskHandlesStep
      <3>2. desk'.follows /\ desk'.gen = desk.gen /\ desk'.rev = desk.rev
        BY <1>1, <3>1 DEF Desks
      <3>3. s \in Range(sock')
        BY <1>1, <1>2, <3>1
      <3> QED
        BY <1>4, <3>2, <3>3, CatchesUpIsNext DEF Way
    <2>5. CASE Head(outq).k = "owner"
      <3>1. desk' = desk /\ gap' = gap /\ \E x \in Responses : sock' = Append(sock, x)
        BY <1>6, <2>5, DeskHandlesStep
      <3>2. Range(sock) \subseteq Range(sock')
        BY <1>1, <1>2, <2>3, <3>1
      <3> QED
        BY <2>1, <2>2, <2>5, <3>1, <3>2, CatchesUpKept DEF PumpLoad
    <2>6. CASE Head(outq).k = "load" /\ desk.follows /\ sock' # sock
      <3>1. /\ desk' = desk
            /\ \/ sock' = Append(sock, s)
               \/ \E x \in Responses : sock' = Append(Append(sock, x), s)
        BY <1>3, <1>6, <2>6, DeskHandlesStep
      <3>2. s \in Range(sock')
        <4>1. ASSUME NEW x \in Responses, sock' = Append(Append(sock, x), s)
              PROVE  s \in Range(sock')
          <5>1. Append(sock, x) \in Seq(InMessages)
            BY <1>1, <1>2, <2>3, <4>1
          <5> QED
            BY <1>2, <4>1, <5>1
        <4> QED
          BY <1>1, <1>2, <3>1, <4>1
      <3> QED
        BY <1>4, <2>6, <3>1, <3>2, CatchesUpIsNext DEF Way
    <2>7. CASE Head(outq).k = "load" /\ gap' = gap /\ ~desk.follows
      <3>1. /\ desk' = desk
            /\ sock' = sock \/ \E x \in Responses : sock' = Append(sock, x)
        BY <1>6, <2>7, DeskHandlesStep
      <3>2. Range(sock) \subseteq Range(sock')
        BY <1>1, <1>2, <2>3, <3>1
      <3>3. \A x \in Range(outq) : x.k = "follow" => x \in Range(outq')
        BY <2>2, <2>7
      <3> QED
        BY <2>1, <2>7, <3>1, <3>2, <3>3, CatchesUpIs, CatchesUpIsNext DEF Way
    <2>8. CASE gap' # "none"
      BY <2>8, CatchesUpIsNext
    <2>9. CASE /\ Head(outq).k = "load" /\ Head(outq).c = "r"
               /\ desk' = desk /\ gap' = gap /\ sock' = sock
      <3>1. ~PumpLoad(Head(outq)) /\ Head(outq).k # "follow"
        BY <2>9 DEF PumpLoad
      <3>2. \A x \in Range(outq) : x.k = "follow" \/ PumpLoad(x) => x \in Range(outq')
        BY <2>2, <3>1
      <3> QED
        BY <2>1, <2>9, <3>2, CatchesUpKept
    <2>10. \/ Head(outq).k = "follow"
           \/ Head(outq).k = "owner"
           \/ Head(outq).k = "load" /\ desk.follows /\ sock' # sock
           \/ Head(outq).k = "load" /\ gap' = gap /\ ~desk.follows
           \/ gap' # "none"
           \/ /\ Head(outq).k = "load" /\ Head(outq).c = "r"
              /\ desk' = desk /\ gap' = gap /\ sock' = sock
      <3>1. ASSUME NEW x \in InMessages
            PROVE  sock # Append(sock, x) /\ sock # Append(Append(sock, x), s)
        <4>1. Len(Append(sock, x)) = Len(sock) + 1 /\ Append(sock, x) \in Seq(InMessages)
          BY <1>1, <1>2
        <4>2. Len(Append(Append(sock, x), s)) = Len(Append(sock, x)) + 1
          BY <4>1
        <4>3. Len(sock) \in Nat
          BY <1>1
        <4> QED
          BY <4>1, <4>2, <4>3
      <3> QED
        BY <1>3, <1>6, <2>3, <3>1, DeskHandlesStep
    <2> QED
      BY <2>4, <2>5, <2>6, <2>7, <2>8, <2>9, <2>10
  <1>7. CASE DeskQuits \/ DeskStarts
    <2>1. ~wire'
      BY <1>7 DEF DeskQuits, DeskStarts, link, Shape
    <2> QED
      BY <2>1, CatchesUpIsNext
  <1>8. CASE DeskChangesOwner
    <2>1. wire' = wire /\ sock' = IF wire THEN Append(sock, [k |-> "status"]) ELSE sock
      BY <1>8 DEF DeskChangesOwner, link
    <2>2. PICK x \in InMessages : x = [k |-> "status"]
      BY MessageTypes
    <2>3. x.k = "status"
      BY <2>2
    <2>4. wire => x \in Range(sock')
      BY <1>1, <1>2, <2>1, <2>2
    <2> QED
      BY <2>1, <2>3, <2>4, CatchesUpIsNext DEF Way
  <1> QED
    BY <1>5, <1>6, <1>7, <1>8

\* The reader, the pump and a new client: a change the pump takes brings the
\* mapper to Desktop's revision or leaves it there, since the changes come in
\* order; for one it cannot apply it asks for the history.
LEMMA CatchesUpClient ==
    ASSUME Shape, Shape', Pipeline, CatchesUp,
           \/ ReaderDispatches \/ ReaderEnds \/ PumpTakes \/ PumpHandsOut \/ Attach
           \/ \E c \in Callers : RequestTimesOut(c)
           \/ \E i \in Turns : PumpFlushes(i)
    PROVE  CatchesUp'
  <1>1. /\ evq \in Seq(InMessages) /\ sock \in Seq(InMessages) /\ outq \in Seq(OutMessages)
        /\ desk.gen \in Nat /\ desk.rev \in Nat /\ m.gen \in Nat /\ m.rev \in Nat
    BY PipelineTypes
  <1>2. CASE ReaderDispatches
    <2>1. /\ sock # <<>> /\ sock' = Tail(sock)
          /\ \/ Head(sock).k = "resp" /\ evq' = evq
             \/ evq' = Append(evq, Head(sock))
          /\ UNCHANGED <<desk, wire, outq, m, following, gap, astray>>
      BY <1>2 DEF ReaderDispatches, link, history
    <2>2. Head(sock) \in InMessages /\ Range(sock) = {Head(sock)} \cup Range(sock')
      BY <1>1, <2>1, TailAt
    <2>3. Range(Append(evq, Head(sock))) = Range(evq) \cup {Head(sock)}
      BY <1>1, <2>2, AppendAt
    <2>4. \A x \in Range(evq) \cup Range(sock) :
              Stream(x) \/ x.k = "status" => x \in Range(evq') \cup Range(sock')
      BY <2>1, <2>2, <2>3 DEF Stream
    <2> QED
      BY <2>1, <2>4, CatchesUpKept
  <1>3. CASE PumpTakes
    <2>1. /\ evq # <<>> /\ Head(evq) \in InMessages /\ evq' = Tail(evq)
          /\ UNCHANGED <<desk, wire, conn, sock, following, gap, astray>>
      BY <1>3, PumpTakesStep
    <2>2. Range(evq) = {Head(evq)} \cup Range(evq')
      BY <1>1, <2>1, TailAt
    <2>3. ASSUME Stream(Head(evq)), outq' = outq, m'.has,
                 m'.gen = Head(evq).gen, m'.rev = Head(evq).rev
          PROVE  CatchesUp'
      <3>1. Head(evq).gen \in Nat /\ Head(evq).rev \in Nat
        BY <2>1, <2>3, StreamType
      <3>2. OrderOf(evq, sock, m, desk.gen, desk.rev)
        BY DEF Pipeline, InOrder
      <3>3. /\ NotAfter(Head(evq).gen, Head(evq).rev, desk.gen, desk.rev)
            /\ m.has => NotAfter(m.gen, m.rev, Head(evq).gen, Head(evq).rev)
        BY <2>2, <2>3, <3>2 DEF OrderOf, UpTo, From
      <3>4. AtDesk(m, desk.gen, desk.rev) =>
                Head(evq).gen = desk.gen /\ Head(evq).rev = desk.rev
        BY <1>1, <3>1, <3>3, NotAfterSame DEF AtDesk
      <3>5. Head(evq).gen = desk.gen /\ Head(evq).rev = desk.rev =>
                AtDesk(m', desk.gen, desk.rev)
        BY <2>3 DEF AtDesk
      <3>6. Head(evq).k # "status"
        BY <2>3 DEF Stream
      <3>7. SUFFICES ASSUME wire', following', gap' = "none", ~astray'
                     PROVE  Way(Range(outq'), Range(evq') \cup Range(sock'), m', desk')
        BY CatchesUpIsNext
      <3>8. Way(Range(outq), Range(evq) \cup Range(sock), m, desk)
        BY <2>1, <3>7, CatchesUpIs
      <3> QED
        BY <2>1, <2>2, <2>3, <3>4, <3>5, <3>6, <3>8 DEF Way
    <2>4. CASE Head(evq).k = "snap" /\ Take(Head(evq).gen, Head(evq).rev, Head(evq).st)
      BY <2>3, <2>4, TakeStep DEF Stream
    <2>5. CASE /\ Head(evq).k = "patch"
               /\ Take(Head(evq).gen, Head(evq).rev, ApplyImmerPatches(m.st, Head(evq).p))
      <3>1. PICK st : st = ApplyImmerPatches(m.st, Head(evq).p)
        OBVIOUS
      <3>2. Take(Head(evq).gen, Head(evq).rev, st)
        BY <2>5, <3>1
      <3> QED
        BY <2>3, <2>5, <3>2, TakeStep DEF Stream
    <2>6. ASSUME NEW x \in OutMessages, outq' = Sent(conn, <<x>>)
          PROVE  Range(outq) \subseteq Range(outq') /\ (wire => x \in Range(outq'))
      <3>1. <<x>> \in Seq(OutMessages)
        OBVIOUS
      <3>2. Range(<<x>>) = {x}
        BY RangeFew
      <3> QED
        BY <2>6, <3>1, <3>2, SentRange
    <2>7. CASE Head(evq).k = "patch" /\ m' = m /\ outq' = Sent(conn, <<LoadRequest("l", 0)>>)
      <3>1. PICK x \in OutMessages : x = LoadRequest("l", 0)
        BY MessageTypes
      <3>2. PumpLoad(x) /\ Range(outq) \subseteq Range(outq') /\ (wire => x \in Range(outq'))
        BY <2>6, <2>7, <3>1 DEF LoadRequest, PumpLoad
      <3>3. SUFFICES ASSUME wire', following', gap' = "none", ~astray'
                     PROVE  Way(Range(outq'), Range(evq') \cup Range(sock'), m', desk')
        BY CatchesUpIsNext
      <3>4. Way(Range(outq), Range(evq) \cup Range(sock), m, desk) /\ wire
        BY <2>1, <3>3, CatchesUpIs
      <3> QED
        BY <2>1, <2>2, <2>7, <3>2, <3>4 DEF Way
    <2>8. CASE /\ Head(evq).k = "status"
               /\ outq' = IF following THEN Sent(conn, <<FollowMessage>>) ELSE outq
      <3>1. PICK x \in OutMessages : x = FollowMessage
        BY MessageTypes
      <3>2. x.k = "follow" /\ (wire /\ following => x \in Range(outq'))
        BY <2>6, <2>8, <3>1 DEF FollowMessage
      <3> QED
        BY <2>1, <3>2, CatchesUpIsNext DEF Way
    <2>9. CASE Head(evq).k = "bad" /\ m' = m /\ outq' = outq
      <3>1. \A x \in Range(evq) \cup Range(sock) :
                Stream(x) \/ x.k = "status" => x \in Range(evq') \cup Range(sock')
        BY <2>1, <2>2, <2>9 DEF Stream
      <3> QED
        BY <2>1, <2>9, <3>1, CatchesUpKept
    <2> QED
      BY <1>3, <2>4, <2>5, <2>7, <2>8, <2>9, PumpTakesStep
  <1>4. CASE Attach
    <2>1. outq' = (IF following THEN <<FollowMessage>> ELSE <<>>) /\ following' = following
      BY <1>4 DEF Attach
    <2>2. PICK x : x = FollowMessage
      OBVIOUS
    <2>3. x.k = "follow" /\ Range(<<x>>) = {x}
      BY <2>2, RangeFew DEF FollowMessage
    <2>4. following' => x \in Range(outq')
      BY <2>1, <2>2, <2>3
    <2> QED
      BY <2>3, <2>4, CatchesUpIsNext DEF Way
  <1>5. ASSUME NEW i \in Turns, PumpFlushes(i) PROVE CatchesUp'
    <2>1. /\ m' = [m EXCEPT !.pend[i] = NoPending]
          /\ UNCHANGED <<desk, wire, outq, sock, evq, following, gap, astray>>
      BY <1>5 DEF PumpFlushes, Hand, FlushDue, link, history
    <2>2. AtDesk(m, desk.gen, desk.rev) => AtDesk(m', desk.gen, desk.rev)
      BY <2>1 DEF AtDesk, Shape
    <2> QED
      BY <2>1, <2>2, CatchesUpKept
  <1>6. CASE ReaderEnds \/ PumpHandsOut \/ \E c \in Callers : RequestTimesOut(c)
    <2>1. UNCHANGED <<desk, wire, outq, sock, evq, m, following, gap, astray>>
      BY <1>6 DEF ReaderEnds, PumpHandsOut, RequestTimesOut, link, history
    <2> QED
      BY <2>1, CatchesUpKept
  <1> QED
    BY <1>2, <1>3, <1>4, <1>5, <1>6

\* The watcher, a subscription and a refresh only send more; who marks the
\* session as followed tells Desktop, or is astray.
LEMMA CatchesUpCallers ==
    ASSUME Shape, Shape', CatchesUp,
           \/ WatcherTakes \/ WatcherGoesOn \/ Subscribe
           \/ RefreshStarts \/ RefreshAsks \/ RefreshEnds
    PROVE  CatchesUp'
  <1>1. /\ req \in [Callers -> Requests] /\ "w" \in Callers /\ req["w"] \in Requests
        /\ following \in BOOLEAN
    BY DEF Shape, Callers
  <1>2. PICK f \in OutMessages : f = FollowMessage
    BY MessageTypes
  <1>3. f.k = "follow"
    BY <1>2 DEF FollowMessage
  <1>4. CASE WatcherTakes
    <2>1. /\ outq' = outq \/ outq' = Sent(conn, <<OwnerRequest(req["w"].id + 1)>>)
          /\ UNCHANGED <<desk, wire, sock, evq, m, following, gap, astray>>
      BY <1>4 DEF WatcherTakes, EnsureOwner, link, history
    <2>2. req["w"].id + 1 \in Nat
      BY <1>1 DEF Requests
    <2>3. PICK x \in OutMessages : x = OwnerRequest(req["w"].id + 1)
      BY <2>2, MessageTypes
    <2>4. <<x>> \in Seq(OutMessages)
      OBVIOUS
    <2>5. Range(outq) \subseteq Range(Sent(conn, <<x>>))
      BY <2>4, SentRange
    <2>6. Range(outq) \subseteq Range(outq')
      BY <2>1, <2>3, <2>5
    <2> QED
      BY <2>1, <2>6, CatchesUpKept
  <1>5. CASE Subscribe
    <2>1. outq' = Sent(conn, <<f>>) /\ wire' = wire
      BY <1>2, <1>5 DEF Subscribe, FollowLocked, link
    <2>2. <<f>> \in Seq(OutMessages)
      OBVIOUS
    <2>3. Range(<<f>>) = {f}
      BY RangeFew
    <2>4. wire => f \in Range(outq')
      BY <2>1, <2>2, <2>3, SentRange
    <2> QED
      BY <1>3, <2>1, <2>4, CatchesUpIsNext DEF Way
  <1>6. CASE RefreshAsks
    <2>1. PICK l \in OutMessages : l = LoadRequest("r", 1)
      BY MessageTypes
    <2>2. /\ outq' = Sent(req["r"].h, <<f, l>>)
          /\ astray' = (astray \/ (~following /\ req["r"].h # conn))
          /\ UNCHANGED <<desk, wire, sock, evq, m, gap>>
      BY <1>2, <1>6, <2>1 DEF RefreshAsks, link
    <2>3. <<f, l>> \in Seq(OutMessages) /\ Range(<<f, l>>) = {f, l}
      <3>1. <<f, l>> \in Seq(OutMessages)
        OBVIOUS
      <3>2. Range(<<f, l>>) = {f, l}
        BY RangeFew
      <3> QED
        BY <3>1, <3>2
    <2>4. PICK h : h = req["r"].h
      OBVIOUS
    <2>5. /\ Range(outq) \subseteq Range(Sent(h, <<f, l>>))
          /\ wire /\ h = conn => {f, l} \subseteq Range(Sent(h, <<f, l>>))
      BY <2>3, SentRange
    <2>6. CASE following
      BY <2>2, <2>4, <2>5, <2>6, CatchesUpKept
    <2>7. CASE ~following /\ h # conn
      BY <2>2, <2>4, <2>7, CatchesUpIsNext
    <2>8. CASE h = conn
      <3>1. wire => f \in Range(outq')
        BY <2>2, <2>4, <2>5, <2>8
      <3> QED
        BY <1>3, <2>2, <3>1, CatchesUpIsNext DEF Way
    <2> QED
      BY <1>1, <2>6, <2>7, <2>8
  <1>7. CASE WatcherGoesOn \/ RefreshStarts \/ RefreshEnds
    <2>1. UNCHANGED <<desk, wire, outq, sock, evq, m, following, gap, astray>>
      BY <1>7 DEF WatcherGoesOn, RefreshStarts, RefreshEnds, link, history
    <2> QED
      BY <2>1, CatchesUpKept
  <1> QED
    BY <1>4, <1>5, <1>6, <1>7

\* Once everything sent has been handled, the projection of a followed
\* conversation is Desktop's current state, for every number of changes,
\* restarts and owners and every size of the event queue: a patch is applied
\* only to the state it was made for, and one that does not apply makes the
\* pump ask for the history.  Excused are a latest change that could not be
\* parsed, a history Desktop refused the pump, and a session a refresh marked
\* as followed on a client that was being replaced (apply_patches, pump_loop,
\* try_attach, follow_locked, refresh_snapshot).
THEOREM ProjectionCurrent == Spec => []ProjectionIsCurrent
  <1>1. Init => Shape /\ Pipeline /\ CatchesUp
    <2>1. Init => CatchesUp
      BY DEF Init, CatchesUp
    <2> QED
      BY <2>1, ShapeInit, PipelineInit
  <1>2. Shape /\ Pipeline /\ CatchesUp /\ [Next]_vars => Shape' /\ Pipeline' /\ CatchesUp'
    <2>1. SUFFICES ASSUME Shape, Pipeline, CatchesUp, [Next]_vars
                   PROVE  Shape' /\ Pipeline' /\ CatchesUp'
      OBVIOUS
    <2>2. Shape'
      BY <2>1, ShapeStep
    <2>3. Pipeline'
      BY <2>1, <2>2, PipelineStep
    <2>4. CASE UNCHANGED vars
      BY <2>1, <2>2, <2>3, <2>4, CatchesUpKept DEF vars
    <2>5. CASE Next
      BY <2>1, <2>2, <2>3, <2>5, CatchesUpDesk, CatchesUpClient, CatchesUpCallers
         DEF Next, BridgeSteps
    <2> QED
      BY <2>1, <2>2, <2>3, <2>4, <2>5
  <1>3. Shape /\ Pipeline /\ CatchesUp => ProjectionIsCurrent
    <2>1. SUFFICES ASSUME Pipeline, CatchesUp, Settled, following, gap = "none", ~astray
                   PROVE  /\ desk.follows /\ m.has /\ m.st = desk.st
                          /\ m.rev = desk.rev /\ m.gen = desk.gen
      BY DEF ProjectionIsCurrent
    <2>2. wire /\ Range(outq) = {} /\ Range(evq) = {} /\ Range(sock) = {}
      BY <2>1, RangeEmpty DEF Settled
    <2>3. desk.follows /\ m.has /\ m.gen = desk.gen /\ m.rev = desk.rev
      BY <2>1, <2>2 DEF CatchesUp, Has, Brings, AtDesk
    <2>4. m.st = desk.st
      BY <2>1, <2>3 DEF Pipeline, OneHistory, Agrees
    <2> QED
      BY <2>3, <2>4
  <1> QED
    BY <1>1, <1>2, <1>3, PTL DEF Spec
=============================================================================
