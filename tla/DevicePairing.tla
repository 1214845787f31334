---------------------------- MODULE DevicePairing ----------------------------
(***************************************************************************)
(* Pairing a Bridge with an owner, and the life of the device it makes.    *)
(* A Bridge registers a challenge and shows its short code; an owner looks *)
(* the code up in a Browser and approves it; the Bridge polls claim, which *)
(* delivers a credential once; the Bridge puts it into the keychain and    *)
(* then binds itself.  With the credential it opens a WebSocket, which an  *)
(* owner's revocation closes.                                              *)
(*                                                                         *)
(*   ch     rows of pairing_challenges        order  by created_at         *)
(*   told   the pairings an owner's Browser was told it approved           *)
(*   cl     claim handlers at the Relay       pair   the Bridge's pair     *)
(*   dev    rows of devices, one per challenge                             *)
(*   conn   WebSocket handlers of Bridges     hub    Hub.bridges           *)
(*                                                                         *)
(* Every handler runs concurrently with every other; a statement of SQL is *)
(* one step, an await between two statements a step boundary.              *)
(* Relay: devices/pairing.rs, devices/mod.rs, devices/bridge_ws.rs.        *)
(* Bridge: pairing.rs.                                                     *)
(***************************************************************************)
EXTENDS Integers, FiniteSets, Sequences

CONSTANTS
  Challenges,   \* pairings, each of a machine of its own
  Connecting,   \* the machines that connect and are revoked
  Owners,       \* users
  Codes,        \* short codes; two challenges may draw the same one
  Claims,       \* identities of claim requests at the Relay
  Conns,        \* identities of WebSocket connections
  MaxAttempts,  \* PAIRING_MAX_ATTEMPTS
  Nobody        \* no owner, no challenge, no connection

ASSUME PairingAssumption ==
  /\ Connecting \subseteq Challenges /\ Codes # {}
  /\ MaxAttempts \in Nat \ {0}
  /\ Nobody \notin Challenges \cup Owners \cup Claims \cup Conns

VARIABLES ch, order, told, cl, pair, dev, conn, hub, slipped

pairingVars == <<ch, order, told, cl, pair>>
deviceVars == <<dev, conn, hub, slipped>>
vars == <<ch, order, told, cl, pair, dev, conn, hub, slipped>>

-----------------------------------------------------------------------------
(* Rows of the tables, handlers and what the pair command keeps.           *)

Rows == [reg : BOOLEAN, code : Codes, owner : Owners \cup {Nobody}, consumed : BOOLEAN,
         delivered : BOOLEAN, expired : BOOLEAN, attempts : 0..MaxAttempts]
Handlers == [ph : {"idle", "gone", "conflict", "pending", "deliver", "ready"},
             c : Challenges \cup {Nobody}]
Machines == [ph : {"idle", "waiting", "got", "keychain", "bound", "failed"},
             cred : Claims \cup {Nobody}, keychain : Claims \cup {Nobody}, bound : BOOLEAN]
Devices == [creds : SUBSET Claims, owner : Owners \cup {Nobody}, rev : {"no", "row", "done"}]
Sockets == [ph : {"idle", "hello", "closedOld", "open", "leaving", "gone"},
            d : Challenges \cup {Nobody}, sig : BOOLEAN]

-----------------------------------------------------------------------------
(* Bridge: register                                                        *)

NoRow == [reg |-> FALSE, code |-> CHOOSE k \in Codes : TRUE, owner |-> Nobody,
          consumed |-> FALSE, delivered |-> FALSE, expired |-> FALSE, attempts |-> 0]

Register(c) ==
  /\ pair[c].ph = "idle"
  /\ \E k \in Codes : ch' = [ch EXCEPT ![c] = [NoRow EXCEPT !.reg = TRUE, !.code = k]]
  /\ order' = Append(order, c)
  /\ pair' = [pair EXCEPT ![c].ph = "waiting"]
  /\ UNCHANGED <<told, cl, deviceVars>>

(* expires_at passes (PAIRING_TTL).                                        *)
Expires(c) ==
  /\ ch[c].reg /\ ~ch[c].expired
  /\ ch' = [ch EXCEPT ![c].expired = TRUE]
  /\ UNCHANGED <<order, told, cl, pair, deviceVars>>

-----------------------------------------------------------------------------
(* Browser: approve, cancel                                                *)

Pending(c) == ch[c].owner = Nobody /\ ~ch[c].consumed /\ ~ch[c].expired

(* approve, first part: a code that is not the one of the challenge the    *)
(* Browser names is counted against that challenge.  The Browser has its   *)
(* name from lookup, which answers for the newest challenge with a code as *)
(* long as it is pending: that is every challenge at some time.            *)
ApproveMismatch(c) ==
  /\ ch[c].reg
  /\ ch[c].attempts < MaxAttempts  \* bound: later attempts change nothing
  /\ ch' = [ch EXCEPT ![c].attempts = @ + 1]
  /\ UNCHANGED <<order, told, cl, pair, deviceVars>>

(* approve, second part: the newest challenge with this code that is still *)
(* pending gets its owner.  The Browser may name a challenge or not.       *)
Approvable(c, k) == ch[c].code = k /\ Pending(c) /\ ch[c].attempts < MaxAttempts

Approve(o, k) ==
  \E n \in DOMAIN order :
    /\ Approvable(order[n], k)
    /\ \A m \in DOMAIN order : m > n => ~Approvable(order[m], k)
    /\ ch' = [ch EXCEPT ![order[n]].owner = o]
    /\ told' = [told EXCEPT ![o] = @ \cup {order[n]}]
    /\ UNCHANGED <<order, cl, pair, deviceVars>>

(* cancel_challenge marks the row; claim does not look at that mark.       *)
CancelChallenge(o, c) ==
  /\ ch[c].owner = o /\ ~ch[c].consumed
  /\ ch' = [ch EXCEPT ![c].consumed = TRUE]
  /\ UNCHANGED <<order, told, cl, pair, deviceVars>>

-----------------------------------------------------------------------------
(* Bridge: claim.  The poll of a Bridge may run twice at the Relay (an     *)
(* HTTP retry), so two handlers of one challenge may overlap.              *)

ClaimAnswer(c) ==
  IF ch[c].expired THEN "gone"
  ELSE IF ch[c].delivered THEN "conflict"
  ELSE IF ch[c].owner = Nobody THEN "pending"
  ELSE "deliver"

ClaimSelect(q, c) ==
  /\ cl[q].ph = "idle" /\ pair[c].ph = "waiting"
  /\ cl' = [cl EXCEPT ![q] = [ph |-> ClaimAnswer(c), c |-> c]]
  /\ UNCHANGED <<ch, order, told, pair, deviceVars>>

(* The transaction: mark the row, insert the device, commit.               *)
DeliverableTwice(c) == ch[c].owner # Nobody /\ ~ch[c].expired  \* mutant
Deliverable(c) == ch[c].owner # Nobody /\ ~ch[c].delivered /\ ~ch[c].expired

ClaimDeliver(q) ==
  LET c == cl[q].c IN
  /\ cl[q].ph = "deliver"
  /\ IF Deliverable(c)
     THEN /\ ch' = [ch EXCEPT ![c].delivered = TRUE, ![c].consumed = TRUE]
          /\ dev' = [dev EXCEPT ![c].creds = @ \cup {q}, ![c].owner = ch[c].owner]
          /\ cl' = [cl EXCEPT ![q].ph = "ready"]
     ELSE /\ cl' = [cl EXCEPT ![q].ph = "conflict"]
          /\ UNCHANGED <<ch, dev>>
  /\ UNCHANGED <<order, told, pair, conn, hub, slipped>>

(* The transaction fails: nothing is written.                              *)
ClaimError(q) ==
  /\ cl[q].ph = "deliver"
  /\ cl' = [cl EXCEPT ![q].ph = "gone"]
  /\ UNCHANGED <<ch, order, told, pair, deviceVars>>

(* wait_approval reads the answer.  Everything but `pending` and `ready`   *)
(* ends the pairing, a network error and the deadline too.                 *)
PollAnswered(q) ==
  LET c == cl[q].c IN
  /\ cl[q].ph \in {"gone", "conflict", "pending", "ready"}
  /\ cl' = [cl EXCEPT ![q] = [ph |-> "idle", c |-> Nobody]]
  /\ pair' = IF pair[c].ph # "waiting" \/ cl[q].ph = "pending" THEN pair
             ELSE [pair EXCEPT ![c] =
                     IF cl[q].ph = "ready" THEN [@ EXCEPT !.ph = "got", !.cred = q]
                     ELSE [@ EXCEPT !.ph = "failed"]]
  /\ UNCHANGED <<ch, order, told, deviceVars>>

PollFails(c) ==
  /\ pair[c].ph = "waiting"
  /\ pair' = [pair EXCEPT ![c].ph = "failed"]
  /\ UNCHANGED <<ch, order, told, cl, deviceVars>>

(* bind: the keychain first, then the binding.                             *)
BindKeychain(c) ==
  /\ pair[c].ph = "got"
  /\ pair' = [pair EXCEPT ![c].ph = "keychain", ![c].keychain = pair[c].cred]
  /\ UNCHANGED <<ch, order, told, cl, deviceVars>>

BindStoreFirst(c) ==  \* mutant
  /\ pair[c].ph = "got"
  /\ pair' = [pair EXCEPT ![c].bound = TRUE, ![c].ph = "keychain"]
  /\ UNCHANGED <<ch, order, told, cl, deviceVars>>
BindStore(c) ==
  /\ pair[c].ph = "keychain"
  /\ pair' = [pair EXCEPT ![c].ph = "bound", ![c].bound = TRUE]
  /\ UNCHANGED <<ch, order, told, cl, deviceVars>>

(* The pair command is stopped, or the keychain or the store refuses.      *)
PairStops(c) ==
  /\ pair[c].ph \in {"got", "keychain"}
  /\ pair' = [pair EXCEPT ![c].ph = "failed", ![c].cred = Nobody]
  /\ UNCHANGED <<ch, order, told, cl, deviceVars>>

-----------------------------------------------------------------------------
(* The device's connection and its revocation                              *)

(* bridge_ws_handler: the credential is looked up and must not be revoked. *)
Authenticate(w, c) ==
  /\ conn[w].ph = "idle" /\ pair[c].bound
  /\ pair[c].keychain \in dev[c].creds /\ dev[c].rev = "no"
  /\ conn' = [conn EXCEPT ![w] = [ph |-> "hello", d |-> c, sig |-> FALSE]]
  /\ UNCHANGED <<pairingVars, dev, hub, slipped>>

(* bridge_connection: the ClientHello fails or does not come in time.      *)
HelloFails(w) ==
  /\ conn[w].ph = "hello"
  /\ conn' = [conn EXCEPT ![w].ph = "gone"]
  /\ UNCHANGED <<pairingVars, dev, hub, slipped>>

Signal(d) ==
  IF hub[d] = Nobody THEN conn ELSE [conn EXCEPT ![hub[d]].sig = TRUE]

(* bridge_session: the connection before it is told to close, and then     *)
(* this one is registered; two lock acquisitions.                          *)
CloseOld(w) ==
  /\ conn[w].ph = "hello"
  /\ conn' = [Signal(conn[w].d) EXCEPT ![w].ph = "closedOld"]
  /\ UNCHANGED <<pairingVars, dev, hub, slipped>>

(* `slipped` remembers connections that no signal can reach: registered    *)
(* after the revocation, or overwritten without having been signalled.     *)
RegisterBridge(w) ==
  LET d == conn[w].d
      old == IF hub[d] = Nobody \/ conn[hub[d]].sig THEN {} ELSE {hub[d]}
  IN  /\ conn[w].ph = "closedOld"
      /\ hub' = [hub EXCEPT ![d] = w]
      /\ conn' = [conn EXCEPT ![w].ph = "open"]
      /\ slipped' = slipped \cup old \cup (IF dev[d].rev = "done" THEN {w} ELSE {})
      /\ UNCHANGED <<pairingVars, dev>>

(* The session ends: its socket, the heartbeat's absence or the signal.    *)
SessionEnds(w) ==
  /\ conn[w].ph = "open"
  /\ conn' = [conn EXCEPT ![w].ph = "leaving"]
  /\ UNCHANGED <<pairingVars, dev, hub, slipped>>

(* remove_bridge takes out whatever is registered for the device: another  *)
(* connection of it can be reached by no signal any more.                  *)
RemoveBridge(w) ==
  LET d == conn[w].d IN
  /\ conn[w].ph = "leaving"
  /\ conn' = [conn EXCEPT ![w].ph = "gone"]
  /\ hub' = [hub EXCEPT ![d] = Nobody]
  /\ slipped' = IF hub[d] \in {Nobody, w} \/ conn[hub[d]].sig THEN slipped
                ELSE slipped \cup {hub[d]}
  /\ UNCHANGED <<pairingVars, dev>>

(* revoke_device: the row, then force_close_bridge.                        *)
Revoke(o, c) ==
  /\ dev[c].owner = o /\ dev[c].rev = "no"
  /\ dev' = [dev EXCEPT ![c].rev = "row"]
  /\ UNCHANGED <<pairingVars, conn, hub, slipped>>

ForceCloseForgotten(c) ==  \* mutant
  /\ dev[c].rev = "row"
  /\ dev' = [dev EXCEPT ![c].rev = "done"]
  /\ UNCHANGED <<pairingVars, conn, hub, slipped>>
ForceClose(c) ==
  /\ dev[c].rev = "row"
  /\ dev' = [dev EXCEPT ![c].rev = "done"]
  /\ conn' = Signal(c)
  /\ UNCHANGED <<pairingVars, hub, slipped>>

-----------------------------------------------------------------------------
Init ==
  /\ ch = [c \in Challenges |-> NoRow]
  /\ order = <<>>
  /\ told = [o \in Owners |-> {}]
  /\ cl = [q \in Claims |-> [ph |-> "idle", c |-> Nobody]]
  /\ pair = [c \in Challenges |->
               [ph |-> "idle", cred |-> Nobody, keychain |-> Nobody, bound |-> FALSE]]
  /\ dev = [c \in Challenges |-> [creds |-> {}, owner |-> Nobody, rev |-> "no"]]
  /\ conn = [w \in Conns |-> [ph |-> "idle", d |-> Nobody, sig |-> FALSE]]
  /\ hub = [c \in Challenges |-> Nobody]
  /\ slipped = {}

Next ==
  \/ \E c \in Challenges :
       \/ Register(c) \/ Expires(c) \/ ApproveMismatch(c) \/ PollFails(c)
       \/ BindKeychain(c) \/ BindStore(c) \/ PairStops(c) \/ ForceClose(c)
  \/ \E o \in Owners :
       \/ \E k \in Codes : Approve(o, k)
       \/ \E c \in Challenges : CancelChallenge(o, c)
       \/ \E c \in Connecting : Revoke(o, c)
  \/ \E q \in Claims :
       \/ \E c \in Challenges : ClaimSelect(q, c)
       \/ ClaimDeliver(q) \/ ClaimError(q) \/ PollAnswered(q)
  \/ \E w \in Conns :
       \/ \E c \in Connecting : Authenticate(w, c)
       \/ HelloFails(w) \/ CloseOld(w) \/ RegisterBridge(w)
       \/ SessionEnds(w) \/ RemoveBridge(w)

Spec == Init /\ [][Next]_vars

-----------------------------------------------------------------------------
(* Properties                                                              *)

(* Types; a challenge is consumed once it is delivered, and only what has  *)
(* an owner is delivered.                                                  *)
TypeOK ==
  /\ ch \in [Challenges -> Rows] /\ order \in Seq(Challenges)
  /\ told \in [Owners -> SUBSET Challenges]
  /\ cl \in [Claims -> Handlers] /\ pair \in [Challenges -> Machines]
  /\ dev \in [Challenges -> Devices] /\ conn \in [Conns -> Sockets]
  /\ hub \in [Challenges -> Conns \cup {Nobody}]
  /\ \A c \in Challenges : ch[c].delivered => ch[c].consumed /\ ch[c].owner # Nobody

(* However claims of one challenge overlap, one credential is made of it,  *)
(* for the owner who approved it; and of owners who approve the same code  *)
(* at the same time only one is told that the pairing is theirs (claim,    *)
(* approve: a single winner, a single delivery).                           *)
SingleDelivery ==
  \A c \in Challenges :
    /\ Cardinality(dev[c].creds) <= 1
    /\ dev[c].creds # {} => dev[c].owner = ch[c].owner
    /\ \A o \in Owners : c \in told[o] => ch[c].owner = o

(* A Bridge that counts as paired can authenticate: wherever pair stopped  *)
(* before, a binding is written only when the keychain holds a credential  *)
(* the Relay knows (bind, claim).                                          *)
BoundCanConnect ==
  \A c \in Challenges : pair[c].bound => pair[c].keychain \in dev[c].creds

(* When the revocation of a device has been answered, every connection it  *)
(* still has was told to close (revoke_device, force_close_bridge), except *)
(* those that slipped through between two steps.                           *)
RevokedIsCut ==
  \A w \in Conns :
    conn[w].ph = "open" /\ dev[conn[w].d].rev = "done" => conn[w].sig \/ w \in slipped

=============================================================================
