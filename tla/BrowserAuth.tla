----------------------------- MODULE BrowserAuth -----------------------------
(***************************************************************************)
(* The Relay's browser connections and the authentication behind them.  A  *)
(* Browser opens a WebSocket with a one-time ticket that dev-toolbox (the  *)
(* authentication service, external) redeems for an auth session.  From    *)
(* then on a periodic loop introspects the sessions of all connections;    *)
(* while dev-toolbox cannot be reached the Relay is degraded, and when the *)
(* grace period is over it closes every connection.                        *)
(*                                                                         *)
(*   sess      auth sessions at dev-toolbox, up: it can be reached         *)
(*   browser   connections: session, local expiry, phase                   *)
(*   degraded  Hub.degraded_until: none, in the future, or past            *)
(*   pass      the current pass of introspection_loop: its snapshot of the *)
(*             connections (all), those still to look at, what it found    *)
(*                                                                         *)
(* Relay: auth/mod.rs, auth/browser_ws.rs, realtime/mod.rs (Hub).          *)
(***************************************************************************)
EXTENDS FiniteSets

CONSTANTS Sessions, Browsers, NoSession

ASSUME AuthAssumption == NoSession \notin Sessions

VARIABLES sess, up, browser, degraded, pass

authVars == <<sess, up, browser, degraded, pass>>

Open == {c \in Browsers : browser[c].ph = "open"}

(* Hub::close_browser: out of the registry; the Outbox is closed and the   *)
(* connection's tasks end.                                                 *)
CloseAll(C) ==
  [c \in Browsers |-> IF c \in C \cap Open THEN [browser[c] EXCEPT !.ph = "closing"]
                      ELSE browser[c]]

-----------------------------------------------------------------------------
(* dev-toolbox                                                             *)

RevokeSession(s) ==
  /\ sess[s] = "valid"
  /\ sess' = [sess EXCEPT ![s] = "revoked"]
  /\ UNCHANGED <<up, browser, degraded, pass>>

ToolboxToggles ==
  /\ up' = ~up
  /\ UNCHANGED <<sess, browser, degraded, pass>>

-----------------------------------------------------------------------------
(* A connection                                                            *)

(* browser_ws_handler: consume_ticket.  Without an answer, or with a       *)
(* session that is not valid, there is no upgrade.                         *)
ConsumeTicket(c, s) ==
  /\ browser[c].ph = "idle" /\ up /\ sess[s] = "valid"
  /\ browser' = [browser EXCEPT ![c] = [ph |-> "hello", s |-> s, exp |-> FALSE]]
  /\ UNCHANGED <<sess, up, degraded, pass>>

(* browser_connection: the hello within HELLO_TIMEOUT, then                *)
(* register_browser; or no hello.                                          *)
Hello(c) ==
  /\ browser[c].ph = "hello"
  /\ \E p \in {"open", "gone"} : browser' = [browser EXCEPT ![c].ph = p]
  /\ UNCHANGED <<sess, up, degraded, pass>>

(* The session's original expires_at passes.                               *)
SessionExpires(c) ==
  /\ browser[c].ph \in {"hello", "open"} /\ ~browser[c].exp
  /\ browser' = [browser EXCEPT ![c].exp = TRUE]
  /\ UNCHANGED <<sess, up, degraded, pass>>

(* on_browser_command: writes_allowed, which accepts within the grace      *)
(* period and refuses after it, then the local expiry.                     *)
WritesAllowed == degraded \in {"none", "grace"}

BrowserCommand(c) ==
  /\ browser[c].ph = "open" /\ WritesAllowed
  /\ browser' = IF browser[c].exp THEN CloseAll({c}) ELSE browser
  /\ UNCHANGED <<sess, up, degraded, pass>>

(* The Browser goes, or a write to it fails; or the tasks of a connection  *)
(* that was closed have ended: remove_browser.                             *)
Disconnect(c) ==
  /\ browser[c].ph \in {"open", "closing"}
  /\ browser' = [browser EXCEPT ![c].ph = "gone"]
  /\ UNCHANGED <<sess, up, degraded, pass>>

-----------------------------------------------------------------------------
(* introspection_loop                                                      *)

NoPass == [on |-> FALSE, all |-> {}, todo |-> {}, seen |-> {}, close |-> {},
           unreachable |-> FALSE]

PassStart ==
  /\ ~pass.on
  /\ pass' = [on |-> TRUE, all |-> Open, todo |-> Open, seen |-> {}, close |-> {},
              unreachable |-> FALSE]
  /\ UNCHANGED <<sess, up, browser, degraded>>

(* One connection of the snapshot, in any order: expired locally; its      *)
(* session asked already; or asked now.  A session that is not valid takes *)
(* all of its connections in the snapshot with it.                         *)
PassCheck(c) ==
  LET s == browser[c].s IN
  /\ pass.on /\ c \in pass.todo
  /\ pass' =
       IF browser[c].exp
       THEN [pass EXCEPT !.todo = @ \ {c}, !.close = @ \cup {c}]
       ELSE IF s \in pass.seen
       THEN [pass EXCEPT !.todo = @ \ {c}]
       ELSE [pass EXCEPT !.todo = @ \ {c}, !.seen = @ \cup {s},
                         !.unreachable = @ \/ ~up,
                         !.close = IF up /\ sess[s] # "valid"
                                   THEN @ \cup {d \in pass.all : browser[d].s = s} ELSE @]
  /\ UNCHANGED <<sess, up, browser, degraded>>

PassEndNoGrace ==  \* mutant: the first failure closes everything
  /\ pass.on /\ pass.todo = {}
  /\ pass' = NoPass
  /\ browser' = CloseAll(IF pass.unreachable THEN Browsers ELSE pass.close)
  /\ degraded' = "none"
  /\ UNCHANGED <<sess, up>>

PassEndForever ==  \* mutant: the end of the grace period closes nothing
  /\ pass.on /\ pass.todo = {}
  /\ pass' = NoPass
  /\ browser' = CloseAll(pass.close)
  /\ degraded' = IF pass.unreachable THEN "grace" ELSE "none"
  /\ UNCHANGED <<sess, up>>

PassEnd ==
  /\ pass.on /\ pass.todo = {}
  /\ pass' = NoPass
  /\ browser' = CloseAll(IF pass.unreachable /\ degraded = "over" THEN Browsers ELSE pass.close)
  /\ degraded' = IF pass.unreachable /\ degraded # "over" THEN
                   (IF degraded = "none" THEN "grace" ELSE degraded)
                 ELSE "none"
  /\ UNCHANGED <<sess, up>>

(* The grace period (auth_grace) passes.                                   *)
GraceEnds ==
  /\ degraded = "grace"
  /\ degraded' = "over"
  /\ UNCHANGED <<sess, up, browser, pass>>

-----------------------------------------------------------------------------
AuthInit ==
  /\ sess = [s \in Sessions |-> "valid"] /\ up = TRUE
  /\ browser = [c \in Browsers |-> [ph |-> "idle", s |-> NoSession, exp |-> FALSE]]
  /\ degraded = "none" /\ pass = NoPass

AuthNext ==
  \/ \E s \in Sessions : RevokeSession(s)
  \/ \E c \in Browsers :
       \/ \E s \in Sessions : ConsumeTicket(c, s)
       \/ Hello(c) \/ SessionExpires(c) \/ BrowserCommand(c) \/ Disconnect(c) \/ PassCheck(c)
  \/ ToolboxToggles \/ PassStart \/ PassEnd \/ GraceEnds

(* Fairness: the loop's ticker fires and introspect answers or times out   *)
(* (5 s); the grace period is finite.  Nothing makes dev-toolbox return.   *)
AuthSpec ==
  /\ AuthInit /\ [][AuthNext]_authVars
  /\ WF_authVars(PassStart) /\ WF_authVars(\E c \in Browsers : PassCheck(c))
  /\ WF_authVars(PassEnd) /\ WF_authVars(GraceEnds)

-----------------------------------------------------------------------------
(* Properties                                                              *)

(* A connection whose session was revoked, or whose session's time is up,  *)
(* is closed in the end, even if dev-toolbox comes and goes or never       *)
(* answers again (introspection_loop).                                     *)
RevokedBrowserCloses ==
  \A c \in Browsers :
    browser[c].ph = "open" /\ (browser[c].exp \/ sess[browser[c].s] = "revoked")
      ~> browser[c].ph \in {"closing", "gone"}

(* Authentication closes a connection only for a cause that holds when it  *)
(* does so, although it decides on a snapshot: the session was revoked or  *)
(* its time is up, or the grace period is over.  (A full outbox and the    *)
(* Relay's shutdown close connections too: not in this module.)            *)
ClosedForCause ==
  [][\A c \in Browsers :
       browser[c].ph = "open" /\ browser'[c].ph = "closing" =>
         browser[c].exp \/ sess[browser[c].s] = "revoked" \/ degraded = "over"]_authVars

(* Types; a pass looks only at connections that have been open.            *)
AuthTypeOK ==
  /\ sess \in [Sessions -> {"valid", "revoked"}] /\ up \in BOOLEAN
  /\ browser \in [Browsers -> [ph : {"idle", "hello", "open", "closing", "gone"},
                         s : Sessions \cup {NoSession}, exp : BOOLEAN]]
  /\ degraded \in {"none", "grace", "over"}
  /\ pass \in [on : BOOLEAN, all : SUBSET Browsers, todo : SUBSET Browsers,
               seen : SUBSET Sessions, close : SUBSET Browsers, unreachable : BOOLEAN]
  /\ pass.todo \cup pass.close \subseteq pass.all
  /\ \A c \in pass.all : browser[c].s # NoSession

=============================================================================
