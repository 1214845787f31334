------------------------------ MODULE Transfers ------------------------------
(***************************************************************************)
(* The file data plane: a Browser uploads a file to, or downloads one from *)
(* a Bridge through the Relay.  The WebSocket carries only coordination    *)
(* (TransferOffer, TransferReady, TransferResult); the bytes go through a  *)
(* bounded channel of the Relay between the Browser's HTTP request and the *)
(* request the Bridge makes to the producer or consumer endpoint.          *)
(*                                                                         *)
(*   rel    one Transfer of the Relay's TransferRegistry, with its Shared  *)
(*   bro    the Browser's HTTP request and the Relay handler serving it    *)
(*   bri    the task the Bridge runs for the transfer, with its token      *)
(*   pipe   the bounded channel, pump the producer's task at the Relay     *)
(*   file   the upload the Bridge wrote and the grant of its handle        *)
(*                                                                         *)
(* A file is a number of chunks.  The only handles the Bridge issues are   *)
(* those of uploads, so a handle is the transfer that uploaded it.         *)
(* Relay: transfers/mod.rs.  Bridge: runtime/transfers.rs, files/*.        *)
(***************************************************************************)
EXTENDS Integers, FiniteSets, Sequences

CONSTANTS
  Uploads,        \* identities of the transfers that upload
  Downloads,      \* identities of the transfers that download
  Chunks,         \* length of the file a Browser uploads
  Capacity,       \* CHANNEL_BUFFER_CHUNKS
  MaxConcurrent,  \* MAX_CONCURRENT_PER_DEVICE, at both ends
  MaxPuts,        \* bound: PUT requests of one upload
  MaxFaults       \* bound: dropped links and Bridge restarts

ASSUME TransferAssumption ==
  /\ Uploads \cap Downloads = {}
  /\ Chunks \in Nat /\ Capacity \in Nat \ {0}
  /\ MaxConcurrent \in Nat \ {0} /\ MaxPuts \in Nat /\ MaxFaults \in Nat

VARIABLES rel, bro, bri, pipe, pump, file, toBridge, toRelay, faults, panicked

transferVars == <<rel, bro, bri, pipe, pump, file, toBridge, toRelay, faults, panicked>>

Transfers == Uploads \cup Downloads

(* A request without a Range is NoRange; an open end is Open.              *)
NoRange == [start |-> 0, end |-> -1, asked |-> FALSE]
Open == -1
Ranges == {NoRange} \cup
          {[start |-> s, end |-> e, asked |-> TRUE] : s \in 0..Chunks, e \in -1..Chunks}

-----------------------------------------------------------------------------
(* Ranges                                                                  *)

(* Relay: a range whose end is before its start is refused.                *)
ParseRange(r) == r.end = Open \/ r.start <= r.end

(* The coordination fields of the offer, and the single Range header the   *)
(* Bridge makes of them: none for the whole file.                          *)
RangeHeaderOf(r, total) ==
  ~ \/ r.start = 0 /\ r.end = Open
    \/ r.start = 0 /\ r.end # Open /\ r.end + 1 >= total

ParseSingleRange(r, total) ==
  [ok  |-> r.start < total /\ (r.end = Open \/ r.end >= r.start),
   off |-> r.start,
   len |-> (IF r.end = Open \/ r.end > total - 1 THEN total - 1 ELSE r.end)
             - r.start + 1]

(* open_slice: handle_download resolves a handle for Preview first, and    *)
(* the handle of an upload allows every action, so the limits of a preview *)
(* apply to every download; `inline` says that the file respects them.     *)
OpenSlice(f, r) ==
  LET p == ParseSingleRange(r, f.n)
  IN  IF RangeHeaderOf(r, f.n)
      THEN [ok |-> f.inline /\ p.ok, off |-> p.off, len |-> p.len, ranged |-> TRUE]
      ELSE [ok |-> f.inline, off |-> 0, len |-> f.n, ranged |-> FALSE]

(* The bytes a request asks for, independently of the path above.          *)
Asked(r, total) ==
  {i \in 0..(total - 1) : i >= r.start /\ (r.end = Open \/ i <= r.end)}

-----------------------------------------------------------------------------
(* Relay: the registry                                                     *)

InReg(t) == rel[t].reg = "in"

(* Transfer::complete and Transfer::cancel on the shared state; the second *)
(* is a no-op on a transfer that is terminal.                              *)
CompleteKeepingAck(x) == [x EXCEPT !.term = TRUE]  \* mutant
Complete(x) == [x EXCEPT !.term = TRUE, !.ack = IF @ = "open" THEN "closed" ELSE @]
Cancel(x) ==
  IF x.term THEN x
  ELSE [Complete(x) EXCEPT !.sig = TRUE, !.res = IF @ = "none" THEN "cancelled" ELSE @]

(* cancel_and_remove: nothing for a transfer that is not registered; the   *)
(* Bridge is told unless the transfer was terminal already.                *)
CancelAndRemove(t) ==
  IF ~InReg(t) THEN UNCHANGED <<rel, toBridge>>
  ELSE /\ rel' = [rel EXCEPT ![t] = [Cancel(@) EXCEPT !.reg = "out"]]
       /\ toBridge' = IF rel[t].term THEN toBridge
                      ELSE Append(toBridge, [kind |-> "cancel", id |-> t])

Remove(t) == rel' = [rel EXCEPT ![t].reg = IF @ = "in" THEN "out" ELSE @]

(* create: transfers that are registered and not terminal count.           *)
MayCreate == Cardinality({t \in Transfers : InReg(t) /\ ~rel[t].term}) < MaxConcurrent

NewTransfer(d) ==
  [reg |-> "in", dir |-> d, term |-> FALSE, sig |-> FALSE,
   hand |-> "open", ack |-> "none", res |-> "none"]

Unused(t) ==
  [NewTransfer(IF t \in Uploads THEN "up" ELSE "down") EXCEPT !.reg = "new"]

(* create and send_offer.                                                  *)
Create(t, d) ==
  /\ rel[t].reg = "new" /\ MayCreate
  /\ rel' = [rel EXCEPT ![t] = NewTransfer(d)]
  /\ toBridge' = Append(toBridge, [kind |-> "offer", id |-> t])

(* An offer that the hub cannot take (the connection went after is_online) *)
(* cancels the transfer at once.                                           *)
OfferFails(t) ==
  /\ rel[t].reg = "new" /\ MayCreate
  /\ rel' = [rel EXCEPT ![t] = [Cancel(NewTransfer(@.dir)) EXCEPT !.reg = "out"]]
  /\ bro' = [bro EXCEPT ![t].ph = "failed"]
  /\ UNCHANGED <<bri, pipe, pump, file, toBridge, toRelay, faults, panicked>>

-----------------------------------------------------------------------------
(* Browser download: start_download and the response body                  *)

Handles == {t \in Transfers : bro[t].ph = "completed"}

StartDownload(t) ==
  /\ t \in Downloads
  /\ Create(t, "down")
  /\ \E h \in Handles, r \in {q \in Ranges : ParseRange(q)} :
        bro' = [bro EXCEPT ![t] = [@ EXCEPT !.ph = "wait", !.h = h, !.req = r]]
  /\ UNCHANGED <<bri, pipe, pump, file, toRelay, faults, panicked>>

(* The three arms of the rendezvous, for a download and for an upload.     *)
RendezvousCancelled(t) ==
  /\ bro[t].ph = "wait" /\ rel[t].sig
  /\ bro' = [bro EXCEPT ![t].ph = "failed"]
  /\ pipe' = [pipe EXCEPT ![t].rx = IF rel[t].dir = "down" THEN FALSE ELSE @,
                          ![t].tx = IF rel[t].dir = "up" THEN FALSE ELSE @]
  /\ Remove(t)
  /\ UNCHANGED <<bri, pump, file, toBridge, toRelay, faults, panicked>>

RendezvousDone(t) ==
  /\ bro[t].ph = "wait" /\ rel[t].hand = "given"
  /\ bro' = [bro EXCEPT ![t].ph = "stream"]
  /\ rel' = [rel EXCEPT ![t].hand = "picked"]
  /\ UNCHANGED <<bri, pipe, pump, file, toBridge, toRelay, faults, panicked>>

RendezvousTimeout(t) ==
  /\ bro[t].ph = "wait"
  /\ bro' = [bro EXCEPT ![t].ph = "failed"]
  /\ pipe' = [pipe EXCEPT ![t].rx = IF rel[t].dir = "down" THEN FALSE ELSE @,
                          ![t].tx = IF rel[t].dir = "up" THEN FALSE ELSE @]
  /\ CancelAndRemove(t)
  /\ UNCHANGED <<bri, pump, file, toRelay, faults, panicked>>

(* The Browser reads its response.  The end of the channel is the end of   *)
(* the body; a response without Content-Range carries Content-Length, so   *)
(* a body that ends early is an error there.                               *)
BrowserReads(t) ==
  /\ bro[t].ph = "stream" /\ rel[t].dir = "down"
  /\ \/ /\ pipe[t].q > 0
        /\ pipe' = [pipe EXCEPT ![t].q = @ - 1]
        /\ bro' = [bro EXCEPT ![t].n = @ + 1]
     \/ /\ pipe[t].q = 0 /\ (pipe[t].err \/ ~pipe[t].tx)
        /\ pipe' = [pipe EXCEPT ![t].rx = FALSE]
        /\ bro' = [bro EXCEPT ![t].ph =
                     IF \/ pipe[t].err
                        \/ ~bri[t].ranged /\ bro[t].n < bri[t].len
                     THEN "failed" ELSE "ended"]
  /\ UNCHANGED <<rel, bri, pump, file, toBridge, toRelay, faults, panicked>>

(* The Browser goes away: the server drops the handler and what it holds.  *)
BrowserLeaves(t) ==
  /\ bro[t].ph \in {"declared", "wait", "stream", "result"}
  /\ bro' = [bro EXCEPT ![t].ph = "gone"]
  /\ IF rel[t].dir = "down"
     THEN pipe' = [pipe EXCEPT ![t].rx = FALSE]
     ELSE pipe' = [pipe EXCEPT ![t].tx =
                     IF bro[t].ph = "declared" THEN @ ELSE FALSE]
  /\ UNCHANGED <<rel, bri, pump, file, toBridge, toRelay, faults, panicked>>

-----------------------------------------------------------------------------
(* Browser upload: upload_declare and upload_stream                        *)

UploadDeclare(t) ==
  /\ t \in Uploads
  /\ Create(t, "up")
  /\ bro' = [bro EXCEPT ![t].ph = "declared"]
  /\ UNCHANGED <<bri, pipe, pump, file, toRelay, faults, panicked>>

(* A PUT takes the consumer's receiver.  A second PUT of the same transfer *)
(* finds it taken, and the handler's expect fails with the lock held.      *)
UploadStream(t) ==
  /\ InReg(t) /\ rel[t].dir = "up" /\ bro[t].puts < MaxPuts
  /\ bro' = [bro EXCEPT ![t].puts = @ + 1,
                        ![t].ph = IF @ = "declared" THEN "wait" ELSE @]
  /\ \/ bro[t].ph = "declared" /\ UNCHANGED panicked
     \/ bro[t].puts > 0 /\ panicked' = TRUE
  /\ UNCHANGED <<rel, bri, pipe, pump, file, toBridge, toRelay, faults>>

(* The upload's pump: one chunk, the end of the body, or a body that       *)
(* stalls, breaks or exceeds the limit.                                    *)
UploadChunk(t) ==
  /\ bro[t].ph = "stream" /\ rel[t].dir = "up" /\ bro[t].n < Chunks
  /\ \/ /\ pipe[t].rx /\ pipe[t].q < Capacity
        /\ pipe' = [pipe EXCEPT ![t].q = @ + 1]
        /\ bro' = [bro EXCEPT ![t].n = @ + 1]
        /\ UNCHANGED <<rel, toBridge>>
     \/ /\ ~pipe[t].rx
        /\ bro' = [bro EXCEPT ![t].ph = "failed"]
        /\ pipe' = [pipe EXCEPT ![t].tx = FALSE]
        /\ CancelAndRemove(t)
  /\ UNCHANGED <<bri, pump, file, toRelay, faults, panicked>>

UploadEof(t) ==
  /\ bro[t].ph = "stream" /\ rel[t].dir = "up" /\ bro[t].n = Chunks
  /\ bro' = [bro EXCEPT ![t].ph = "result"]
  /\ pipe' = [pipe EXCEPT ![t].tx = FALSE]
  /\ UNCHANGED <<rel, bri, pump, file, toBridge, toRelay, faults, panicked>>

(* mutant: a body that breaks off is taken for its end                     *)
UploadBreaksAsEnd(t) ==
  /\ bro[t].ph = "stream" /\ rel[t].dir = "up" /\ bro[t].n < Chunks
  /\ bro' = [bro EXCEPT ![t].ph = "result"]
  /\ pipe' = [pipe EXCEPT ![t].tx = FALSE]
  /\ UNCHANGED <<rel, bri, pump, file, toBridge, toRelay, faults, panicked>>

UploadBreaks(t) ==
  /\ bro[t].ph = "stream" /\ rel[t].dir = "up" /\ bro[t].n < Chunks
  /\ bro' = [bro EXCEPT ![t].ph = "failed"]
  /\ pipe' = [pipe EXCEPT ![t].tx = FALSE]
  /\ CancelAndRemove(t)
  /\ UNCHANGED <<bri, pump, file, toRelay, faults, panicked>>

UploadCancelled(t) ==
  /\ bro[t].ph = "stream" /\ rel[t].dir = "up" /\ rel[t].sig
  /\ bro' = [bro EXCEPT ![t].ph = "failed"]
  /\ pipe' = [pipe EXCEPT ![t].tx = FALSE]
  /\ Remove(t)
  /\ UNCHANGED <<bri, pump, file, toBridge, toRelay, faults, panicked>>

(* The answer: the Bridge's result, the signal, or RESULT_WAIT_TIMEOUT.    *)
UploadResult(t) ==
  /\ bro[t].ph = "result"
  /\ \/ /\ rel[t].res # "none"
        /\ bro' = [bro EXCEPT ![t].ph =
                     IF rel[t].res = "completed" THEN "completed" ELSE "failed"]
     \/ bro' = [bro EXCEPT ![t].ph = "failed"]
  /\ Remove(t)
  /\ UNCHANGED <<bri, pipe, pump, file, toBridge, toRelay, faults, panicked>>


-----------------------------------------------------------------------------
(* Relay: the endpoints the Bridge calls                                   *)

(* authenticate_device, authorize_transfer: credential, token and device   *)
(* are those of the offer, so what is left is whether the transfer is      *)
(* still registered.  set_producer and set_consumer serve the first        *)
(* caller, of a transfer that is not over.                                 *)
Authorized(t) == InReg(t)
AwaitsHandoff(t) == ~rel[t].term /\ rel[t].hand = "open"

(* producer: set_producer hands the channel to the waiting request; with   *)
(* that request gone the handoff is dropped, and still accepted.  The ack  *)
(* is stored under a lock of its own.                                      *)
Producer(t) ==
  /\ bri[t].ph = "connect" /\ rel[t].dir = "down"
  /\ IF Authorized(t) /\ AwaitsHandoff(t)
     THEN /\ rel' = [rel EXCEPT ![t].hand = "given", ![t].ack = "pending"]
          /\ bri' = [bri EXCEPT ![t].ph = "stream"]
          /\ pipe' = [pipe EXCEPT ![t].tx = TRUE, ![t].rx = bro[t].ph = "wait"]
          /\ UNCHANGED toRelay
     ELSE /\ bri' = [bri EXCEPT ![t].ph = "done"]
          /\ toRelay' = Append(toRelay, [kind |-> "failed", id |-> t])
          /\ UNCHANGED <<rel, pipe>>
  /\ UNCHANGED <<bro, pump, file, toBridge, faults, panicked>>

ProducerAck(t) ==
  /\ rel[t].ack = "pending"
  /\ rel' = [rel EXCEPT ![t].ack = "open"]
  /\ pump' = [pump EXCEPT ![t] = "read"]
  /\ UNCHANGED <<bro, bri, pipe, file, toBridge, toRelay, faults, panicked>>

(* consumer: set_consumer hands the writing end of the channel over.       *)
Consumer(t) ==
  /\ bri[t].ph = "connect" /\ rel[t].dir = "up"
  /\ IF Authorized(t) /\ AwaitsHandoff(t)
     THEN /\ rel' = [rel EXCEPT ![t].hand = "given"]
          /\ bri' = [bri EXCEPT ![t].ph = "stream"]
          /\ pipe' = [pipe EXCEPT ![t].rx = TRUE,
                                  ![t].tx = bro[t].ph = "wait" \/ bro[t].puts = 0]
          /\ UNCHANGED toRelay
     ELSE /\ bri' = [bri EXCEPT ![t].ph = "done"]
          /\ toRelay' = Append(toRelay, [kind |-> "failed", id |-> t])
          /\ UNCHANGED <<rel, pipe>>
  /\ UNCHANGED <<bro, pump, file, toBridge, faults, panicked>>

(* pump_body waits for a chunk, the end, an error, a timeout or the        *)
(* signal; while it waits for room in the channel it watches none of them. *)
PumpRead(t) ==
  /\ pump[t] = "read" /\ bri[t].ph = "stream" /\ bri[t].n < bri[t].len
  /\ bri' = [bri EXCEPT ![t].n = @ + 1]
  /\ pump' = [pump EXCEPT ![t] = "send"]
  /\ UNCHANGED <<rel, bro, pipe, file, toBridge, toRelay, faults, panicked>>

(* mutant: the channel is not bounded                                      *)
PumpSendUnbounded(t) ==
  /\ pump[t] = "send" /\ pipe[t].rx
  /\ pipe' = [pipe EXCEPT ![t].q = @ + 1]
  /\ pump' = [pump EXCEPT ![t] = "read"]
  /\ UNCHANGED <<rel, bro, bri, file, toBridge, toRelay, faults, panicked>>

PumpSend(t) ==
  /\ pump[t] = "send" /\ pipe[t].rx /\ pipe[t].q < Capacity
  /\ pipe' = [pipe EXCEPT ![t].q = @ + 1]
  /\ pump' = [pump EXCEPT ![t] = "read"]
  /\ UNCHANGED <<rel, bro, bri, file, toBridge, toRelay, faults, panicked>>

(* The pump's exits.  The task drops its sender, and with the transfer out *)
(* of the registry the last reference to the ack.                          *)
Drained(x) == [x EXCEPT !.ack = "closed"]

PumpEof(t) ==
  /\ pump[t] = "read" /\ bri[t].n = bri[t].len
  /\ rel' = [rel EXCEPT ![t] = [Drained(Complete(@)) EXCEPT !.reg = "out"]]
  /\ pipe' = [pipe EXCEPT ![t].tx = FALSE]
  /\ pump' = [pump EXCEPT ![t] = "done"]
  /\ UNCHANGED <<bro, bri, file, toBridge, toRelay, faults, panicked>>

CancelFromPump(t) ==
  /\ rel' = [rel EXCEPT ![t] =
               [Drained(IF InReg(t) THEN Cancel(@) ELSE @) EXCEPT !.reg = "out"]]
  /\ toBridge' = IF InReg(t) /\ ~rel[t].term
                 THEN Append(toBridge, [kind |-> "cancel", id |-> t]) ELSE toBridge
  /\ pump' = [pump EXCEPT ![t] = "done"]

(* Timeout, stream error (the Bridge's request broke off) or signal: the   *)
(* error block is written with try_send, so only if there is room.         *)
PumpFails(t) ==
  /\ pump[t] = "read"
  /\ \/ bri[t].n < bri[t].len
     \/ bri[t].ph # "stream"
     \/ rel[t].sig
  /\ pipe' = [pipe EXCEPT ![t].tx = FALSE,
                          ![t].err = pipe[t].q < Capacity,
                          ![t].cut = pipe[t].q = Capacity]
  /\ CancelFromPump(t)
  /\ UNCHANGED <<bro, bri, file, toRelay, faults, panicked>>

PumpSinkClosed(t) ==
  /\ pump[t] = "send" /\ ~pipe[t].rx
  /\ pipe' = [pipe EXCEPT ![t].tx = FALSE]
  /\ CancelFromPump(t)
  /\ UNCHANGED <<bro, bri, file, toRelay, faults, panicked>>

(* sweep: TRANSFER_TTL is far longer than a rendezvous, so a transfer that *)
(* expires is not in one; the others may.  Dropping a transfer whose PUT   *)
(* never came drops the writing end of its channel.                        *)
Sweep(t) ==
  /\ InReg(t) /\ rel[t].ack # "pending"
  /\ ~(rel[t].dir = "down" /\ bro[t].ph = "wait")
  /\ CancelAndRemove(t)
  /\ pipe' = [pipe EXCEPT ![t].tx = @ /\ ~(rel[t].dir = "up" /\ bro[t].puts = 0)]
  /\ UNCHANGED <<bro, bri, pump, file, toRelay, faults, panicked>>

(* on_bridge_ready (refusal) and on_bridge_result: the first result counts.*)
WithResult(x, kind) == [Complete(x) EXCEPT !.res = IF @ = "none" THEN kind ELSE @]

RelayReceives ==
  /\ toRelay # <<>>
  /\ toRelay' = Tail(toRelay)
  /\ LET m == Head(toRelay) IN
     rel' = IF ~InReg(m.id) THEN rel
            ELSE IF m.kind = "reject" THEN [rel EXCEPT ![m.id] = Cancel(@)]
            ELSE [rel EXCEPT ![m.id] = WithResult(@, m.kind)]
  /\ UNCHANGED <<bro, bri, pipe, pump, file, toBridge, faults, panicked>>

-----------------------------------------------------------------------------
(* Bridge                                                                  *)

Active(t) == bri[t].ph \in {"connect", "stream"}
FreeSlot == Cardinality({t \in Transfers : Active(t)}) < MaxConcurrent

Refuse(t) ==
  /\ toRelay' = Append(toRelay, [kind |-> "reject", id |-> t])
  /\ UNCHANGED bri

(* handle_download: slot, resolve_for_read, open_slice, Ready, token.      *)
HandleDownload(t) ==
  LET f == file[bro[t].h]
      s == OpenSlice(f, bro[t].req)
  IN  IF FreeSlot /\ f.grant = "valid" /\ f.kept /\ s.ok
      THEN /\ bri' = [bri EXCEPT ![t] = [@ EXCEPT !.ph = "connect", !.tok = "live",
                                         !.len = s.len, !.off = s.off,
                                         !.ranged = s.ranged]]
           /\ UNCHANGED toRelay
      ELSE Refuse(t)

(* handle_upload: slot, UploadSink::create, Ready, token.                  *)
HandleUpload(t) ==
  IF FreeSlot
  THEN /\ bri' = [bri EXCEPT ![t] = [@ EXCEPT !.ph = "connect", !.tok = "live"]]
       /\ UNCHANGED toRelay
  ELSE Refuse(t)

(* An offer, or the cancellation of a transfer whose token is registered.  *)
BridgeReceives ==
  /\ toBridge # <<>>
  /\ toBridge' = Tail(toBridge)
  /\ LET m == Head(toBridge) IN
     \/ /\ m.kind = "offer"
        /\ IF rel[m.id].dir = "down" THEN HandleDownload(m.id) ELSE HandleUpload(m.id)
     \/ /\ m.kind = "cancel"
        /\ bri' = [bri EXCEPT ![m.id].tok = IF @ = "live" THEN "cancelled" ELSE @]
        /\ UNCHANGED toRelay
  /\ UNCHANGED <<rel, bro, pipe, pump, file, faults, panicked>>

(* The task ends: its result is sent, its token and its slot go.           *)
Ends(t, kind) ==
  /\ bri' = [bri EXCEPT ![t].ph = "done", ![t].tok = "none"]
  /\ toRelay' = Append(toRelay, [kind |-> kind, id |-> t])

(* produce ends with its response: from then on the token is not watched,  *)
(* and however the response ends the transfer counts as completed.         *)
ProduceEnds(t) ==
  /\ bri[t].ph = "stream" /\ rel[t].dir = "down" /\ rel[t].ack = "closed"
  /\ Ends(t, "completed")
  /\ UNCHANGED <<rel, bro, pipe, pump, file, toBridge, faults, panicked>>

(* Before the response: cancelled, or refused by its rendezvous timeout.   *)
ConnectFails(t) ==
  /\ bri[t].ph = "connect"
  /\ \/ bri[t].tok = "cancelled" /\ Ends(t, "cancelled")
     \/ Ends(t, "failed")
  /\ UNCHANGED <<rel, bro, pipe, pump, file, toBridge, faults, panicked>>

(* consume: a chunk into the sink; the end of the response issues a handle *)
(* for what has arrived; a cancelled token aborts the sink, and so does at *)
(* any time a timeout, a broken connection, or a chunk or a file that      *)
(* cannot be written (write_chunk, finish).                                *)
ConsumeChunk(t) ==
  /\ bri[t].ph = "stream" /\ rel[t].dir = "up" /\ pipe[t].q > 0
  /\ pipe' = [pipe EXCEPT ![t].q = @ - 1]
  /\ bri' = [bri EXCEPT ![t].n = @ + 1]
  /\ UNCHANGED <<rel, bro, pump, file, toBridge, toRelay, faults, panicked>>

ConsumeEnds(t) ==
  /\ bri[t].ph = "stream" /\ rel[t].dir = "up" /\ pipe[t].q = 0 /\ ~pipe[t].tx
  /\ Ends(t, "completed")
  /\ \E i \in BOOLEAN :
       file' = [file EXCEPT ![t] = [n |-> bri[t].n, inline |-> i,
                                    grant |-> "valid", kept |-> TRUE]]
  /\ pipe' = [pipe EXCEPT ![t].rx = FALSE]
  /\ UNCHANGED <<rel, bro, pump, toBridge, faults, panicked>>

ConsumeFails(t) ==
  /\ bri[t].ph = "stream" /\ rel[t].dir = "up"
  /\ \/ bri[t].tok = "cancelled" /\ Ends(t, "cancelled")
     \/ Ends(t, "failed")
  /\ pipe' = [pipe EXCEPT ![t].rx = FALSE]
  /\ UNCHANGED <<rel, bro, pump, file, toBridge, faults, panicked>>

(* lookup_valid drops a grant past its deadline; a finished turn removes   *)
(* the directories of uploads older than their TTL, which is longer.       *)
GrantExpires(t) ==
  /\ file[t].grant = "valid"
  /\ file' = [file EXCEPT ![t].grant = "expired"]
  /\ UNCHANGED <<rel, bro, bri, pipe, pump, toBridge, toRelay, faults, panicked>>

SweepUploads ==
  /\ \E t \in Transfers : file[t].kept /\ file[t].grant = "expired"
  /\ file' = [t \in Transfers |->
                IF file[t].grant = "expired" THEN [file[t] EXCEPT !.kept = FALSE]
                ELSE file[t]]
  /\ UNCHANGED <<rel, bro, bri, pipe, pump, toBridge, toRelay, faults, panicked>>

-----------------------------------------------------------------------------
(* Faults: the Bridge's connection drops, which empties the Relay's queue  *)
(* to it and may lose what was on the way back; or the Bridge restarts and *)
(* loses its tasks, its tokens and its grants.                             *)
LinkDrops ==
  /\ faults < MaxFaults /\ faults' = faults + 1
  /\ toBridge' = <<>>
  /\ \E k \in 0..Len(toRelay) : toRelay' = SubSeq(toRelay, k + 1, Len(toRelay))
  /\ UNCHANGED <<rel, bro, bri, pipe, pump, file, panicked>>

BridgeRestarts ==
  /\ faults < MaxFaults /\ faults' = faults + 1
  /\ toBridge' = <<>> /\ toRelay' = <<>>
  /\ bri' = [t \in Transfers |->
               IF Active(t) THEN [bri[t] EXCEPT !.ph = "done", !.tok = "none"] ELSE bri[t]]
  /\ pipe' = [t \in Transfers |->
                IF Active(t) /\ rel[t].dir = "up" THEN [pipe[t] EXCEPT !.rx = FALSE]
                ELSE pipe[t]]
  /\ file' = [t \in Transfers |->
                IF file[t].grant = "valid" THEN [file[t] EXCEPT !.grant = "expired"]
                ELSE file[t]]
  /\ UNCHANGED <<rel, bro, pump, panicked>>

-----------------------------------------------------------------------------
TransferInit ==
  /\ rel = [t \in Transfers |-> Unused(t)]
  /\ bro = [t \in Transfers |->
              [ph |-> "idle", req |-> NoRange, h |-> t, n |-> 0, puts |-> 0]]
  /\ bri = [t \in Transfers |->
              [ph |-> "idle", tok |-> "none", n |-> 0, off |-> 0, len |-> 0,
               ranged |-> FALSE]]
  /\ pipe = [t \in Transfers |->
               [q |-> 0, err |-> FALSE, tx |-> TRUE, rx |-> TRUE, cut |-> FALSE]]
  /\ pump = [t \in Transfers |-> "none"]
  /\ file = [t \in Transfers |->
               [n |-> 0, inline |-> TRUE, grant |-> "none", kept |-> FALSE]]
  /\ toBridge = <<>> /\ toRelay = <<>> /\ faults = 0 /\ panicked = FALSE

Steps(t) ==
  \/ RendezvousCancelled(t) \/ RendezvousDone(t) \/ RendezvousTimeout(t)
  \/ UploadEof(t) \/ UploadBreaks(t) \/ UploadCancelled(t) \/ UploadResult(t)
  \/ Producer(t) \/ ProducerAck(t) \/ Consumer(t)
  \/ PumpSend(t) \/ PumpEof(t) \/ PumpFails(t) \/ PumpSinkClosed(t)
  \/ Sweep(t) \/ ProduceEnds(t) \/ ConnectFails(t)
  \/ ConsumeChunk(t) \/ ConsumeEnds(t) \/ ConsumeFails(t)

(* A behaviour is followed up to the panic of UploadStream: the mutex it   *)
(* poisons is locked by every later request of the Relay.                  *)
Running == ~panicked

TransferNext ==
  /\ Running
  /\ \/ \E t \in Transfers :
          \/ StartDownload(t) \/ OfferFails(t) \/ BrowserReads(t) \/ BrowserLeaves(t)
          \/ UploadDeclare(t) \/ UploadStream(t) \/ UploadChunk(t)
          \/ PumpRead(t) \/ GrantExpires(t)
          \/ Steps(t)
     \/ RelayReceives \/ BridgeReceives \/ SweepUploads
     \/ LinkDrops \/ BridgeRestarts

(* Fairness: the tasks of Relay and Bridge run, timers fire, the sweeper   *)
(* ticks and messages are taken off their queues.  Nothing obliges the     *)
(* Browser to read, to send or to stay, nor a file to be readable.         *)
TransferSpec ==
  /\ TransferInit /\ [][TransferNext]_transferVars
  /\ \A t \in Transfers : WF_transferVars(Running /\ Steps(t))
  /\ WF_transferVars(Running /\ RelayReceives) /\ WF_transferVars(Running /\ BridgeReceives)

-----------------------------------------------------------------------------
(* Properties                                                              *)

(* Types; the channel never holds more than its capacity and no transfer   *)
(* is answered before it was created.                                      *)
TransferTypeOK ==
  /\ rel \in [Transfers ->
       [reg : {"new", "in", "out"}, dir : {"down", "up"}, term : BOOLEAN,
        sig : BOOLEAN, hand : {"open", "given", "picked"},
        ack : {"none", "pending", "open", "closed"},
        res : {"none", "completed", "failed", "cancelled"}]]
  /\ bro \in [Transfers ->
       [ph : {"idle", "declared", "wait", "stream", "result", "failed", "ended",
              "completed", "gone"},
        req : Ranges, h : Transfers, n : 0..Chunks, puts : 0..MaxPuts]]
  /\ bri \in [Transfers ->
       [ph : {"idle", "connect", "stream", "done"},
        tok : {"none", "live", "cancelled"}, n : 0..Chunks, off : 0..Chunks,
        len : 0..Chunks, ranged : BOOLEAN]]
  /\ pipe \in [Transfers ->
       [q : 0..Capacity, err : BOOLEAN, tx : BOOLEAN, rx : BOOLEAN, cut : BOOLEAN]]
  /\ pump \in [Transfers -> {"none", "read", "send", "done"}]
  /\ file \in [Transfers -> [n : 0..Chunks, inline : BOOLEAN,
                             grant : {"none", "valid", "expired"}, kept : BOOLEAN]]
  /\ \A t \in Transfers : rel[t].reg = "new" <=> bro[t].ph = "idle"

(* A Browser that is told its upload completed gets a handle for all the   *)
(* bytes it sent, and a download whose response ends without an error      *)
(* delivered exactly the bytes that were asked for, whatever was cancelled,*)
(* timed out or restarted in between (upload_stream, start_download,       *)
(* pump_body, consume).  Except: a pump that fails while the channel is    *)
(* full cannot write its error block, and a ranged response has no length. *)
WholeOrError ==
  \A t \in Transfers :
    /\ bro[t].ph = "completed" => file[t].n = Chunks
    /\ bro[t].ph = "ended" /\ ~pipe[t].cut =>
         {bri[t].off + i : i \in 0..(bro[t].n - 1)}
           = Asked(bro[t].req, file[bro[t].h].n)

(* Whatever the Browser does, and even if it stops reading for good, every *)
(* transfer leaves the registry and every task of the Bridge ends, so the  *)
(* slots of both ends (MAX_CONCURRENT_PER_DEVICE) come back - unless a     *)
(* second PUT of one upload made upload_stream panic.                      *)
SlotsReturn ==
  \A t \in Transfers :
    /\ rel[t].reg = "in" ~> rel[t].reg = "out" \/ panicked
    /\ bri[t].ph \in {"connect", "stream"} ~> bri[t].ph = "done" \/ panicked

=============================================================================
