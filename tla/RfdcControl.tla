---------------------------- MODULE RfdcControl ----------------------------
(***************************************************************************)
(* How an RFDC configuration reaches a board: RfdcService of webapp/rfdc.py *)
(* over BoardGateway.rfdc_apply, or Dr47Device.set_* and apply_rfdc_config *)
(* of dr47/device.py used as a library, both over UdpTransport.request.    *)
(*                                                                         *)
(* A request is sent up to RETRIES + 1 times with one sequence number; a   *)
(* receive may time out while the answer is still on its way.  The link to *)
(* the board is direct: it loses packets and does not reorder them.  A web *)
(* call opens a socket of its own, so a late answer finds it closed; the   *)
(* library keeps one socket, in which late answers stay.                   *)
(*                                                                         *)
(* A thread is [pc, c, att]: c is its call (what it applies, to which      *)
(* channels, the configuration it read and the sequence number in use) and *)
(* att the number of transmissions of the request that is outstanding.     *)
(*                                                                         *)
(* hw is the board: the settings in its registers, the channels whose      *)
(* settings it has confirmed, the revision of the last application it      *)
(* started or refused, and the last application it finished, whose answer  *)
(* it repeats.  An application takes less than the time-out of a receive,  *)
(* so it is one step.                                                      *)
(*                                                                         *)
(* History: alone is the web call under way that has overlapped no other;  *)
(* overlap is TRUE from when two were under way together until such a call *)
(* has stored an answer of the board; good holds the channels that the     *)
(* last library call applied, once it has returned.                        *)
(***************************************************************************)
EXTENDS Naturals, Sequences, FiniteSets

CONSTANTS Channels, Values,
          Requests,    \* the settings that web requests carry
          V0,          \* the value after power-up
          Web, Lib,    \* threads of the web server, the library user
          None,
          RETRIES,     \* retransmissions of a request
          MaxWebCalls, MaxLibCalls,    \* bounds: calls
          MaxFaults, MaxSeq            \* bounds: losses and starts of playback, requests

ASSUME ChannelsAssumption == IsFiniteSet(Channels)
ASSUME V0Assumption == V0 \in Values
ASSUME RequestsAssumption == Requests \subseteq [Channels -> Values]
ASSUME RetriesAssumption == RETRIES \in Nat
ASSUME LibAssumption == Lib \notin Web
ASSUME NoneAssumption == None \notin Web
ASSUME BoundsAssumption == {MaxWebCalls, MaxLibCalls, MaxFaults, MaxSeq} \subseteq Nat

VARIABLES web, hw, play, net, ans, th, stored, lock, seqn, pend, conn,
          alone, overlap, good, calls, faults

vars == <<web, hw, play, net, ans, th, stored, lock, seqn, pend, conn,
          alone, overlap, good, calls, faults>>

MaxCalls == IF web THEN MaxWebCalls ELSE MaxLibCalls
Threads == Web \cup {Lib}
NoActual == [c \in Channels |-> None]
NoCall == [op |-> "none", val |-> [c \in Channels |-> V0], actual |-> NoActual, mask |-> {}, rev |-> 0,
           valid |-> {}, seq |-> 0, second |-> FALSE, a |-> None]
NoThread == [pc |-> "end", c |-> NoCall, att |-> 0]
NotCached == [seq |-> 0, rev |-> 0, status |-> "none"]
PowerUp == [val |-> [c \in Channels |-> V0], valid |-> {}, rev |-> 0, cached |-> NotCached]

Init ==
  /\ web \in BOOLEAN
  /\ hw = PowerUp /\ play = FALSE
  /\ net = <<>> /\ ans = [x \in Threads |-> <<>>]
  /\ th = [x \in Threads |-> NoThread]
  /\ stored = [val |-> PowerUp.val, actual |-> NoActual, valid |-> {}, rev |-> 0, status |-> "unknown"]
  /\ lock = None /\ seqn = 0
  /\ pend = PowerUp.val /\ conn = FALSE
  /\ alone = None /\ overlap = FALSE /\ good = {} /\ calls = 0 /\ faults = 0

At(x, pc) == th[x].pc = pc
Goto(x, pc) == th' = [th EXCEPT ![x] = IF pc = "end" THEN NoThread ELSE [@ EXCEPT !.pc = pc]]
Fail == faults < MaxFaults /\ faults' = faults + 1

-----------------------------------------------------------------------------
(* The board: requests in the order they arrive, one answer each.           *)

Answer(p, status) == [seq |-> p.seq, op |-> p.op, status |-> status, h |-> hw', idle |-> ~play']

\* The answer reaches the socket of the call that sent the request, if that
\* is still open.
Reach(p, a) ==
  ans' = IF web /\ th[p.x].c.seq # p.seq THEN ans ELSE [ans EXCEPT ![p.x] = Append(@, a)]

Deliver(p, a) ==
  \/ Reach(p, a) /\ UNCHANGED faults
  \/ Fail /\ UNCHANGED ans

\* The board has finished this request and still has its answer.
Repeated(p) ==
  hw.cached.status # "none" /\ hw.cached.seq = p.seq /\ hw.cached.rev = p.rev

\* The settings after an application that has written some channels.
Written(p, done) == [c \in Channels |-> IF c \in done THEN p.val[c] ELSE hw.val[c]]
Cached(p, status) == [seq |-> p.seq, rev |-> p.rev, status |-> status]

\* An application makes its channels invalid first, and valid again as a whole
\* when every one is written and confirmed.
Committed(p) ==
  [val |-> Written(p, p.mask), valid |-> hw.valid \cup p.mask, rev |-> p.rev, cached |-> Cached(p, "OK")]
Broken(p, done) ==
  [val |-> Written(p, done), valid |-> hw.valid \ p.mask, rev |-> p.rev, cached |-> Cached(p, "AXI_ERROR")]

\* A refused application leaves its revision.
Refused(p) == [hw EXCEPT !.rev = p.rev, !.cached = NotCached]

repeat_apply(p) ==
  /\ Repeated(p)
  /\ UNCHANGED <<hw, play>>
  /\ Deliver(p, Answer(p, hw.cached.status))

\* Not while the board plays, which is muted some time later, and not out of range.
refuse_apply(p) ==
  /\ ~Repeated(p)
  /\ hw' = Refused(p)
  /\ \/ play /\ play' \in BOOLEAN /\ Deliver(p, Answer(p, "UNSAFE_STATE"))
     \/ ~play /\ UNCHANGED play /\ Fail /\ Reach(p, Answer(p, "RANGE"))

\* An AXI error, a register that reads back wrong or an NCO update that does
\* not come ends the application half way.
run_apply(p) ==
  /\ ~Repeated(p) /\ ~play /\ UNCHANGED play
  /\ \/ hw' = Committed(p) /\ Deliver(p, Answer(p, "OK"))
     \/ \E done \in SUBSET p.mask : hw' = Broken(p, done) /\ Fail /\ Reach(p, Answer(p, "AXI_ERROR"))

\* Busy, as while the tiles are probed, or the tiles are not ready.
busy(p) ==
  /\ UNCHANGED <<hw, play>>
  /\ Fail /\ Reach(p, Answer(p, "BUSY"))

board ==
  /\ net # <<>>
  /\ net' = Tail(net)
  /\ LET p == Head(net) IN
     \/ p.op = "RFDC_APPLY" /\ (repeat_apply(p) \/ refuse_apply(p) \/ run_apply(p) \/ busy(p))
     \/ p.op = "ABORT" /\ play' \in {play, FALSE} /\ UNCHANGED hw /\ Deliver(p, Answer(p, "OK"))
     \/ p.op \notin {"RFDC_APPLY", "ABORT"} /\ UNCHANGED <<play, hw>> /\ Deliver(p, Answer(p, "OK"))
  /\ UNCHANGED <<web, th, stored, lock, seqn, pend, conn, alone, overlap, good, calls>>

playback ==
  /\ \/ ~play /\ Fail
     \/ play /\ UNCHANGED faults
  /\ play' = ~play
  /\ UNCHANGED <<web, hw, net, ans, th, stored, lock, seqn, pend, conn, alone, overlap, good, calls>>

-----------------------------------------------------------------------------
(* UdpTransport.request and Dr47Device._request.                            *)

\* A new sequence number for the request that thread x goes on to make.
_next_sequence(x, pc, c) ==
  /\ seqn < MaxSeq
  /\ seqn' = seqn + 1
  /\ th' = [th EXCEPT ![x] = [pc |-> pc, c |-> [c EXCEPT !.seq = seqn + 1], att |-> 0]]

OpOf(x) == CASE At(x, "send_apply") -> "RFDC_APPLY" [] At(x, "send_get") -> "RFDC_GET_CONFIG"
             [] At(x, "send_abort") -> "ABORT" [] At(x, "send_hello") -> "HELLO"
             [] OTHER -> "STATUS"
WaitOf(pc) == CASE pc = "send_apply" -> "wait_apply" [] pc = "send_get" -> "wait_get"
                [] pc = "send_abort" -> "wait_abort" [] pc = "send_hello" -> "wait_hello"
                [] OTHER -> "wait_poll"
SendOf(pc) == CASE pc = "wait_apply" -> "send_apply" [] pc = "wait_get" -> "send_get"
                [] pc = "wait_abort" -> "send_abort" [] pc = "wait_hello" -> "send_hello"
                [] OTHER -> "send_poll"
Sending(x) == th[x].pc \in {"send_apply", "send_get", "send_abort", "send_hello", "send_poll"}
Waiting(x) == th[x].pc \in {"wait_apply", "wait_get", "wait_abort", "wait_hello", "wait_poll"}

\* The packet is the same in every transmission.
send(x) ==
  /\ Sending(x)
  /\ LET c == th[x].c
         p == [x |-> x, seq |-> c.seq, op |-> OpOf(x), val |-> c.val, mask |-> c.mask, rev |-> c.rev]
     IN \/ net' = Append(net, p) /\ UNCHANGED faults
        \/ Fail /\ UNCHANGED net
  /\ th' = [th EXCEPT ![x].pc = WaitOf(@), ![x].att = @ + 1]
  /\ UNCHANGED <<web, hw, play, ans, stored, lock, seqn, pend, conn, alone, overlap, good, calls>>

Answered(x, a) ==
  CASE At(x, "wait_apply") -> "applied" [] At(x, "wait_get") -> "got"
    [] At(x, "wait_abort") -> "poll" [] At(x, "wait_hello") -> "hello" [] OTHER -> "polled"

Unlock(x) == lock' = IF lock = x THEN None ELSE lock

\* ABORT is a request of the waveform protocol, the others are RFCTRL2.
SameProtocol(x, a) == a.op = "ABORT" <=> At(x, "wait_abort")

\* Variant: the first answer in the socket is taken for the answer.
receive_rfresp2_any(x) ==
  /\ Waiting(x)
  /\ ans[x] # <<>>
  /\ ans' = [ans EXCEPT ![x] = Tail(@)]
  /\ th' = [th EXCEPT ![x].pc = Answered(x, Head(ans[x])), ![x].c.a = Head(ans[x])]
  /\ Unlock(x)
  /\ UNCHANGED <<web, hw, play, net, stored, seqn, pend, conn, alone, overlap, good, calls, faults>>

\* Answers with another sequence number or opcode are skipped; one of the other
\* protocol is a ProtocolError, after which connect does not try again.  The
\* call gives up its socket and the lock with the answer.
receive_rfresp2(x) ==
  /\ Waiting(x)
  /\ ans[x] # <<>>
  /\ ans' = [ans EXCEPT ![x] = Tail(@)]
  /\ LET a == Head(ans[x]) IN
     \/ /\ SameProtocol(x, a) /\ a.seq = th[x].c.seq
        /\ th' = [th EXCEPT ![x].pc = Answered(x, a), ![x].c.a = a]
        /\ Unlock(x)
     \/ /\ SameProtocol(x, a) /\ a.seq # th[x].c.seq
        /\ UNCHANGED <<th, lock>>
     \/ /\ ~SameProtocol(x, a)
        /\ th' = [th EXCEPT ![x].pc = "raise", ![x].c.second = TRUE]
        /\ Unlock(x)
  /\ UNCHANGED <<web, hw, play, net, stored, seqn, pend, conn, alone, overlap, good, calls, faults>>

timeout(x) ==
  /\ Waiting(x)
  /\ \/ th[x].att <= RETRIES /\ Goto(x, SendOf(th[x].pc)) /\ UNCHANGED lock
     \/ th[x].att > RETRIES /\ Goto(x, "raise") /\ Unlock(x)
  /\ UNCHANGED <<web, hw, play, net, ans, stored, seqn, pend, conn, alone, overlap, good, calls, faults>>

-----------------------------------------------------------------------------
(* RfdcService and BoardGateway: threads of the web server.                 *)

save_rfdc_config(s) == stored' = s

\* x stores what the board answered.
Stores(x, s) == save_rfdc_config(s) /\ overlap' = (overlap /\ alone # x)

Begin(x) ==
  /\ calls < MaxCalls
  /\ calls' = calls + 1
  /\ At(x, "end")
  /\ LET others == \E y \in Web : ~At(y, "end")
     IN alone' = (IF others THEN None ELSE x) /\ overlap' = (overlap \/ others)
  /\ good' = {}

\* apply: the stored configuration and the status of the board are read; the
\* call is refused while the board plays or when the status does not come.  The
\* request carries the settings of every channel, and read-back values: none,
\* or those of a configuration that its sender has read.
apply(x, val, mask, actual) ==
  /\ web /\ x \in Web
  /\ Begin(x)
  /\ ~play
  /\ th' = [th EXCEPT ![x] = [pc |-> "pending", att |-> 0,
              c |-> [NoCall EXCEPT !.op = "apply", !.val = val, !.actual = actual, !.mask = mask,
                                   !.rev = stored.rev + 1, !.valid = stored.valid]]]
  /\ ans' = [ans EXCEPT ![x] = <<>>]
  /\ UNCHANGED <<web, hw, play, net, stored, lock, seqn, pend, conn, faults>>

\* The configuration of a call that has no answer: the channels count as valid
\* that did when the call began.
Unconfirmed(c, status) ==
  [val |-> c.val, actual |-> c.actual, valid |-> c.valid, rev |-> c.rev, status |-> status]

pending(x) ==
  /\ At(x, "pending")
  /\ save_rfdc_config(Unconfirmed(th[x].c, "pending"))
  /\ Goto(x, "lock")
  /\ UNCHANGED <<web, hw, play, net, ans, lock, seqn, pend, conn, alone, overlap, good, calls, faults>>

\* get with refresh reads the stored configuration, then the hardware.
get(x) ==
  /\ web /\ x \in Web
  /\ Begin(x)
  /\ th' = [th EXCEPT ![x] = [pc |-> "lock", att |-> 0,
              c |-> [NoCall EXCEPT !.op = "get", !.val = stored.val, !.actual = stored.actual,
                                   !.rev = stored.rev, !.valid = stored.valid]]]
  /\ ans' = [ans EXCEPT ![x] = <<>>]
  /\ UNCHANGED <<web, hw, play, net, stored, lock, seqn, pend, conn, faults>>

\* rfdc_apply and rfdc_get_config hold the control lock of the board until the
\* answer has come or the call has failed, as it does at once when the status
\* of the board does not come or lacks the capability.
Locked(x, op, pc) ==
  /\ At(x, "lock") /\ th[x].c.op = op /\ lock = None
  /\ \/ lock' = x /\ _next_sequence(x, pc, th[x].c)
     \/ Goto(x, "raise") /\ UNCHANGED <<lock, seqn>>
  /\ UNCHANGED <<web, hw, play, net, ans, stored, pend, conn, alone, overlap, good, calls, faults>>

rfdc_apply(x) == Locked(x, "apply", "send_apply")

rfdc_get_config(x) == Locked(x, "get", "send_get")

\* The read-back values of the channels that the board has confirmed are those
\* in its registers.
_config_from_hardware(c, a, status) ==
  [val |-> c.val,
   actual |-> [k \in Channels |-> IF k \in a.h.valid THEN a.h.val[k] ELSE c.actual[k]],
   valid |-> a.h.valid, rev |-> a.h.rev, status |-> status]

\* Variant: an answer with an error status counts as applied.
finish_apply_unchecked(x) ==
  /\ web /\ At(x, "applied")
  /\ Stores(x, _config_from_hardware(th[x].c, th[x].c.a, "applied"))
  /\ Goto(x, "end")
  /\ UNCHANGED <<web, hw, play, net, ans, lock, seqn, pend, conn, alone, good, calls, faults>>

\* The driver raises on every status but OK.
finish_apply(x) ==
  /\ web /\ At(x, "applied")
  /\ LET c == th[x].c IN
     IF c.a.status = "OK"
     THEN Stores(x, _config_from_hardware(c, c.a, "applied")) /\ Goto(x, "end")
     ELSE UNCHANGED <<stored, overlap>> /\ Goto(x, "raise")
  /\ UNCHANGED <<web, hw, play, net, ans, lock, seqn, pend, conn, alone, good, calls, faults>>

finish_get(x) ==
  /\ web /\ At(x, "got")
  /\ Stores(x, _config_from_hardware(th[x].c, th[x].c.a, "applied"))
  /\ Goto(x, "end")
  /\ UNCHANGED <<web, hw, play, net, ans, lock, seqn, pend, conn, alone, good, calls, faults>>

\* An exception of apply leaves the pending configuration, as failed; get
\* leaves what is stored.
failed(x) ==
  /\ web /\ At(x, "raise")
  /\ LET c == th[x].c IN
     IF c.op = "apply" THEN save_rfdc_config(Unconfirmed(c, "failed")) ELSE UNCHANGED stored
  /\ Goto(x, "end")
  /\ UNCHANGED <<web, hw, play, net, ans, lock, seqn, pend, conn, alone, overlap, good, calls, faults>>

-----------------------------------------------------------------------------
(* Dr47Device as a library: one thread, one socket, pending settings.       *)

\* connect: HELLO, then STATUS; a timeout starts the handshake again, once, and
\* another error gives up.
connect ==
  /\ ~web /\ ~conn
  /\ Begin(Lib)
  /\ _next_sequence(Lib, "send_hello", [NoCall EXCEPT !.op = "connect"])
  /\ UNCHANGED <<web, hw, play, net, ans, stored, lock, pend, conn, faults>>

hello ==
  /\ At(Lib, "hello")
  /\ conn' = TRUE
  /\ _next_sequence(Lib, "send_poll", th[Lib].c)
  /\ UNCHANGED <<web, hw, play, net, ans, stored, lock, pend, alone, overlap, good, calls, faults>>

\* set_xy_nco_frequency and the others change one pending channel, then apply
\* it unless the device is in batch mode; commit applies all of them.  The
\* revision of the device grows with every application.
set_xy_nco_frequency(c, v, batch) ==
  /\ ~web /\ conn
  /\ Begin(Lib)
  /\ pend' = [pend EXCEPT ![c] = v]
  /\ IF batch THEN UNCHANGED <<th, seqn>>
     ELSE _next_sequence(Lib, "send_apply",
            [NoCall EXCEPT !.op = "set", !.val = pend', !.mask = {c}, !.rev = calls + 1])
  /\ UNCHANGED <<web, hw, play, net, ans, stored, lock, conn, faults>>

commit ==
  /\ ~web /\ conn
  /\ Begin(Lib)
  /\ _next_sequence(Lib, "send_apply",
       [NoCall EXCEPT !.op = "set", !.val = pend, !.mask = Channels, !.rev = calls + 1])
  /\ UNCHANGED <<web, hw, play, net, ans, stored, lock, pend, conn, faults>>

\* _apply_pending: RFDC_APPLY refused as unsafe is repeated once, after an
\* ABORT and a STATUS that shows the board idle.
_apply_pending ==
  /\ ~web /\ At(Lib, "applied")
  /\ LET c == th[Lib].c IN
     CASE c.a.status = "OK" -> good' = c.mask /\ Goto(Lib, "end") /\ UNCHANGED seqn
       [] c.a.status = "UNSAFE_STATE" /\ ~c.second ->
            UNCHANGED good /\ _next_sequence(Lib, "send_abort", [c EXCEPT !.second = TRUE])
       [] OTHER -> UNCHANGED <<good, seqn>> /\ Goto(Lib, "raise")
  /\ UNCHANGED <<web, hw, play, net, ans, stored, lock, pend, conn, alone, overlap, calls, faults>>

poll ==
  /\ At(Lib, "poll")
  /\ _next_sequence(Lib, "send_poll", th[Lib].c)
  /\ UNCHANGED <<web, hw, play, net, ans, stored, lock, pend, conn, alone, overlap, good, calls, faults>>

\* _wait_for_playback_idle, and the STATUS of connect and status.
_wait_for_playback_idle ==
  /\ At(Lib, "polled")
  /\ LET c == th[Lib].c IN
     \/ c.op = "connect" /\ UNCHANGED good /\ Goto(Lib, "end") /\ UNCHANGED seqn
     \/ c.op = "set" /\ c.a.idle /\ _next_sequence(Lib, "send_apply", c) /\ UNCHANGED good
     \/ c.op = "set" /\ ~c.a.idle /\ (Goto(Lib, "poll") \/ Goto(Lib, "raise")) /\ UNCHANGED <<seqn, good>>
  /\ UNCHANGED <<web, hw, play, net, ans, stored, lock, pend, conn, alone, overlap, calls, faults>>

\* connect gives up the connection after the second handshake; set_* leave
\* the pending value.
raise ==
  /\ ~web /\ At(Lib, "raise")
  /\ LET c == th[Lib].c IN
     IF c.op = "connect" /\ ~c.second
     THEN conn' = FALSE /\ _next_sequence(Lib, "send_hello", [c EXCEPT !.second = TRUE])
     ELSE conn' = (conn /\ c.op # "connect") /\ Goto(Lib, "end") /\ UNCHANGED seqn
  /\ UNCHANGED <<web, hw, play, net, ans, stored, lock, pend, alone, overlap, good, calls, faults>>

-----------------------------------------------------------------------------
Next ==
  \/ board \/ playback
  \/ \E x \in Threads : send(x) \/ receive_rfresp2(x) \/ timeout(x)
  \/ \E x \in Web :
       \/ \E val \in Requests, mask \in SUBSET Channels \ {{}} :
            \E actual \in {NoActual, stored.actual} : apply(x, val, mask, actual)
       \/ get(x) \/ pending(x) \/ rfdc_apply(x) \/ rfdc_get_config(x)
       \/ finish_apply(x) \/ finish_get(x) \/ failed(x)
  \/ connect \/ hello \/ commit \/ _apply_pending \/ poll \/ _wait_for_playback_idle \/ raise
  \/ \E c \in Channels, v \in Values, batch \in BOOLEAN : set_xy_nco_frequency(c, v, batch)

Spec == Init /\ [][Next]_vars

-----------------------------------------------------------------------------
Statuses == {"OK", "UNSAFE_STATE", "RANGE", "AXI_ERROR", "BUSY"}
Cache == [seq : 0..MaxSeq, rev : 0..MaxCalls, status : Statuses \cup {"none"}]
Settings == [val : [Channels -> Values], valid : SUBSET Channels, rev : 0..MaxCalls, cached : Cache]

TypeOK ==
  /\ web \in BOOLEAN /\ play \in BOOLEAN /\ conn \in BOOLEAN
  /\ hw \in Settings
  /\ stored \in [val : [Channels -> Values], actual : [Channels -> Values \cup {None}],
                 valid : SUBSET Channels, rev : 0..MaxCalls,
                 status : {"unknown", "pending", "applied", "failed"}]
  /\ pend \in [Channels -> Values] /\ good \subseteq Channels
  /\ lock \in Web \cup {None} /\ alone \in Threads \cup {None}
  /\ \A x \in Threads : th[x].att \in 0..(RETRIES + 1)
  /\ seqn \in 0..MaxSeq /\ calls \in 0..MaxCalls /\ faults \in 0..MaxFaults

\* No web call is under way, and calls that overlapped have been followed by one
\* that was alone and stored what the board answered.
Settled == web /\ ~overlap /\ \A x \in Web : At(x, "end")

\* Calls that do not overlap keep the store true, and one makes it true again
\* after calls that did: once it says applied and nothing is under way, its
\* revision and the channels it counts as valid are those of the board and each
\* of these has the value the store shows, also after requests that timed out
\* and took effect later, or that failed half way.
StoreIsTrue ==
  Settled /\ stored.status = "applied" =>
    /\ stored.rev = hw.rev /\ stored.valid = hw.valid
    /\ \A c \in stored.valid : stored.actual[c] = hw.val[c]

\* When a library call returns, the board has the pending value of every
\* channel that the call applied; no late answer is taken for its own.
ReturnMeansApplied ==
  \A c \in good : hw.val[c] = pend[c]
=============================================================================
