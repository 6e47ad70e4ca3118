------------------------- MODULE RfdcControlProofs -------------------------
(***************************************************************************)
(* Invariance proofs for RfdcControl, for every set of channels, values    *)
(* and web threads, any number of retransmissions and any bounds.  The     *)
(* inductive invariant says that a request that was answered has taken     *)
(* effect (AnswerInv, Done), and that the board has the answer to the      *)
(* copies of it that are still on the link, so that they change nothing    *)
(* (Quiet).                                                                *)
(***************************************************************************)
EXTENDS RfdcControl, TLAPS

Ops == {"RFDC_APPLY", "RFDC_GET_CONFIG", "ABORT", "HELLO", "STATUS"}
Sends == {"send_apply", "send_get", "send_abort", "send_hello", "send_poll"}
Waits == {"wait_apply", "wait_get", "wait_abort", "wait_hello", "wait_poll"}
WebPcs == {"end", "pending", "lock", "send_apply", "wait_apply", "applied", "send_get", "wait_get",
           "got", "raise"}
LibPcs == {"end", "send_hello", "wait_hello", "hello", "send_poll", "wait_poll", "polled", "poll",
           "send_abort", "wait_abort", "send_apply", "wait_apply", "applied", "raise"}

\* A request of the thread is outstanding.
Current == Sends \cup Waits
\* The thread goes by the answer it has taken.
Holds == {"applied", "got"}
\* The request or the answer of thread k is the last that was made, which is n.
Live(k, n) == k.pc \in Current \cup Holds /\ k.c.seq = n

PcOp(pc) == CASE pc \in {"send_apply", "wait_apply", "applied"} -> "RFDC_APPLY"
              [] pc \in {"send_get", "wait_get", "got"} -> "RFDC_GET_CONFIG"
              [] pc \in {"send_abort", "wait_abort"} -> "ABORT"
              [] pc \in {"send_hello", "wait_hello"} -> "HELLO"
              [] OTHER -> "STATUS"

Caches == [seq : Nat, rev : Nat, status : Statuses \cup {"none"}]
Board == [val : [Channels -> Values], valid : SUBSET Channels, rev : Nat, cached : Caches]
Packets == [x : Threads, seq : Nat, op : Ops, val : [Channels -> Values], mask : SUBSET Channels,
            rev : Nat]
Replies == [seq : Nat, op : Ops, status : Statuses \cup {"none"}, h : Board, idle : BOOLEAN]
Actuals == [Channels -> Values \cup {None}]
Calls == [op : {"none", "apply", "get", "connect", "set"}, val : [Channels -> Values],
          actual : Actuals, mask : SUBSET Channels, rev : Nat, valid : SUBSET Channels, seq : Nat,
          second : BOOLEAN, a : Replies \cup {None}]
ThreadRec == [pc : WebPcs \cup LibPcs, c : Calls, att : Nat]
Store == [val : [Channels -> Values], actual : Actuals, valid : SUBSET Channels,
          rev : Nat, status : {"unknown", "pending", "applied", "failed"}]

Elems(s) == {s[i] : i \in DOMAIN s}
Sorted(s) == \A i, j \in DOMAIN s : i <= j => s[i].seq <= s[j].seq

TypeInv ==
  /\ web \in BOOLEAN /\ play \in BOOLEAN /\ conn \in BOOLEAN /\ overlap \in BOOLEAN
  /\ hw \in Board /\ stored \in Store
  /\ net \in Seq(Packets) /\ ans \in [Threads -> Seq(Replies)]
  /\ th \in [Threads -> ThreadRec]
  /\ pend \in [Channels -> Values] /\ good \in SUBSET Channels
  /\ lock \in Web \cup {None} /\ alone \in Threads \cup {None}
  /\ seqn \in 0..MaxSeq /\ calls \in 0..MaxCalls /\ faults \in 0..MaxFaults

\* Where thread x, which is k, may be.
PlaceOK(x, k, w, l, n) ==
  /\ IF k.pc = "end" THEN k.c.op = "none" ELSE IF x = Lib THEN ~w ELSE w
  /\ x # Lib => /\ k.pc \in WebPcs
                /\ k.pc # "end" => k.c.op \in {"apply", "get"}
                /\ k.c.op = "apply" => k.pc \notin {"send_get", "wait_get", "got"}
                /\ k.c.op = "get" => k.pc \notin {"pending", "send_apply", "wait_apply", "applied"}
                /\ k.pc \in Current => l = x
  /\ x = Lib => /\ k.pc \in LibPcs
                /\ k.pc # "end" => k.c.op \in {"connect", "set"}
                /\ k.pc \in {"send_apply", "wait_apply", "applied"} => k.c.op = "set"
  /\ k.c.seq <= n /\ (k.pc \in Current => k.c.seq = n)
  /\ k.pc \in Sends => k.att <= RETRIES
  /\ k.att <= RETRIES + 1
  /\ k.pc \in Holds => k.c.a \in Replies

PlaceInv ==
  /\ \A x \in Threads : PlaceOK(x, th[x], web, lock, seqn)
  /\ \A x, y \in Threads : Live(th[x], seqn) /\ Live(th[y], seqn) => x = y

\* The call or the packet c has taken effect on the board, which is h.
Done(c, h) ==
  c.rev = h.rev /\ c.mask \subseteq h.valid /\ \A k \in c.mask : h.val[k] = c.val[k]

\* The board, which is h, has confirmed request n with revision r.
Confirmed(n, r, h) == h.cached.seq = n /\ h.cached.rev = r /\ h.cached.status = "OK"

\* The packets on the link, in the order of their sequence numbers.  Those with
\* the last number are copies of the request that is outstanding, if one is.
Copy(p, k) ==
  p.op = PcOp(k.pc) /\ p.val = k.c.val /\ p.mask = k.c.mask /\ p.rev = k.c.rev
PacketInv ==
  /\ Sorted(net)
  /\ \A p \in Elems(net) : p.seq <= seqn
  /\ \A p \in Elems(net) : \A x \in Threads :
       p.seq = seqn /\ Live(th[x], seqn) => Copy(p, th[x])

\* What thread k may conclude from the answer a to its request.
AnswerOK(a, k, n, N, h) ==
  /\ a.op = PcOp(k.pc)
  /\ a.op # "RFDC_APPLY" => a.status = "OK"
  /\ a.status = "OK" =>
       /\ a.h = h
       /\ \A p \in N : p.seq = n
       /\ a.op = "RFDC_APPLY" => Done(k.c, h) /\ Confirmed(n, k.c.rev, h)
AnswerInv ==
  \A x \in Threads :
    /\ \A a \in Elems(ans[x]) : a.seq <= seqn
    /\ Live(th[x], seqn) =>
         /\ \A a \in Elems(ans[x]) : a.seq = seqn => AnswerOK(a, th[x], seqn, Elems(net), hw)
         /\ th[x].pc \in Holds => AnswerOK(th[x].c.a, th[x], seqn, Elems(net), hw)

\* The last request has taken effect when the board has confirmed it.
CacheInv ==
  /\ hw.cached.seq <= seqn
  /\ \A x \in Threads :
       Live(th[x], seqn) /\ PcOp(th[x].pc) = "RFDC_APPLY" /\ Confirmed(seqn, th[x].c.rev, hw)
         => Done(th[x].c, hw)

\* Nothing names a revision that no call has used.
KnownInv ==
  /\ hw.rev <= calls /\ hw.cached.rev <= calls /\ stored.rev <= calls
  /\ \A x \in Threads : /\ th[x].c.rev <= calls
                        /\ \A a \in Elems(ans[x]) : a.h.rev <= calls
                        /\ th[x].pc \in Holds => th[x].c.a.h.rev <= calls
  /\ \A p \in Elems(net) : p.rev <= calls

\* The board has the answers to the applications that are still on the link.
Quiet == \A p \in Elems(net) : p.op = "RFDC_APPLY" => Repeated(p)

\* The store shows what the board has, and nothing on the link changes that.
InSync ==
  /\ stored.rev = hw.rev /\ stored.valid = hw.valid
  /\ \A c \in stored.valid : stored.actual[c] = hw.val[c]
  /\ Quiet

Active(x) == th[x].pc # "end"

\* A call that overlaps no other holds the last answer, and nobody else writes
\* the store meanwhile.
SyncInv ==
  web =>
    /\ \A x, y \in Web : Active(x) /\ alone = x /\ Active(y) => y = x
    /\ ~overlap => \A x \in Web : Active(x) => alone = x
    /\ \A x \in Web : Active(x) /\ alone = x /\ th[x].c.op = "apply" /\ th[x].pc # "pending"
                        => stored.status = "pending"
    /\ \A x \in Web : alone = x /\ th[x].pc \in Holds => th[x].c.seq = seqn
    /\ ~overlap /\ stored.status = "applied" => InSync

GoodInv ==
  /\ ~web /\ th[Lib].pc # "end" /\ th[Lib].c.op = "set" => th[Lib].c.val = pend
  /\ ~web /\ th[Lib].pc \in Holds => th[Lib].c.seq = seqn
  /\ good # {} =>
       /\ ~web /\ th[Lib].pc = "end"
       /\ Quiet /\ \A k \in good : hw.val[k] = pend[k]

IInv ==
  TypeInv /\ PlaceInv /\ PacketInv /\ AnswerInv /\ CacheInv /\ KnownInv /\ SyncInv /\ GoodInv

-----------------------------------------------------------------------------
(* Sequences, and what the board does with a packet.                        *)

\* The first element of a queue goes, the others stay in their order.
LEMMA TailFacts ==
  ASSUME NEW S, NEW s \in Seq(S), s # <<>>
  PROVE  /\ Head(s) \in S /\ Tail(s) \in Seq(S)
         /\ Head(s) \in Elems(s) /\ Elems(Tail(s)) \subseteq Elems(s)
<1>1. Len(s) \in Nat \ {0} /\ Head(s) = s[1] /\ 1 \in DOMAIN s /\ s[1] \in S
  OBVIOUS
<1>2. Tail(s) \in Seq(S) /\ Len(Tail(s)) = Len(s) - 1
  OBVIOUS
<1>3. \A i \in DOMAIN Tail(s) : i + 1 \in DOMAIN s /\ Tail(s)[i] = s[i + 1]
  BY <1>1, <1>2
<1>4. QED
  BY <1>1, <1>2, <1>3 DEF Elems

\* A queue that was sorted stays sorted, and its first element came first.
LEMMA TailSorted ==
  ASSUME NEW s \in Seq(Packets), s # <<>>, Sorted(s)
  PROVE  Sorted(Tail(s)) /\ \A p \in Elems(Tail(s)) : Head(s).seq <= p.seq
<1>1. Len(s) \in Nat \ {0} /\ Head(s) = s[1] /\ 1 \in DOMAIN s /\ DOMAIN s = 1..Len(s)
  OBVIOUS
<1>2. Tail(s) \in Seq(Packets) /\ DOMAIN Tail(s) = 1..(Len(s) - 1)
  OBVIOUS
<1>3. \A i \in DOMAIN Tail(s) : i + 1 \in DOMAIN s /\ 1 <= i + 1 /\ Tail(s)[i] = s[i + 1]
  BY <1>1, <1>2
<1>4. \A i, j \in DOMAIN Tail(s) : i <= j => i + 1 <= j + 1
  BY <1>1, <1>2
<1>5. Sorted(Tail(s))
  BY <1>3, <1>4 DEF Sorted
<1>6. \A i \in DOMAIN Tail(s) : Head(s).seq <= Tail(s)[i].seq
  BY <1>1, <1>3 DEF Sorted
<1>7. QED
  BY <1>5, <1>6 DEF Elems

\* A new element goes to the end of the queue.
LEMMA AppendFacts ==
  ASSUME NEW S, NEW s \in Seq(S), NEW e \in S
  PROVE  Append(s, e) \in Seq(S) /\ Elems(Append(s, e)) = Elems(s) \cup {e}
<1>1. /\ Append(s, e) \in Seq(S) /\ DOMAIN s = 1..Len(s) /\ Len(s) \in Nat
      /\ DOMAIN Append(s, e) = 1..(Len(s) + 1) /\ Append(s, e)[Len(s) + 1] = e
      /\ \A i \in DOMAIN s : Append(s, e)[i] = s[i]
  OBVIOUS
<1>2. 1..(Len(s) + 1) = 1..Len(s) \cup {Len(s) + 1}
  BY <1>1
<1>3. QED
  BY <1>1, <1>2 DEF Elems

\* A queue stays sorted when the new element has the largest number.
LEMMA AppendSorted ==
  ASSUME NEW s \in Seq(Packets), NEW p \in Packets, Sorted(s), \A q \in Elems(s) : q.seq <= p.seq
  PROVE  Sorted(Append(s, p))
<1>1. /\ DOMAIN s = 1..Len(s) /\ Len(s) \in Nat
      /\ DOMAIN Append(s, p) = 1..(Len(s) + 1) /\ Append(s, p)[Len(s) + 1] = p
      /\ \A i \in DOMAIN s : Append(s, p)[i] = s[i]
  OBVIOUS
<1>2. p.seq <= p.seq
  BY DEF Packets
<1>3. ASSUME NEW i \in DOMAIN Append(s, p), NEW j \in DOMAIN Append(s, p), i <= j
      PROVE  Append(s, p)[i].seq <= Append(s, p)[j].seq
  <2>1. CASE j \in DOMAIN s
    <3>1. i \in DOMAIN s
      BY <1>1, <1>3, <2>1
    <3>2. QED
      BY <1>1, <1>3, <2>1, <3>1 DEF Sorted
  <2>2. CASE j = Len(s) + 1 /\ i \in DOMAIN s
    BY <1>1, <2>2 DEF Elems
  <2>3. CASE j = Len(s) + 1 /\ i = Len(s) + 1
    BY <1>1, <1>2, <2>3
  <2>4. QED
    BY <1>1, <2>1, <2>2, <2>3
<1>4. QED
  BY <1>3 DEF Sorted

\* An empty queue has no elements.
LEMMA EmptyFacts ==
  /\ Elems(<<>>) = {} /\ Sorted(<<>>)
  /\ \A S : <<>> \in Seq(S)
  BY DEF Elems, Sorted
\* The copies of an outstanding request have taken effect when the call has.
LEMMA CopyDone ==
  ASSUME NEW p, NEW k, NEW h, Copy(p, k)
  PROVE  Done(p, h) <=> Done(k.c, h)
  BY DEF Copy, Done

-----------------------------------------------------------------------------
(* Each transmission and each step of the board.                            *)

\* What a step of the board does to it when it takes p: nothing, or it starts
\* the application p, which it has confirmed only if it has taken effect.
Effect(p) ==
  \/ hw' = hw
  \/ /\ p.op = "RFDC_APPLY" /\ ~Repeated(p) /\ hw' \in Board
     /\ hw'.rev = p.rev
     /\ \/ hw'.cached = NotCached
        \/ /\ hw'.cached.seq = p.seq /\ hw'.cached.rev = p.rev
           /\ hw'.cached.status = "OK" => Done(p, hw')

\* What the answer a to packet p tells.
Tells(p, a) ==
  /\ a \in Replies /\ a.seq = p.seq /\ a.op = p.op /\ a.h = hw'
  /\ a.op # "RFDC_APPLY" => a.status = "OK"
  /\ a.op = "RFDC_APPLY" /\ a.status = "OK" =>
       Confirmed(p.seq, p.rev, hw') /\ (hw' = hw \/ Done(p, hw'))

\* The states that an application leaves.
LEMMA ApplyFacts ==
  ASSUME hw \in Board, NEW p \in Packets
  PROVE  /\ Refused(p) \in Board /\ Refused(p).rev = p.rev /\ Refused(p).cached = NotCached
         /\ Committed(p) \in Board /\ Committed(p).rev = p.rev
         /\ Done(p, Committed(p)) /\ Confirmed(p.seq, p.rev, Committed(p))
         /\ \A done \in SUBSET p.mask :
              /\ Broken(p, done) \in Board /\ Broken(p, done).rev = p.rev
              /\ Broken(p, done).cached.seq = p.seq /\ Broken(p, done).cached.rev = p.rev
              /\ Broken(p, done).cached.status = "AXI_ERROR"
<1>1. /\ hw.val \in [Channels -> Values] /\ hw.valid \in SUBSET Channels /\ p.rev \in Nat /\ p.seq \in Nat
      /\ p.mask \in SUBSET Channels /\ p.val \in [Channels -> Values]
  BY DEF Board, Packets
<1>2. \A done \in SUBSET p.mask :
        /\ Written(p, done) \in [Channels -> Values]
        /\ \A c \in done : Written(p, done)[c] = p.val[c]
  BY <1>1 DEF Written
<1>3. NotCached \in Caches /\ Cached(p, "OK") \in Caches /\ Cached(p, "AXI_ERROR") \in Caches
      /\ \A s : Cached(p, s).seq = p.seq /\ Cached(p, s).rev = p.rev /\ Cached(p, s).status = s
  BY <1>1 DEF NotCached, Cached, Caches, Statuses
<1>4. Refused(p) \in Board /\ Refused(p).rev = p.rev /\ Refused(p).cached = NotCached
  BY <1>1, <1>3 DEF Refused, Board
<1>5. Committed(p) \in Board /\ Committed(p).rev = p.rev
      /\ Done(p, Committed(p)) /\ Confirmed(p.seq, p.rev, Committed(p))
  <2>1. p.mask \in SUBSET p.mask /\ p.mask \subseteq hw.valid \cup p.mask
    OBVIOUS
  <2>2. /\ Committed(p).val = Written(p, p.mask) /\ Committed(p).valid = hw.valid \cup p.mask
        /\ Committed(p).rev = p.rev /\ Committed(p).cached = Cached(p, "OK")
        /\ Committed(p) = [val |-> Written(p, p.mask), valid |-> hw.valid \cup p.mask, rev |-> p.rev,
                           cached |-> Cached(p, "OK")]
    BY DEF Committed
  <2>3. Committed(p) \in Board
    BY <1>1, <1>2, <1>3, <2>1, <2>2 DEF Board
  <2>4. Confirmed(p.seq, p.rev, Committed(p))
    BY <1>3, <2>2 DEF Confirmed
  <2>5. Done(p, Committed(p))
    BY <1>2, <2>1, <2>2 DEF Done
  <2>6. QED
    BY <2>2, <2>3, <2>4, <2>5
<1>6. ASSUME NEW done \in SUBSET p.mask
      PROVE  /\ Broken(p, done) \in Board /\ Broken(p, done).rev = p.rev
             /\ Broken(p, done).cached.seq = p.seq /\ Broken(p, done).cached.rev = p.rev
             /\ Broken(p, done).cached.status = "AXI_ERROR"
  <2>1. Broken(p, done) = [val |-> Written(p, done), valid |-> hw.valid \ p.mask, rev |-> p.rev,
                           cached |-> Cached(p, "AXI_ERROR")]
    BY DEF Broken
  <2>2. hw.valid \ p.mask \in SUBSET Channels /\ Written(p, done) \in [Channels -> Values]
    BY <1>1, <1>2
  <2>3. QED
    BY <1>1, <1>3, <2>1, <2>2 DEF Board
<1>7. QED
  BY <1>4, <1>5, <1>6

\* The board takes the first packet; its answer tells what it did.
LEMMA BoardFacts ==
  ASSUME TypeInv, board
  PROVE  /\ net # <<>> /\ net' = Tail(net) /\ Head(net) \in Packets
         /\ Effect(Head(net)) /\ hw' \in Board
         /\ \/ ans' = ans
            \/ \E a : Tells(Head(net), a) /\ ans' = [ans EXCEPT ![Head(net).x] = Append(@, a)]
         /\ play' \in BOOLEAN /\ faults' \in 0..MaxFaults
         /\ UNCHANGED <<web, th, stored, lock, seqn, pend, conn, alone, overlap, good, calls>>
<1> DEFINE p == Head(net)
<1>1. /\ net # <<>> /\ net' = Tail(net)
      /\ UNCHANGED <<web, th, stored, lock, seqn, pend, conn, alone, overlap, good, calls>>
      /\ \/ p.op = "RFDC_APPLY" /\ (repeat_apply(p) \/ refuse_apply(p) \/ run_apply(p) \/ busy(p))
         \/ /\ p.op # "RFDC_APPLY" /\ play' \in {play, FALSE} /\ hw' = hw
            /\ Deliver(p, Answer(p, "OK"))
  BY DEF board
<1>2. p \in Packets /\ p.x \in Threads /\ p.seq \in Nat /\ p.op \in Ops /\ p.mask \subseteq Channels
  <2>1. net \in Seq(Packets)
    BY DEF TypeInv
  <2>2. p \in Packets
    BY <1>1, <2>1, TailFacts
  <2>3. QED
    BY <2>2 DEF Packets
<1>3. hw \in Board /\ hw.cached \in Caches /\ play \in BOOLEAN /\ faults \in 0..MaxFaults /\ MaxFaults \in Nat
  BY BoundsAssumption DEF TypeInv, Board
<1>4. Fail => faults' \in 0..MaxFaults
  BY <1>3 DEF Fail
<1> HIDE DEF p
<1> DEFINE Sent(a) == ans' = ans \/ ans' = [ans EXCEPT ![p.x] = Append(@, a)]
<1>5. \A a : Deliver(p, a) => Sent(a) /\ faults' \in 0..MaxFaults
  BY <1>3, <1>4 DEF Deliver, Reach
<1>6. \A a : Fail /\ Reach(p, a) => Sent(a) /\ faults' \in 0..MaxFaults
  BY <1>4 DEF Reach
<1>7. ASSUME NEW status \in Statuses \cup {"none"}, hw' \in Board, play' \in BOOLEAN
      PROVE  /\ Answer(p, status) \in Replies /\ Answer(p, status).seq = p.seq
             /\ Answer(p, status).op = p.op /\ Answer(p, status).status = status
             /\ Answer(p, status).h = hw'
  BY <1>2, <1>7 DEF Answer, Replies
<1>8. ASSUME NEW status \in Statuses \cup {"none"}, Sent(Answer(p, status)), faults' \in 0..MaxFaults,
             hw' \in Board, play' \in BOOLEAN, Effect(p),
             p.op # "RFDC_APPLY" => status = "OK",
             p.op = "RFDC_APPLY" /\ status = "OK" =>
               Confirmed(p.seq, p.rev, hw') /\ (hw' = hw \/ Done(p, hw'))
      PROVE  /\ Effect(p) /\ hw' \in Board /\ play' \in BOOLEAN /\ faults' \in 0..MaxFaults
             /\ \/ ans' = ans
                \/ \E a : Tells(p, a) /\ ans' = [ans EXCEPT ![p.x] = Append(@, a)]
  <2>1. Tells(p, Answer(p, status))
    BY <1>7, <1>8 DEF Tells
  <2>2. QED
    BY <1>8, <2>1
<1> HIDE DEF Sent
<1>9. {"OK", "UNSAFE_STATE", "RANGE", "AXI_ERROR", "BUSY"} \subseteq Statuses \cup {"none"}
  BY DEF Statuses
<1>10. hw' = hw => Effect(p) /\ hw' \in Board
  BY <1>3 DEF Effect
<1> DEFINE Goal == /\ Effect(p) /\ hw' \in Board /\ play' \in BOOLEAN /\ faults' \in 0..MaxFaults
                   /\ \/ ans' = ans
                      \/ \E a : Tells(p, a) /\ ans' = [ans EXCEPT ![p.x] = Append(@, a)]
<1>11. ASSUME p.op = "RFDC_APPLY" /\ repeat_apply(p)
      PROVE  Goal
  <2>1. /\ Repeated(p) /\ hw' = hw /\ play' = play /\ Deliver(p, Answer(p, hw.cached.status))
    BY <1>11 DEF repeat_apply
  <2>2. hw.cached.status \in Statuses \cup {"none"}
    BY <1>3 DEF Caches
  <2>3. hw.cached.status = "OK" => Confirmed(p.seq, p.rev, hw')
    BY <2>1 DEF Repeated, Confirmed
  <2>4. Sent(Answer(p, hw.cached.status)) /\ faults' \in 0..MaxFaults /\ play' \in BOOLEAN
    BY <1>3, <1>5, <2>1
  <2>5. QED
    BY <1>8, <1>10, <1>11, <2>1, <2>2, <2>3, <2>4
<1>12. ASSUME p.op = "RFDC_APPLY" /\ refuse_apply(p)
      PROVE  Goal
  <2>1. /\ ~Repeated(p) /\ hw' = Refused(p) /\ play' \in BOOLEAN
        /\ \E status \in {"UNSAFE_STATE", "RANGE"} :
             Deliver(p, Answer(p, status)) \/ (Fail /\ Reach(p, Answer(p, status)))
    BY <1>3, <1>12 DEF refuse_apply
  <2>2. PICK status \in {"UNSAFE_STATE", "RANGE"} :
          Deliver(p, Answer(p, status)) \/ (Fail /\ Reach(p, Answer(p, status)))
    BY <2>1
  <2>3. Effect(p) /\ hw' \in Board
    BY <1>2, <1>3, <1>12, <2>1, ApplyFacts DEF Effect
  <2>4. Sent(Answer(p, status)) /\ faults' \in 0..MaxFaults
    BY <1>5, <1>6, <2>2
  <2>5. QED
    BY <1>8, <1>9, <1>12, <2>1, <2>3, <2>4
<1>13. ASSUME p.op = "RFDC_APPLY" /\ run_apply(p)
      PROVE  Goal
  <2>1. ~Repeated(p) /\ play' = play
    BY <1>13 DEF run_apply
  <2>2. CASE hw' = Committed(p) /\ Deliver(p, Answer(p, "OK"))
    <3>1. Effect(p) /\ hw' \in Board /\ Confirmed(p.seq, p.rev, hw') /\ Done(p, hw')
      BY <1>2, <1>3, <1>13, <2>1, <2>2, ApplyFacts DEF Effect, Confirmed
    <3>2. Sent(Answer(p, "OK")) /\ faults' \in 0..MaxFaults /\ play' \in BOOLEAN
      BY <1>3, <1>5, <2>1, <2>2
    <3>3. QED
      BY <1>8, <1>9, <1>13, <3>1, <3>2
  <2>3. CASE \E done \in SUBSET p.mask : hw' = Broken(p, done) /\ Fail /\ Reach(p, Answer(p, "AXI_ERROR"))
    <3>1. Effect(p) /\ hw' \in Board
      BY <1>2, <1>3, <1>13, <2>1, <2>3, ApplyFacts DEF Effect
    <3>2. Sent(Answer(p, "AXI_ERROR")) /\ faults' \in 0..MaxFaults /\ play' \in BOOLEAN
      BY <1>3, <1>6, <2>1, <2>3
    <3>3. QED
      BY <1>8, <1>9, <1>13, <3>1, <3>2
  <2>4. QED
    BY <1>13, <2>2, <2>3 DEF run_apply
<1>14. ASSUME p.op = "RFDC_APPLY" /\ busy(p)
      PROVE  Goal
  <2>1. hw' = hw /\ play' = play /\ Fail /\ Reach(p, Answer(p, "BUSY"))
    BY <1>14 DEF busy
  <2>2. Sent(Answer(p, "BUSY")) /\ faults' \in 0..MaxFaults /\ play' \in BOOLEAN
    BY <1>3, <1>6, <2>1
  <2>3. QED
    BY <1>8, <1>9, <1>10, <1>14, <2>1, <2>2
<1>15. ASSUME p.op # "RFDC_APPLY" /\ play' \in {play, FALSE} /\ hw' = hw /\ Deliver(p, Answer(p, "OK"))
      PROVE  Goal
  <2>1. Sent(Answer(p, "OK")) /\ faults' \in 0..MaxFaults /\ play' \in BOOLEAN
    BY <1>3, <1>5, <1>15
  <2>2. QED
    BY <1>8, <1>9, <1>10, <1>15, <2>1
<1>16. Goal
  <2>1. \/ p.op = "RFDC_APPLY" /\ (repeat_apply(p) \/ refuse_apply(p) \/ run_apply(p) \/ busy(p))
        \/ /\ p.op # "RFDC_APPLY" /\ play' \in {play, FALSE} /\ hw' = hw
           /\ Deliver(p, Answer(p, "OK"))
    BY <1>1 DEF p
  <2>2. QED
    BY <1>11, <1>12, <1>13, <1>14, <1>15, <2>1
<1>17. QED
  BY <1>1, <1>2, <1>16 DEF p

\* What is left on the link was there before.
LEMMA BoardNet ==
  ASSUME TypeInv, PacketInv, board
  PROVE  /\ net' \in Seq(Packets) /\ Sorted(net') /\ Elems(net') \subseteq Elems(net)
         /\ Head(net) \in Elems(net) /\ Head(net).seq \in Nat /\ Head(net).seq <= seqn
         /\ \A q \in Elems(net') : q.seq \in Nat /\ Head(net).seq <= q.seq /\ q.seq <= seqn
<1>1. net # <<>> /\ net' = Tail(net) /\ Head(net) \in Packets /\ net \in Seq(Packets) /\ Sorted(net)
  BY BoardFacts DEF TypeInv, PacketInv
<1>2. net' \in Seq(Packets) /\ Elems(net') \subseteq Elems(net) /\ Head(net) \in Elems(net)
  BY <1>1, TailFacts
<1>3. Sorted(net') /\ \A q \in Elems(net') : Head(net).seq <= q.seq
  BY <1>1, TailSorted
<1>4. \A q \in Elems(net') : q \in Packets
  BY <1>2 DEF Elems
<1>5. QED
  BY <1>1, <1>2, <1>3, <1>4 DEF PacketInv, Packets

\* When the board has the answers to what is on the link, it stays as it is.
LEMMA BoardQuiet ==
  ASSUME TypeInv, PacketInv, board, Quiet
  PROVE  hw' = hw /\ Quiet'
<1>1. Head(net) \in Elems(net) /\ Elems(net') \subseteq Elems(net) /\ Effect(Head(net))
  BY BoardNet, BoardFacts
<1>2. hw' = hw
  BY <1>1 DEF Quiet, Effect
<1>3. QED
  BY <1>1, <1>2 DEF Quiet, Repeated

\* The answers that are in the sockets after a step of the board.
LEMMA BoardSockets ==
  ASSUME TypeInv, board
  PROVE  /\ ans' \in [Threads -> Seq(Replies)]
         /\ \A x \in Threads : \A a \in Elems(ans'[x]) : a \in Elems(ans[x]) \/ Tells(Head(net), a)
<1>1. ans \in [Threads -> Seq(Replies)] /\ Head(net).x \in Threads
  BY BoardFacts DEF TypeInv, Packets
<1>2. CASE ans' = ans
  BY <1>1, <1>2
<1>3. CASE ans' # ans
  <2>1. PICK a : Tells(Head(net), a) /\ ans' = [ans EXCEPT ![Head(net).x] = Append(@, a)]
    BY <1>3, BoardFacts
  <2>2. a \in Replies
    BY <2>1 DEF Tells
  <2>3. /\ Append(ans[Head(net).x], a) \in Seq(Replies)
        /\ Elems(Append(ans[Head(net).x], a)) = Elems(ans[Head(net).x]) \cup {a}
    BY <1>1, <2>2, AppendFacts
  <2>4. \A x \in Threads : ans'[x] = IF x = Head(net).x THEN Append(ans[Head(net).x], a) ELSE ans[x]
    BY <1>1, <2>1
  <2>5. ans' \in [Threads -> Seq(Replies)]
    BY <1>1, <2>1, <2>3
  <2>6. \A x \in Threads : \A b \in Elems(ans'[x]) : b \in Elems(ans[x]) \/ b = a
    BY <2>3, <2>4
  <2>7. QED
    BY <2>1, <2>5, <2>6
<1>4. QED
  BY <1>2, <1>3

\* A step of the board keeps the types and the order on the link.
LEMMA BoardTypes ==
  ASSUME TypeInv, PlaceInv, PacketInv, board
  PROVE  TypeInv' /\ PlaceInv' /\ PacketInv'
<1>1. MaxCalls' = MaxCalls
  BY BoardFacts DEF MaxCalls
<1>2. TypeInv'
  BY <1>1, BoardFacts, BoardNet, BoardSockets DEF TypeInv
<1>3. PlaceInv'
  BY BoardFacts DEF PlaceInv
<1>4. PacketInv'
  BY BoardFacts, BoardNet DEF PacketInv
<1>5. QED
  BY <1>2, <1>3, <1>4

\* The board confirms the last request only when it has taken effect.
LEMMA BoardCache ==
  ASSUME TypeInv, PlaceInv, PacketInv, CacheInv, board
  PROVE  CacheInv'
<1> DEFINE p == Head(net)
<1>1. /\ seqn' = seqn /\ th' = th /\ Effect(p) /\ p \in Elems(net) /\ p.seq \in Nat /\ p.seq <= seqn
      /\ seqn \in Nat
  BY BoardFacts, BoardNet, BoundsAssumption DEF TypeInv
<1>2. CASE hw' = hw
  BY <1>1, <1>2 DEF CacheInv
<1>3. CASE hw' # hw
  <2>1. CASE hw'.cached = NotCached
    <3>1. hw'.cached.seq <= seqn /\ hw'.cached.status # "OK"
      BY <1>1, <2>1 DEF NotCached
    <3>2. QED
      BY <1>1, <3>1 DEF CacheInv, Confirmed
  <2>2. CASE hw'.cached # NotCached
    <3>1. hw'.cached.seq = p.seq /\ (hw'.cached.status = "OK" => Done(p, hw'))
      BY <1>1, <1>3, <2>2 DEF Effect
    <3>2. ASSUME NEW x \in Threads, Live(th[x], seqn), Confirmed(seqn, th[x].c.rev, hw')
          PROVE  Done(th[x].c, hw')
      <4>1. p.seq = seqn /\ Done(p, hw')
        BY <3>1, <3>2 DEF Confirmed
      <4>2. Copy(p, th[x])
        BY <1>1, <3>2, <4>1 DEF PacketInv
      <4>3. QED
        BY <4>1, <4>2, CopyDone
    <3>3. QED
      BY <1>1, <3>1, <3>2 DEF CacheInv
  <2>3. QED
    BY <2>1, <2>2
<1>4. QED
  BY <1>2, <1>3

\* An answer that a thread may rely on stays one, and a new answer to its
\* request is one: the packets that are left are copies of the one answered.
LEMMA BoardAnswers ==
  ASSUME TypeInv, PlaceInv, PacketInv, AnswerInv, CacheInv, board
  PROVE  AnswerInv'
<1> DEFINE p == Head(net)
<1>1. /\ seqn' = seqn /\ th' = th /\ p \in Packets /\ p \in Elems(net) /\ seqn \in Nat
      /\ Elems(net') \subseteq Elems(net) /\ Effect(p)
      /\ p.seq \in Nat /\ p.seq <= seqn
      /\ \A q \in Elems(net') : q.seq \in Nat /\ p.seq <= q.seq /\ q.seq <= seqn
  <2>1. seqn' = seqn /\ th' = th /\ p \in Packets /\ Effect(p) /\ seqn \in Nat
    BY BoardFacts, BoundsAssumption DEF TypeInv
  <2>2. QED
    BY <2>1, BoardNet
<1>2. \A x \in Threads : \A a \in Elems(ans'[x]) : a \in Elems(ans[x]) \/ Tells(p, a)
  BY BoardSockets
<1> HIDE DEF p
<1>3. \A x \in Threads : Live(th[x], seqn) /\ p.seq = seqn => Copy(p, th[x])
  BY <1>1 DEF PacketInv
<1>4. ASSUME NEW x \in Threads, Live(th[x], seqn), NEW a, AnswerOK(a, th[x], seqn, Elems(net), hw)
      PROVE  AnswerOK(a, th[x], seqn, Elems(net'), hw')
  <2>1. CASE a.status # "OK"
    BY <1>4, <2>1 DEF AnswerOK
  <2>2. CASE a.status = "OK"
    <3>1. p.seq = seqn /\ a.h = hw /\ Copy(p, th[x]) /\ a.op = PcOp(th[x].pc)
      BY <1>1, <1>3, <1>4, <2>2 DEF AnswerOK
    <3>2. p.op = "RFDC_APPLY" => Repeated(p)
      BY <1>4, <2>2, <3>1 DEF AnswerOK, Copy, Confirmed, Repeated
    <3>3. hw' = hw
      BY <1>1, <3>2 DEF Effect
    <3>4. QED
      BY <1>1, <1>4, <3>3 DEF AnswerOK
  <2>3. QED
    BY <2>1, <2>2
<1>5. ASSUME NEW x \in Threads, Live(th[x], seqn), NEW a, Tells(p, a), a.seq = seqn
      PROVE  AnswerOK(a, th[x], seqn, Elems(net'), hw')
  <2>1. p.seq = seqn /\ a.op = p.op /\ a.h = hw' /\ Copy(p, th[x]) /\ (a.op # "RFDC_APPLY" => a.status = "OK")
    BY <1>3, <1>5 DEF Tells
  <2>2. \A q \in Elems(net') : q.seq = seqn
    BY <1>1, <2>1
  <2>3. ASSUME a.op = "RFDC_APPLY", a.status = "OK"
        PROVE  Done(th[x].c, hw') /\ Confirmed(seqn, th[x].c.rev, hw')
    <3>1. Confirmed(seqn, th[x].c.rev, hw') /\ (hw' = hw \/ Done(p, hw'))
      BY <1>5, <2>1, <2>3 DEF Tells, Copy
    <3>2. CASE hw' = hw
      BY <1>5, <2>1, <2>3, <3>1, <3>2 DEF CacheInv, Copy
    <3>3. CASE Done(p, hw')
      BY <2>1, <3>1, <3>3, CopyDone
    <3>4. QED
      BY <3>1, <3>2, <3>3
  <2>4. QED
    BY <2>1, <2>2, <2>3 DEF AnswerOK, Copy
<1>6. ASSUME NEW x \in Threads
      PROVE  /\ \A a \in Elems(ans'[x]) : a.seq <= seqn
             /\ Live(th[x], seqn) =>
                  /\ \A a \in Elems(ans'[x]) : a.seq = seqn => AnswerOK(a, th[x], seqn, Elems(net'), hw')
                  /\ th[x].pc \in Holds => AnswerOK(th[x].c.a, th[x], seqn, Elems(net'), hw')
  <2>1. \A a \in Elems(ans'[x]) : a.seq <= seqn
    BY <1>1, <1>2 DEF AnswerInv, Tells
  <2>2. ASSUME Live(th[x], seqn), NEW a \in Elems(ans'[x]), a.seq = seqn
        PROVE  AnswerOK(a, th[x], seqn, Elems(net'), hw')
    BY <1>2, <1>4, <1>5, <2>2 DEF AnswerInv
  <2>3. Live(th[x], seqn) /\ th[x].pc \in Holds => AnswerOK(th[x].c.a, th[x], seqn, Elems(net'), hw')
    BY <1>4 DEF AnswerInv
  <2>4. QED
    BY <2>1, <2>2, <2>3
<1>7. QED
  BY <1>1, <1>6 DEF AnswerInv

\* A step of the board keeps what is known of it.
LEMMA BoardKeeps ==
  ASSUME IInv, board
  PROVE  IInv'
<1>1. TypeInv /\ PlaceInv /\ PacketInv /\ AnswerInv /\ CacheInv /\ KnownInv /\ SyncInv /\ GoodInv
  BY DEF IInv
<1>2. TypeInv' /\ PlaceInv' /\ PacketInv' /\ AnswerInv' /\ CacheInv'
  BY <1>1, BoardTypes, BoardAnswers, BoardCache
<1>3. /\ UNCHANGED <<web, th, stored, lock, seqn, pend, conn, alone, overlap, good, calls>>
      /\ Elems(net') \subseteq Elems(net) /\ Head(net) \in Elems(net) /\ Effect(Head(net))
  BY <1>1, BoardFacts, BoardNet
<1>4. KnownInv'
  <2>1. hw'.rev <= calls /\ hw'.cached.rev <= calls
    <3>1. Head(net).rev <= calls /\ 0 <= calls
      BY <1>1, <1>3, BoundsAssumption DEF KnownInv, TypeInv
    <3>2. QED
      BY <1>1, <1>3, <3>1 DEF Effect, KnownInv, NotCached
  <2>2. \A x \in Threads : \A a \in Elems(ans'[x]) : a.h.rev <= calls
    BY <1>1, <2>1, BoardSockets DEF Tells, KnownInv
  <2>3. QED
    BY <1>1, <1>3, <2>1, <2>2 DEF KnownInv
<1>5. SyncInv'
  BY <1>1, <1>3, BoardQuiet DEF SyncInv, InSync, Active
<1>6. GoodInv'
  BY <1>1, <1>3, BoardQuiet DEF GoodInv
<1>7. QED
  BY <1>2, <1>4, <1>5, <1>6 DEF IInv

-----------------------------------------------------------------------------
(* Transmissions and playback.                                              *)

\* The places of a request.
LEMMA PcFacts ==
  /\ \A pc \in Sends : WaitOf(pc) \in Waits /\ PcOp(WaitOf(pc)) = PcOp(pc)
  /\ \A pc \in Waits : SendOf(pc) \in Sends /\ PcOp(SendOf(pc)) = PcOp(pc)
  /\ \A pc \in Sends : pc \in WebPcs => WaitOf(pc) \in WebPcs
  /\ \A pc \in Sends : pc \in LibPcs => WaitOf(pc) \in LibPcs
  /\ \A pc \in Waits : pc \in WebPcs => SendOf(pc) \in WebPcs
  /\ \A pc \in Waits : pc \in LibPcs => SendOf(pc) \in LibPcs
  /\ \A pc \in Current : PcOp(pc) \in Ops
  /\ Sends \cap Waits = {} /\ Sends \cap Holds = {} /\ Waits \cap Holds = {}
  /\ Sends \subseteq Current /\ Waits \subseteq Current /\ Current \cap Holds = {}
  /\ "end" \notin Current \cup Holds
  BY DEF Sends, Waits, Holds, Current, WaitOf, SendOf, PcOp, WebPcs, LibPcs, Ops

\* A transmission, and what the thread has become.
LEMMA SendFacts ==
  ASSUME TypeInv, PlaceInv, NEW x \in Threads, send(x)
  PROVE  /\ th[x].pc \in Sends /\ th[x].c \in Calls /\ th[x] \in ThreadRec
         /\ PlaceOK(x, th[x], web, lock, seqn)
         /\ \E p \in Packets :
              /\ Copy(p, th[x]) /\ p.seq = th[x].c.seq
              /\ net' = net \/ net' = Append(net, p)
         /\ faults' \in 0..MaxFaults
         /\ th' = [th EXCEPT ![x] = [pc |-> WaitOf(th[x].pc), c |-> th[x].c, att |-> th[x].att + 1]]
         /\ UNCHANGED <<web, hw, play, ans, stored, lock, seqn, pend, conn, alone, overlap, good, calls>>
<1> DEFINE c == th[x].c
           p == [x |-> x, seq |-> c.seq, op |-> OpOf(x), val |-> c.val, mask |-> c.mask, rev |-> c.rev]
<1>1. th[x] \in ThreadRec /\ c \in Calls /\ PlaceOK(x, th[x], web, lock, seqn)
  BY DEF TypeInv, PlaceInv, ThreadRec
<1>2. th[x].pc \in Sends
  BY DEF send, Sending, Sends
<1>3. OpOf(x) = PcOp(th[x].pc)
  BY <1>2 DEF OpOf, PcOp, At, Sends
<1>4. p \in Packets /\ Copy(p, th[x])
  <2>1. OpOf(x) \in Ops
    BY <1>2, <1>3, PcFacts
  <2>2. QED
    BY <1>1, <1>3, <2>1 DEF Packets, Calls, Copy
<1>5. (net' = Append(net, p) \/ net' = net) /\ faults' \in 0..MaxFaults
  BY BoundsAssumption DEF send, Fail, TypeInv
<1>6. th' = [th EXCEPT ![x] = [pc |-> WaitOf(th[x].pc), c |-> th[x].c, att |-> th[x].att + 1]]
  <2>1. th \in [Threads -> ThreadRec] /\ th' = [th EXCEPT ![x].pc = WaitOf(@), ![x].att = @ + 1]
    BY DEF send, TypeInv
  <2>2. DOMAIN th[x] = {"pc", "c", "att"}
    BY <1>1 DEF ThreadRec
  <2>3. QED
    BY <2>1, <2>2, <1>1 DEF ThreadRec
<1>7. UNCHANGED <<web, hw, play, ans, stored, lock, seqn, pend, conn, alone, overlap, good, calls>>
  BY DEF send
<1> HIDE DEF p
<1>8. p.seq = c.seq
  BY DEF p
<1>9. QED
  BY <1>1, <1>2, <1>4, <1>5, <1>6, <1>7, <1>8


\* A transmission keeps what is known: the packet is a copy of the request.
LEMMA SendKeeps ==
  ASSUME IInv, NEW x \in Threads, send(x)
  PROVE  IInv'
<1>1. TypeInv /\ PlaceInv /\ PacketInv /\ AnswerInv /\ CacheInv /\ KnownInv /\ SyncInv /\ GoodInv
  BY DEF IInv
<1>2. /\ th[x].pc \in Sends /\ th[x].c \in Calls /\ th[x] \in ThreadRec
      /\ PlaceOK(x, th[x], web, lock, seqn)
      /\ faults' \in 0..MaxFaults
      /\ UNCHANGED <<web, hw, play, ans, stored, lock, seqn, pend, conn, alone, overlap, good, calls>>
  BY <1>1, SendFacts
<1>3. PICK p \in Packets :
        /\ Copy(p, th[x]) /\ p.seq = th[x].c.seq
        /\ net' = net \/ net' = Append(net, p)
  BY <1>1, SendFacts
<1> DEFINE k == [pc |-> WaitOf(th[x].pc), c |-> th[x].c, att |-> th[x].att + 1]
<1>4. th' = [th EXCEPT ![x] = k] /\ th \in [Threads -> ThreadRec]
  BY <1>1, SendFacts DEF TypeInv
<1>5. /\ k \in ThreadRec /\ k.pc = WaitOf(th[x].pc) /\ k.c = th[x].c /\ k.att = th[x].att + 1
      /\ k.pc \in Waits /\ PcOp(k.pc) = PcOp(th[x].pc)
      /\ k.pc # "end" /\ k.pc # "pending" /\ k.pc \notin Holds /\ k.pc \in Current
  <2>1. WaitOf(th[x].pc) \in Waits /\ PcOp(WaitOf(th[x].pc)) = PcOp(th[x].pc)
    BY <1>2, PcFacts
  <2>2. \A pc \in Waits : pc \in WebPcs \cup LibPcs /\ pc # "end" /\ pc # "pending" /\ pc \notin Holds /\ pc \in Current
    BY DEF Waits, Holds, WebPcs, LibPcs, Current
  <2>3. th[x].att \in Nat
    BY <1>2 DEF ThreadRec
  <2>4. QED
    BY <1>2, <2>1, <2>2, <2>3 DEF ThreadRec
<1>6. p.seq = seqn /\ th[x].c.seq = seqn /\ th[x].att <= RETRIES /\ th[x].att \in Nat /\ RETRIES \in Nat
  BY <1>2, <1>3, PcFacts, RetriesAssumption DEF PlaceOK, ThreadRec
<1> HIDE DEF k
<1>7. th' \in [Threads -> ThreadRec] /\ th'[x] = k /\ \A y \in Threads : y # x => th'[y] = th[y]
  BY <1>4, <1>5
<1>8. net' \in Seq(Packets) /\ Elems(net') \subseteq Elems(net) \cup {p}
  <2>1. net \in Seq(Packets)
    BY <1>1 DEF TypeInv
  <2>2. Append(net, p) \in Seq(Packets) /\ Elems(Append(net, p)) = Elems(net) \cup {p}
    BY <2>1, AppendFacts
  <2>3. QED
    BY <1>3, <2>1, <2>2
<1>9. Sorted(net')
  <2>1. \A q \in Elems(net) : q.seq <= p.seq
    BY <1>1, <1>6 DEF PacketInv
  <2>2. QED
    BY <1>1, <1>3, <2>1, AppendSorted DEF TypeInv, PacketInv
<1>10. TypeInv'
  <2>1. MaxCalls' = MaxCalls
    BY <1>2 DEF MaxCalls
  <2>2. QED
    BY <1>1, <1>2, <1>7, <1>8, <2>1 DEF TypeInv
<1>11. Live(th[x], seqn) /\ Live(k, seqn)
  BY <1>2, <1>5, <1>6, PcFacts DEF Live
<1>12. \A y \in Threads : Live(th[y], seqn) <=> y = x
  BY <1>1, <1>11 DEF PlaceInv
<1>13. \A y \in Threads : Live(th'[y], seqn) <=> y = x
  BY <1>7, <1>11, <1>12
<1>14. PlaceInv'
  <2>1. PlaceOK(x, k, web, lock, seqn)
    <3>1. x # Lib => k.pc \in WebPcs /\ (th[x].c.op = "apply" => k.pc \notin {"send_get", "wait_get", "got"})
                     /\ (th[x].c.op = "get" => k.pc \notin {"pending", "send_apply", "wait_apply", "applied"})
      BY <1>2, <1>5, PcFacts DEF PlaceOK, WaitOf, Sends
    <3>2. x = Lib => k.pc \in LibPcs /\ (k.pc \in {"send_apply", "wait_apply", "applied"} => th[x].c.op = "set")
      BY <1>2, <1>5, PcFacts DEF PlaceOK, WaitOf, Sends
    <3>3. k.pc \notin Sends /\ k.att <= RETRIES + 1
      BY <1>5, <1>6, PcFacts
    <3>4. th[x].pc # "end" /\ th[x].pc \in Current
      BY <1>2, PcFacts
    <3>5. QED
      BY <1>2, <1>5, <3>1, <3>2, <3>3, <3>4 DEF PlaceOK
  <2>2. QED
    BY <1>1, <1>2, <1>7, <1>13, <2>1 DEF PlaceInv
<1>15. \A q \in Elems(net') : q.seq <= seqn /\ (q.seq = seqn => Copy(q, k))
  <2>1. \A q : Copy(q, th[x]) <=> Copy(q, k)
    BY <1>5 DEF Copy
  <2>2. seqn <= seqn
    BY <1>1, BoundsAssumption DEF TypeInv
  <2>3. QED
    BY <1>1, <1>3, <1>6, <1>8, <1>12, <2>1, <2>2 DEF PacketInv
<1>16. PacketInv'
  BY <1>2, <1>7, <1>9, <1>13, <1>15 DEF PacketInv
<1>17. AnswerInv'
  <2>1. ASSUME NEW a, AnswerOK(a, th[x], seqn, Elems(net), hw)
        PROVE  AnswerOK(a, k, seqn, Elems(net'), hw)
    BY <1>5, <1>6, <1>8, <2>1 DEF AnswerOK
  <2>2. \A a \in Elems(ans[x]) : a.seq = seqn => AnswerOK(a, k, seqn, Elems(net'), hw)
    BY <1>1, <1>12, <2>1 DEF AnswerInv
  <2>3. \A y \in Threads : \A a \in Elems(ans[y]) : a.seq <= seqn
    BY <1>1 DEF AnswerInv
  <2>4. QED
    BY <1>2, <1>5, <1>7, <1>13, <2>2, <2>3 DEF AnswerInv
<1>18. CacheInv'
  BY <1>1, <1>2, <1>5, <1>7, <1>12, <1>13 DEF CacheInv
<1>19. KnownInv'
  <2>1. p.rev <= calls
    BY <1>1, <1>3 DEF KnownInv, Copy
  <2>2. \A y \in Threads : th'[y].c = th[y].c /\ (th'[y].pc \in Holds => th[y].pc \in Holds)
    BY <1>5, <1>7
  <2>3. QED
    BY <1>1, <1>2, <1>8, <2>1, <2>2 DEF KnownInv
<1>20. ASSUME Quiet, p.op # "RFDC_APPLY"
       PROVE  Quiet'
  BY <1>2, <1>8, <1>20 DEF Quiet, Repeated
<1>21. \A y \in Threads : th'[y].c = th[y].c /\ (th'[y].pc = "end" <=> th[y].pc = "end")
                          /\ (th'[y].pc = "pending" <=> th[y].pc = "pending")
                          /\ (th'[y].pc \in Holds => th[y].pc \in Holds)
  BY <1>2, <1>5, <1>7 DEF Sends
<1>22. SyncInv'
  <2>1. ASSUME web, ~overlap, stored.status = "applied"
        PROVE  p.op # "RFDC_APPLY"
    <3>1. x \in Web /\ Active(x) /\ th[x].pc # "pending"
      BY <1>2, <2>1 DEF PlaceOK, Threads, Sends, Active
    <3>2. th[x].c.op = "get"
      BY <1>1, <1>2, <2>1, <3>1, LibAssumption DEF SyncInv, PlaceOK, Active
    <3>3. th[x].pc = "send_get"
      BY <1>2, <3>1, <3>2, LibAssumption DEF PlaceOK, Sends, WebPcs
    <3>4. QED
      BY <1>3, <3>3 DEF Copy, PcOp
  <2>2. \A y \in Web : y \in Threads
    BY DEF Threads
  <2>3. web /\ ~overlap /\ stored.status = "applied" => InSync'
    BY <1>1, <1>2, <1>20, <2>1 DEF SyncInv, InSync
  <2>4. QED
    BY <1>1, <1>2, <1>21, <2>2, <2>3 DEF SyncInv, Active
<1>23. GoodInv'
  <2>1. good = {}
    <3>1. SUFFICES ASSUME good # {} PROVE FALSE
      OBVIOUS
    <3>2. ~web /\ th[Lib].pc = "end"
      BY <1>1, <3>1 DEF GoodInv
    <3>3. QED
      BY <1>2, <3>2 DEF PlaceOK, Sends
  <2>2. Lib \in Threads
    BY DEF Threads
  <2>3. QED
    BY <1>1, <1>2, <1>21, <2>1, <2>2 DEF GoodInv
<1>24. QED
  BY <1>10, <1>14, <1>16, <1>17, <1>18, <1>19, <1>22, <1>23 DEF IInv

\* Playback starts or ends: the settings are what they were.
LEMMA PlaybackKeeps ==
  ASSUME IInv, playback
  PROVE  IInv'
<1>1. TypeInv /\ PlaceInv /\ PacketInv /\ AnswerInv /\ CacheInv /\ KnownInv /\ SyncInv /\ GoodInv
  BY DEF IInv
<1>2. UNCHANGED <<web, hw, net, ans, th, stored, lock, seqn, pend, conn, alone, overlap, good, calls>>
  BY DEF playback
<1>3. play' \in BOOLEAN /\ faults' \in 0..MaxFaults /\ MaxCalls' = MaxCalls
  BY <1>1, <1>2, BoundsAssumption DEF playback, Fail, TypeInv, MaxCalls
<1>4. TypeInv' /\ PlaceInv' /\ PacketInv'
  BY <1>1, <1>2, <1>3 DEF TypeInv, PlaceInv, PacketInv
<1>5. AnswerInv' /\ CacheInv' /\ KnownInv'
  BY <1>1, <1>2 DEF AnswerInv, CacheInv, KnownInv
<1>6. SyncInv' /\ GoodInv'
  BY <1>1, <1>2 DEF SyncInv, InSync, Active, GoodInv, Quiet, Repeated
<1>7. QED
  BY <1>4, <1>5, <1>6 DEF IInv


\* What is on the link are packets, what is in a socket are answers.
LEMMA QueueTypes ==
  ASSUME TypeInv
  PROVE  /\ \A q \in Elems(net) : q \in Packets /\ q.seq \in Nat /\ q.rev \in Nat
         /\ \A y \in Threads : \A a \in Elems(ans[y]) :
              a \in Replies /\ a.seq \in Nat /\ a.h.rev \in Nat
<1>1. ASSUME NEW S, NEW s \in Seq(S)
      PROVE  \A e \in Elems(s) : e \in S
  BY <1>1 DEF Elems
<1>2. net \in Seq(Packets) /\ \A y \in Threads : ans[y] \in Seq(Replies)
  BY DEF TypeInv
<1>3. \A q \in Elems(net) : q \in Packets
  BY <1>1, <1>2
<1>4. \A y \in Threads : \A a \in Elems(ans[y]) : a \in Replies
  BY <1>1, <1>2
<1>5. (\A q \in Packets : q.seq \in Nat /\ q.rev \in Nat) /\ \A a \in Replies : a.seq \in Nat /\ a.h.rev \in Nat
  BY DEF Packets, Replies, Board
<1>6. QED
  BY <1>3, <1>4, <1>5

-----------------------------------------------------------------------------
(* Each step of the host that transmits nothing.                            *)

\* The call is the same, with another answer, second or place.
Same(c, d) ==
  /\ c.op = d.op /\ c.val = d.val /\ c.mask = d.mask /\ c.rev = d.rev
  /\ c.valid = d.valid /\ c.seq = d.seq

\* Thread x goes on as k: with the request it has or an answer to it, without
\* one, or with a new request.
HostStep(x, k) ==
  /\ k \in ThreadRec /\ th' = [th EXCEPT ![x] = k]
  /\ UNCHANGED <<web, hw, play, net, faults>>
  /\ ans' \in [Threads -> Seq(Replies)]
  /\ \A y \in Threads : Elems(ans'[y]) \subseteq Elems(ans[y])
  /\ \/ /\ seqn' = seqn
        /\ k.pc \in Current \cup Holds =>
             th[x].pc \in Current /\ Same(k.c, th[x].c) /\ PcOp(k.pc) = PcOp(th[x].pc)
        /\ k.pc \in Holds => k.c.a \in Elems(ans[x]) /\ k.c.a.seq = seqn
     \/ seqn' = seqn + 1 /\ seqn < MaxSeq /\ k.pc \in Sends /\ k.c.seq = seqn + 1
        /\ \A y \in Threads : y # x => th[y].pc \notin Current
  /\ PlaceOK(x, k, web, lock', seqn')
  /\ \A y \in Threads : y # x /\ th[y].pc \in Current => lock' = lock
  /\ lock' \in Web \cup {None}
  /\ stored' \in Store /\ stored'.rev <= calls' /\ k.c.rev <= calls'
  /\ calls' \in 0..MaxCalls /\ calls <= calls'
  /\ pend' \in [Channels -> Values] /\ good' \in SUBSET Channels
  /\ conn' \in BOOLEAN /\ overlap' \in BOOLEAN /\ alone' \in Threads \cup {None}

\* Such a step keeps the types, the places, what is on the link, what may be
\* concluded from the answers and what is known of the board.
LEMMA HostKeeps ==
  ASSUME TypeInv, PlaceInv, PacketInv, AnswerInv, CacheInv, KnownInv,
         NEW x \in Threads, NEW k, HostStep(x, k)
  PROVE  TypeInv' /\ PlaceInv' /\ PacketInv' /\ AnswerInv' /\ CacheInv' /\ KnownInv'
<1>1. /\ k \in ThreadRec /\ web' = web /\ hw' = hw /\ play' = play /\ net' = net /\ faults' = faults
      /\ th' \in [Threads -> ThreadRec] /\ th'[x] = k /\ \A y \in Threads : y # x => th'[y] = th[y]
  BY DEF HostStep, TypeInv
<1>2. /\ ans' \in [Threads -> Seq(Replies)]
      /\ \A y \in Threads : Elems(ans'[y]) \subseteq Elems(ans[y])
  BY DEF HostStep
<1>3. MaxCalls' = MaxCalls
  BY <1>1 DEF MaxCalls
<1>4. seqn \in Nat /\ seqn' \in 0..MaxSeq /\ calls \in Nat /\ calls' \in Nat /\ calls <= calls' /\ calls' \in 0..MaxCalls
  BY BoundsAssumption DEF HostStep, TypeInv
<1>5. TypeInv'
  BY <1>1, <1>2, <1>3, <1>4 DEF HostStep, TypeInv
<1>6. \A y \in Threads : th[y].c.seq \in Nat /\ th[y].c.seq <= seqn
  BY DEF TypeInv, ThreadRec, Calls, PlaceInv, PlaceOK
<1>7. \A y \in Threads : y # x => PlaceOK(y, th[y], web, lock', seqn')
  <2>1. SUFFICES ASSUME NEW y \in Threads, y # x
                 PROVE  PlaceOK(y, th[y], web, lock', seqn')
    OBVIOUS
  <2>2. PlaceOK(y, th[y], web, lock, seqn)
    BY DEF PlaceInv
  <2>3. CASE th[y].pc \in Current
    <3>1. lock' = lock /\ seqn' = seqn
      BY <2>1, <2>3 DEF HostStep
    <3>2. QED
      BY <2>2, <3>1
  <2>4. CASE th[y].pc \notin Current
    <3>1. th[y].c.seq <= seqn'
      BY <1>4, <1>6 DEF HostStep
    <3>2. QED
      BY <2>2, <2>4, <3>1 DEF PlaceOK
  <2>5. QED
    BY <2>3, <2>4
<1>8. ASSUME seqn' = seqn
      PROVE  PlaceInv' /\ PacketInv' /\ AnswerInv' /\ CacheInv'
  <2>1. /\ k.pc \in Current \cup Holds =>
             th[x].pc \in Current /\ Same(k.c, th[x].c) /\ PcOp(k.pc) = PcOp(th[x].pc)
        /\ k.pc \in Holds => k.c.a \in Elems(ans[x]) /\ k.c.a.seq = seqn
    BY <1>4, <1>8 DEF HostStep
  <2>2. Live(k, seqn) => Live(th[x], seqn) /\ Same(k.c, th[x].c) /\ PcOp(k.pc) = PcOp(th[x].pc)
    BY <2>1 DEF Live, Same
  <2>3. \A y \in Threads : Live(th'[y], seqn) => Live(th[y], seqn)
    BY <1>1, <2>2
  <2>4. PlaceInv'
    <3>1. \A y \in Threads : PlaceOK(y, th'[y], web, lock', seqn')
      BY <1>1, <1>7 DEF HostStep
    <3>2. QED
      BY <1>1, <1>8, <2>3, <3>1 DEF PlaceInv
  <2>5. PacketInv'
    <3>1. \A q : Live(k, seqn) /\ Copy(q, th[x]) => Copy(q, k)
      BY <2>2 DEF Copy, Same
    <3>2. QED
      BY <1>1, <1>8, <2>2, <3>1 DEF PacketInv
  <2>6. AnswerInv'
    <3>1. \A a : Live(k, seqn) /\ AnswerOK(a, th[x], seqn, Elems(net), hw)
                   => AnswerOK(a, k, seqn, Elems(net), hw)
      BY <2>2 DEF AnswerOK, Same, Done
    <3>2. ASSUME NEW y \in Threads
          PROVE  /\ \A a \in Elems(ans'[y]) : a.seq <= seqn
                 /\ Live(th'[y], seqn) =>
                      /\ \A a \in Elems(ans'[y]) : a.seq = seqn => AnswerOK(a, th'[y], seqn, Elems(net), hw)
                      /\ th'[y].pc \in Holds => AnswerOK(th'[y].c.a, th'[y], seqn, Elems(net), hw)
      <4>1. CASE y = x
        BY <1>1, <1>2, <2>1, <2>2, <3>1, <4>1 DEF AnswerInv
      <4>2. CASE y # x
        BY <1>1, <1>2, <4>2 DEF AnswerInv
      <4>3. QED
        BY <4>1, <4>2
    <3>3. QED
      BY <1>1, <1>8, <3>2 DEF AnswerInv
  <2>7. CacheInv'
    <3>1. \A h : Done(th[x].c, h) /\ Live(k, seqn) => Done(k.c, h)
      BY <2>2 DEF Done, Same
    <3>2. Live(k, seqn) => k.c.rev = th[x].c.rev
      BY <2>2 DEF Same
    <3>3. QED
      BY <1>1, <1>8, <2>2, <3>1, <3>2 DEF CacheInv
  <2>8. QED
    BY <2>4, <2>5, <2>6, <2>7
<1>9. ASSUME seqn' # seqn
      PROVE  PlaceInv' /\ PacketInv' /\ AnswerInv' /\ CacheInv'
  <2>1. seqn' = seqn + 1 /\ k.pc \in Sends /\ k.pc \notin Holds
    BY <1>4, <1>9, PcFacts DEF HostStep
  <2>2. \A y \in Threads : Live(th'[y], seqn') => y = x
    BY <1>1, <1>4, <1>6, <2>1 DEF Live
  <2>3. PlaceInv'
    <3>1. \A y \in Threads : PlaceOK(y, th'[y], web, lock', seqn')
      BY <1>1, <1>7 DEF HostStep
    <3>2. QED
      BY <1>1, <2>2, <3>1 DEF PlaceInv
  <2>4. \A q \in Elems(net) : q.seq <= seqn' /\ q.seq # seqn'
    <3>1. \A q \in Elems(net) : q.seq \in Nat /\ q.seq <= seqn
      BY QueueTypes DEF PacketInv
    <3>2. QED
      BY <1>4, <2>1, <3>1
  <2>5. PacketInv'
    BY <1>1, <2>4 DEF PacketInv
  <2>6. \A y \in Threads : \A a \in Elems(ans'[y]) : a.seq <= seqn' /\ a.seq # seqn'
    <3>1. \A y \in Threads : \A a \in Elems(ans[y]) : a.seq \in Nat /\ a.seq <= seqn
      BY QueueTypes DEF AnswerInv
    <3>2. \A y \in Threads : \A a \in Elems(ans'[y]) : a.seq \in Nat /\ a.seq <= seqn
      BY <1>2, <3>1
    <3>3. QED
      BY <1>4, <2>1, <3>2
  <2>7. \A y \in Threads : Live(th'[y], seqn') => th'[y].pc \notin Holds
    BY <1>1, <2>1, <2>2
  <2>8. AnswerInv'
    BY <2>6, <2>7 DEF AnswerInv
  <2>9. CacheInv'
    <3>1. hw.cached.seq \in Nat /\ hw.cached.seq <= seqn
      BY DEF TypeInv, Board, Caches, CacheInv
    <3>2. hw'.cached.seq <= seqn' /\ hw'.cached.seq # seqn'
      BY <1>1, <1>4, <2>1, <3>1
    <3>3. QED
      BY <3>2 DEF CacheInv, Confirmed
  <2>10. QED
    BY <2>3, <2>5, <2>8, <2>9
<1>10. KnownInv'
  <2>1. \A n \in Nat : n <= calls => n <= calls'
    BY <1>4
  <2>2. hw.rev \in Nat /\ hw.cached.rev \in Nat /\ \A q \in Elems(net) : q.rev \in Nat
    BY QueueTypes DEF TypeInv, Board, Caches
  <2>3. hw'.rev <= calls' /\ hw'.cached.rev <= calls' /\ \A q \in Elems(net') : q.rev <= calls'
    BY <1>1, <2>1, <2>2 DEF KnownInv
  <2>4. k.c.rev <= calls' /\ stored'.rev <= calls'
    BY DEF HostStep
  <2>5. \A y \in Threads : \A a \in Elems(ans[y]) : a.h.rev \in Nat /\ a.h.rev <= calls'
    BY <2>1, QueueTypes DEF KnownInv
  <2>6. \A y \in Threads : th[y].pc \in Holds => th[y].c.a.h.rev <= calls'
    <3>1. \A y \in Threads : th[y].pc \in Holds => th[y].c.a.h.rev \in Nat
      BY DEF PlaceInv, PlaceOK, Replies, Board
    <3>2. QED
      BY <2>1, <3>1 DEF KnownInv
  <2>7. \A y \in Threads : th[y].c.rev <= calls'
    <3>1. \A y \in Threads : th[y].c.rev \in Nat
      BY DEF TypeInv, ThreadRec, Calls
    <3>2. QED
      BY <2>1, <3>1 DEF KnownInv
  <2>8. k.pc \in Holds => k.c.a \in Elems(ans[x])
    BY PcFacts DEF HostStep
  <2>9. ASSUME NEW y \in Threads
        PROVE  /\ th'[y].c.rev <= calls'
               /\ \A a \in Elems(ans'[y]) : a.h.rev <= calls'
               /\ th'[y].pc \in Holds => th'[y].c.a.h.rev <= calls'
    <3>1. CASE y = x
      BY <1>1, <1>2, <2>4, <2>5, <2>8, <3>1
    <3>2. CASE y # x
      BY <1>1, <1>2, <2>5, <2>6, <2>7, <3>2
    <3>3. QED
      BY <3>1, <3>2
  <2>10. QED
    BY <2>3, <2>4, <2>9 DEF KnownInv
<1>11. QED
  BY <1>5, <1>8, <1>9, <1>10

\* A thread without a call.
LEMMA NoThreadFacts ==
  /\ NoCall \in Calls /\ NoThread \in ThreadRec /\ NoThread.pc = "end" /\ NoThread.c = NoCall
  /\ NoCall.op = "none" /\ NoCall.rev = 0 /\ NoActual \in Actuals
  /\ \A x \in Threads : \A w, l : \A n \in Nat : PlaceOK(x, NoThread, w, l, n)
<1>1. NoCall \in Calls /\ NoThread \in ThreadRec /\ NoActual \in Actuals
  BY V0Assumption DEF NoCall, NoThread, NoActual, Calls, Actuals, ThreadRec, WebPcs
<1>2. /\ NoThread.pc = "end" /\ NoThread.c = NoCall /\ NoThread.att = 0 /\ NoCall.op = "none"
      /\ NoCall.rev = 0 /\ NoCall.seq = 0
  BY DEF NoThread, NoCall
<1>3. 0 <= RETRIES + 1
  BY RetriesAssumption
<1>4. \A x \in Threads : \A w, l : \A n \in Nat : PlaceOK(x, NoThread, w, l, n)
  BY <1>2, <1>3 DEF PlaceOK, WebPcs, LibPcs, Sends, Holds, Current, Waits
<1>5. QED
  BY <1>1, <1>2, <1>4

\* A thread goes on, or ends.
LEMMA GotoFacts ==
  ASSUME TypeInv, NEW x \in Threads, NEW pc, Goto(x, pc)
  PROVE  th' = [th EXCEPT ![x] = IF pc = "end" THEN NoThread
                                 ELSE [pc |-> pc, c |-> th[x].c, att |-> th[x].att]]
<1>1. th[x] = [pc |-> th[x].pc, c |-> th[x].c, att |-> th[x].att]
  BY DEF TypeInv, ThreadRec
<1>2. [th[x] EXCEPT !.pc = pc] = [pc |-> pc, c |-> th[x].c, att |-> th[x].att]
  BY <1>1
<1>3. th' = [th EXCEPT ![x] = IF pc = "end" THEN NoThread ELSE [th[x] EXCEPT !.pc = pc]]
  BY DEF Goto
<1>4. QED
  BY <1>2, <1>3

\* A new request: the call as it is, with the next number.
LEMMA RequestFacts ==
  ASSUME TypeInv, NEW x \in Threads, NEW pc \in Sends, NEW c \in Calls, _next_sequence(x, pc, c)
  PROVE  \E k \in ThreadRec :
           /\ th' = [th EXCEPT ![x] = k] /\ seqn' = seqn + 1 /\ seqn < MaxSeq
           /\ k.pc = pc /\ k.att = 0 /\ k.c.seq = seqn + 1
           /\ k.c.op = c.op /\ k.c.val = c.val /\ k.c.mask = c.mask /\ k.c.rev = c.rev
<1> DEFINE k == [pc |-> pc, c |-> [c EXCEPT !.seq = seqn + 1], att |-> 0]
<1>1. th' = [th EXCEPT ![x] = k] /\ seqn' = seqn + 1 /\ seqn < MaxSeq
  BY DEF _next_sequence
<1>2. seqn + 1 \in Nat
  BY BoundsAssumption DEF TypeInv
<1>3. /\ [c EXCEPT !.seq = seqn + 1] \in Calls /\ [c EXCEPT !.seq = seqn + 1].seq = seqn + 1
      /\ [c EXCEPT !.seq = seqn + 1].op = c.op /\ [c EXCEPT !.seq = seqn + 1].val = c.val
      /\ [c EXCEPT !.seq = seqn + 1].mask = c.mask /\ [c EXCEPT !.seq = seqn + 1].rev = c.rev
  BY <1>2 DEF Calls
<1>4. pc \in WebPcs \cup LibPcs
  BY DEF Sends, WebPcs, LibPcs
<1>5. k \in ThreadRec /\ k.pc = pc /\ k.att = 0 /\ k.c = [c EXCEPT !.seq = seqn + 1]
  BY <1>3, <1>4 DEF ThreadRec
<1> HIDE DEF k
<1>6. QED
  BY <1>1, <1>3, <1>5

\* A step of a web call keeps the invariant when it keeps SyncInv.
LEMMA WebKeeps ==
  ASSUME IInv, web, NEW x \in Threads, NEW k, HostStep(x, k), good' \in {good, {}}, SyncInv'
  PROVE  IInv'
<1>1. TypeInv' /\ PlaceInv' /\ PacketInv' /\ AnswerInv' /\ CacheInv' /\ KnownInv'
  BY HostKeeps DEF IInv
<1>2. web' /\ good' = {}
  BY DEF IInv, GoodInv, HostStep
<1>3. GoodInv'
  BY <1>2 DEF GoodInv
<1>4. QED
  BY <1>1, <1>3 DEF IInv

\* A step of the library keeps the invariant when it keeps GoodInv.
LEMMA LibKeeps ==
  ASSUME IInv, ~web, NEW k, HostStep(Lib, k), GoodInv'
  PROVE  IInv'
<1>1. TypeInv' /\ PlaceInv' /\ PacketInv' /\ AnswerInv' /\ CacheInv' /\ KnownInv'
  BY HostKeeps DEF IInv, Threads
<1>2. ~web'
  BY DEF HostStep
<1>3. SyncInv'
  BY <1>2 DEF SyncInv
<1>4. QED
  BY <1>1, <1>3 DEF IInv

\* A call that goes on, with the store and the library as they are.
LEMMA GoesOn ==
  ASSUME IInv, NEW x \in Threads, th[x].pc \notin {"end", "pending"}, NEW k, HostStep(x, k),
         k.pc # "end", k.c.op = th[x].c.op, k.c.val = th[x].c.val,
         k.pc \in Holds => k.c.seq = seqn',
         UNCHANGED <<stored, alone, overlap, good, pend>>
  PROVE  IInv'
<1>1. TypeInv' /\ PlaceInv' /\ PacketInv' /\ AnswerInv' /\ CacheInv' /\ KnownInv'
  BY HostKeeps DEF IInv
<1>2. /\ th'[x] = k /\ (\A y \in Threads : y # x => th'[y] = th[y]) /\ Lib \in Threads
      /\ web' = web /\ hw' = hw /\ net' = net
  BY DEF HostStep, IInv, TypeInv, Threads
<1>3. PlaceOK(x, th[x], web, lock, seqn)
  BY DEF IInv, PlaceInv
<1>4. IF x = Lib THEN ~web ELSE web /\ x \in Web
  BY <1>3 DEF PlaceOK, Threads
<1>5. CASE x = Lib
  <2>1. good = {}
    BY <1>5 DEF IInv, GoodInv
  <2>2. (k.c.op = "set" => k.c.val = pend) /\ ~web'
    BY <1>2, <1>4, <1>5 DEF IInv, GoodInv
  <2>3. GoodInv'
    BY <1>2, <1>5, <2>1, <2>2 DEF GoodInv
  <2>4. QED
    BY <1>4, <1>5, <2>3, LibKeeps
<1>6. CASE x # Lib
  <2>1. web /\ x \in Web /\ Active(x) /\ \A y \in Web : y \in Threads
    BY <1>4, <1>6 DEF Active, Threads
  <2>2. \A y \in Web : Active(y) /\ alone = y => y = x
    BY <2>1 DEF IInv, SyncInv
  <2>3. \A y \in Web : Active(y)' <=> Active(y)
    BY <1>2, <2>1 DEF Active
  <2>4. \A y \in Web : alone = y /\ th'[y].pc \in Holds => y = x
    BY <1>2, <2>1, <2>2, <2>3, PcFacts DEF Active
  <2>5. InSync => InSync'
    BY <1>2 DEF InSync, Quiet, Repeated
  <2>6. alone = x /\ k.c.op = "apply" => stored.status = "pending"
    BY <2>1 DEF IInv, SyncInv
  <2>7. SyncInv'
    <3>1. \A y \in Web : Active(y)' /\ alone = y /\ th'[y].c.op = "apply" => stored.status = "pending"
      BY <1>2, <2>1, <2>2, <2>3, <2>6
    <3>2. \A y, z \in Web : Active(y)' /\ alone = y /\ Active(z)' => z = y
      BY <2>1, <2>3 DEF IInv, SyncInv
    <3>3. ~overlap => \A y \in Web : Active(y)' => alone = y
      BY <2>1, <2>3 DEF IInv, SyncInv
    <3>4. ~overlap /\ stored.status = "applied" => InSync'
      BY <2>1, <2>5 DEF IInv, SyncInv
    <3>5. \A y \in Web : alone = y /\ th'[y].pc \in Holds => th'[y].c.seq = seqn'
      BY <1>2, <2>4
    <3>6. QED
      BY <3>1, <3>2, <3>3, <3>4, <3>5 DEF SyncInv
  <2>8. QED
    BY <2>1, <2>7, WebKeeps
<1>7. QED
  BY <1>5, <1>6

\* A thread that waits or holds an answer raises, gives back the lock, and what
\* it has taken from its socket is gone.
LEMMA Raises ==
  ASSUME IInv, NEW x \in Threads, th[x].pc \notin {"end", "pending"},
         NEW k \in ThreadRec, k.pc = "raise", Same(k.c, th[x].c), k.att = th[x].att,
         th' = [th EXCEPT ![x] = k], lock' = lock \/ Unlock(x),
         ans' \in [Threads -> Seq(Replies)], \A y \in Threads : Elems(ans'[y]) \subseteq Elems(ans[y]),
         UNCHANGED <<web, hw, play, net, stored, seqn, pend, conn, alone, overlap, good, calls, faults>>
  PROVE  IInv'
<1>1. /\ PlaceOK(x, th[x], web, lock, seqn) /\ lock \in Web \cup {None} /\ stored \in Store
      /\ calls \in 0..MaxCalls /\ calls <= calls /\ stored.rev <= calls /\ k.c.rev <= calls
      /\ pend \in [Channels -> Values] /\ good \in SUBSET Channels /\ conn \in BOOLEAN /\ overlap \in BOOLEAN
      /\ alone \in Threads \cup {None}
  BY BoundsAssumption DEF IInv, TypeInv, PlaceInv, KnownInv, Same
<1>2. k.pc \notin Current \cup Holds /\ k.pc \notin Sends /\ k.pc # "end"
  BY DEF Current, Holds, Sends, Waits
<1>3. lock' \in Web \cup {None} /\ \A y \in Threads : y # x /\ th[y].pc \in Current => lock' = lock
  <2>1. \A y \in Threads : th[y].pc \in Current => PlaceOK(y, th[y], web, lock, seqn) /\ th[y].pc # "end"
    BY PcFacts DEF IInv, PlaceInv
  <2>2. \A y \in Threads : y # x /\ th[y].pc \in Current => lock # x
    BY <1>1, <2>1 DEF PlaceOK
  <2>3. QED
    BY <1>1, <2>2 DEF Unlock
<1>4. PlaceOK(x, k, web, lock', seqn)
  BY <1>1, <1>2 DEF PlaceOK, Same, WebPcs, LibPcs
<1>5. HostStep(x, k)
  BY <1>1, <1>2, <1>3, <1>4 DEF HostStep
<1>6. QED
  BY <1>2, <1>5, GoesOn DEF Same

\* Where an answer takes the thread.
AfterWait(pc) == CASE pc = "wait_apply" -> "applied" [] pc = "wait_get" -> "got"
                   [] pc = "wait_abort" -> "poll" [] pc = "wait_hello" -> "hello"
                   [] OTHER -> "polled"

\* The places an answer leads to.
LEMMA AfterFacts ==
  \A pc \in Waits :
    /\ AfterWait(pc) \in WebPcs \cup LibPcs
    /\ AfterWait(pc) \notin Current /\ AfterWait(pc) # "end" /\ AfterWait(pc) # "pending"
    /\ AfterWait(pc) \in Holds => PcOp(AfterWait(pc)) = PcOp(pc)
    /\ pc \in WebPcs => AfterWait(pc) \in WebPcs
    /\ pc \in LibPcs => AfterWait(pc) \in LibPcs
    /\ AfterWait(pc) = "applied" <=> pc = "wait_apply"
    /\ AfterWait(pc) = "got" <=> pc = "wait_get"
  BY DEF Waits, AfterWait, WebPcs, LibPcs, Sends, Current, Holds, PcOp

\* The thread takes an answer to its request: it goes on with it.
LEMMA TakesAnswer ==
  ASSUME IInv, NEW x \in Threads, th[x].pc \in Waits, NEW a \in Replies, a \in Elems(ans[x]), a.seq = seqn,
         NEW k \in ThreadRec, k.pc = AfterWait(th[x].pc), k.att = th[x].att, Same(k.c, th[x].c), k.c.a = a,
         th' = [th EXCEPT ![x] = k], Unlock(x),
         ans' \in [Threads -> Seq(Replies)], \A y \in Threads : Elems(ans'[y]) \subseteq Elems(ans[y]),
         UNCHANGED <<web, hw, play, net, stored, seqn, pend, conn, alone, overlap, good, calls, faults>>
  PROVE  IInv'
<1>1. /\ PlaceOK(x, th[x], web, lock, seqn) /\ lock \in Web \cup {None} /\ stored \in Store
      /\ calls \in 0..MaxCalls /\ calls <= calls /\ stored.rev <= calls /\ th[x].c.rev <= calls
      /\ pend \in [Channels -> Values] /\ good \in SUBSET Channels /\ conn \in BOOLEAN /\ overlap \in BOOLEAN
      /\ alone \in Threads \cup {None} /\ th[x] \in ThreadRec
  BY BoundsAssumption DEF IInv, TypeInv, PlaceInv, KnownInv
<1>3. /\ k.pc \notin Current /\ k.pc \notin Sends /\ k.pc # "end" /\ th[x].pc \in Current
      /\ th[x].pc \notin {"end", "pending"} /\ th[x].c.seq = seqn
      /\ k.pc \in Holds => PcOp(k.pc) = PcOp(th[x].pc)
  <2>1. k.pc \notin Current /\ k.pc # "end" /\ (k.pc \in Holds => PcOp(k.pc) = PcOp(th[x].pc))
    BY AfterFacts
  <2>2. th[x].pc \notin {"end", "pending"}
    BY DEF Waits
  <2>3. th[x].pc \in Current
    BY PcFacts
  <2>4. QED
    BY <1>1, <2>1, <2>2, <2>3 DEF PlaceOK, Current
<1>4. lock' \in Web \cup {None} /\ \A y \in Threads : y # x /\ th[y].pc \in Current => lock' = lock
  <2>1. \A y \in Threads : th[y].pc \in Current => PlaceOK(y, th[y], web, lock, seqn) /\ th[y].pc # "end"
    BY PcFacts DEF IInv, PlaceInv
  <2>2. \A y \in Threads : y # x /\ th[y].pc \in Current => lock # x
    BY <1>1, <1>3, <2>1 DEF PlaceOK
  <2>3. QED
    BY <1>1, <2>2 DEF Unlock
<1>5. PlaceOK(x, k, web, lock', seqn)
  <2>1. x # Lib => /\ k.pc \in WebPcs
                   /\ k.c.op = "apply" => k.pc \notin {"send_get", "wait_get", "got"}
                   /\ k.c.op = "get" => k.pc \notin {"pending", "send_apply", "wait_apply", "applied"}
    BY <1>1, <1>3, AfterFacts DEF PlaceOK, Current, Sends, Waits, Same
  <2>2. x = Lib => k.pc \in LibPcs /\ (k.pc \in {"send_apply", "wait_apply", "applied"} => k.c.op = "set")
    BY <1>1, <1>3, AfterFacts DEF PlaceOK, Current, Sends, Waits, Same
  <2>3. QED
    BY <1>1, <1>3, <2>1, <2>2 DEF PlaceOK, Same
<1>6. HostStep(x, k)
  BY <1>1, <1>3, <1>4, <1>5 DEF HostStep, Same
<1>7. QED
  BY <1>3, <1>6, GoesOn DEF Same

\* The first answer in the socket is taken: it is skipped, the thread goes on
\* with it, or raises.
LEMMA ReceiveKeeps ==
  ASSUME IInv, NEW x \in Threads, receive_rfresp2(x)
  PROVE  IInv'
<1> DEFINE a == Head(ans[x])
<1>1. /\ th[x] \in ThreadRec /\ th[x].c \in Calls /\ PlaceOK(x, th[x], web, lock, seqn)
      /\ th[x].pc \in Waits /\ th \in [Threads -> ThreadRec]
  BY DEF IInv, TypeInv, PlaceInv, receive_rfresp2, Waiting, Waits, ThreadRec
<1>2. ans \in [Threads -> Seq(Replies)] /\ ans[x] \in Seq(Replies) /\ ans[x] # <<>>
  BY DEF IInv, TypeInv, receive_rfresp2
<1>3. /\ a \in Replies /\ Tail(ans[x]) \in Seq(Replies) /\ a \in Elems(ans[x])
      /\ Elems(Tail(ans[x])) \subseteq Elems(ans[x])
  BY <1>2, TailFacts
<1>4. /\ ans' = [ans EXCEPT ![x] = Tail(ans[x])]
      /\ UNCHANGED <<web, hw, play, net, stored, seqn, pend, conn, alone, overlap, good, calls, faults>>
      /\ \/ a.seq = th[x].c.seq /\ th' = [th EXCEPT ![x].pc = Answered(x, a), ![x].c.a = a] /\ Unlock(x)
         \/ th' = th /\ lock' = lock
         \/ th' = [th EXCEPT ![x].pc = "raise", ![x].c.second = TRUE] /\ Unlock(x)
  BY DEF receive_rfresp2
<1>5. ans' \in [Threads -> Seq(Replies)] /\ \A y \in Threads : Elems(ans'[y]) \subseteq Elems(ans[y])
  BY <1>2, <1>3, <1>4
<1>6. th[x].c.seq = seqn /\ th[x].pc \notin {"end", "pending"} /\ th[x].pc \in Current
  BY <1>1, PcFacts DEF PlaceOK, Waits
<1>7. Answered(x, a) = AfterWait(th[x].pc)
  BY <1>1 DEF Answered, At, AfterWait, Waits
<1> HIDE DEF a
<1>8. th[x] = [pc |-> th[x].pc, c |-> th[x].c, att |-> th[x].att]
  BY <1>1 DEF ThreadRec
<1>9. CASE a.seq = th[x].c.seq /\ th' = [th EXCEPT ![x].pc = Answered(x, a), ![x].c.a = a] /\ Unlock(x)
  <2> DEFINE k == [pc |-> AfterWait(th[x].pc), c |-> [th[x].c EXCEPT !.a = a], att |-> th[x].att]
  <2>1. th' = [th EXCEPT ![x] = k]
    <3>1. th' = [th EXCEPT ![x] = [[th[x] EXCEPT !.pc = AfterWait(th[x].pc)] EXCEPT !.c.a = a]]
      BY <1>1, <1>7, <1>9
    <3>2. [th[x] EXCEPT !.pc = AfterWait(th[x].pc)] = [pc |-> AfterWait(th[x].pc), c |-> th[x].c, att |-> th[x].att]
      BY <1>8
    <3>3. [[pc |-> AfterWait(th[x].pc), c |-> th[x].c, att |-> th[x].att] EXCEPT !.c.a = a] = k
      OBVIOUS
    <3>4. QED
      BY <3>1, <3>2, <3>3
  <2>2. k \in ThreadRec /\ k.pc = AfterWait(th[x].pc) /\ k.att = th[x].att /\ Same(k.c, th[x].c) /\ k.c.a = a
    BY <1>1, <1>3, AfterFacts DEF ThreadRec, Calls, Same
  <2> HIDE DEF k
  <2>3. QED
    BY <1>1, <1>3, <1>4, <1>5, <1>6, <1>9, <2>1, <2>2, TakesAnswer
<1>10. CASE th' = th /\ lock' = lock
  <2>1. th' = [th EXCEPT ![x] = th[x]]
    BY <1>1, <1>10
  <2>2. /\ stored \in Store /\ calls \in 0..MaxCalls /\ calls <= calls /\ stored.rev <= calls /\ th[x].c.rev <= calls
        /\ pend \in [Channels -> Values] /\ good \in SUBSET Channels /\ conn \in BOOLEAN /\ overlap \in BOOLEAN
        /\ alone \in Threads \cup {None} /\ lock \in Web \cup {None}
    BY BoundsAssumption DEF IInv, TypeInv, KnownInv
  <2>3. th[x].pc \notin Holds /\ Same(th[x].c, th[x].c)
    BY <1>6, PcFacts DEF Same
  <2>4. HostStep(x, th[x])
    BY <1>1, <1>4, <1>5, <1>6, <1>10, <2>1, <2>2, <2>3 DEF HostStep
  <2>5. QED
    BY <1>4, <1>6, <1>10, <2>3, <2>4, GoesOn
<1>11. CASE th' = [th EXCEPT ![x].pc = "raise", ![x].c.second = TRUE] /\ Unlock(x)
  <2> DEFINE k == [pc |-> "raise", c |-> [th[x].c EXCEPT !.second = TRUE], att |-> th[x].att]
  <2>1. th' = [th EXCEPT ![x] = k]
    <3>1. th' = [th EXCEPT ![x] = [[th[x] EXCEPT !.pc = "raise"] EXCEPT !.c.second = TRUE]]
      BY <1>1, <1>11
    <3>2. [th[x] EXCEPT !.pc = "raise"] = [pc |-> "raise", c |-> th[x].c, att |-> th[x].att]
      BY <1>8
    <3>3. ASSUME NEW b
          PROVE  [[pc |-> "raise", c |-> th[x].c, att |-> th[x].att] EXCEPT !.c.second = b]
                   = [pc |-> "raise", c |-> [th[x].c EXCEPT !.second = b], att |-> th[x].att]
      OBVIOUS
    <3>4. [[pc |-> "raise", c |-> th[x].c, att |-> th[x].att] EXCEPT !.c.second = TRUE] = k
      BY <3>3, Zenon
    <3>5. QED
      BY <3>1, <3>2, <3>4
  <2>2. k \in ThreadRec /\ k.pc = "raise" /\ Same(k.c, th[x].c) /\ k.att = th[x].att
    BY <1>1 DEF ThreadRec, Calls, Same, WebPcs
  <2> HIDE DEF k
  <2>3. QED
    BY <1>4, <1>5, <1>6, <1>11, <2>1, <2>2, Raises
<1>12. QED
  BY <1>4, <1>9, <1>10, <1>11

\* A timeout: the same request again, or none.
LEMMA TimeoutKeeps ==
  ASSUME IInv, NEW x \in Threads, timeout(x)
  PROVE  IInv'
<1>1. /\ th[x] \in ThreadRec /\ PlaceOK(x, th[x], web, lock, seqn) /\ th[x].pc \in Waits
      /\ ans \in [Threads -> Seq(Replies)] /\ TypeInv
  BY DEF IInv, TypeInv, PlaceInv, timeout, Waiting, Waits
<1>2. /\ UNCHANGED <<web, hw, play, net, ans, stored, seqn, pend, conn, alone, overlap, good, calls, faults>>
      /\ \/ th[x].att <= RETRIES /\ Goto(x, SendOf(th[x].pc)) /\ lock' = lock
         \/ Goto(x, "raise") /\ Unlock(x)
  BY DEF timeout
<1>3. ans' \in [Threads -> Seq(Replies)] /\ \A y \in Threads : Elems(ans'[y]) \subseteq Elems(ans[y])
  BY <1>1, <1>2
<1>4. th[x].c.seq = seqn /\ th[x].pc \notin {"end", "pending"} /\ th[x].pc \in Current /\ Same(th[x].c, th[x].c)
  BY <1>1, PcFacts DEF PlaceOK, Waits, Same
<1>5. CASE th[x].att <= RETRIES /\ Goto(x, SendOf(th[x].pc)) /\ lock' = lock
  <2> DEFINE k == [pc |-> SendOf(th[x].pc), c |-> th[x].c, att |-> th[x].att]
  <2>1. /\ SendOf(th[x].pc) # "end" /\ SendOf(th[x].pc) \in Sends /\ PcOp(SendOf(th[x].pc)) = PcOp(th[x].pc)
        /\ SendOf(th[x].pc) \in WebPcs \cup LibPcs /\ SendOf(th[x].pc) \notin Holds
    BY <1>1 DEF Waits, SendOf, Sends, PcOp, WebPcs, LibPcs, Holds
  <2>2. th' = [th EXCEPT ![x] = k]
    BY <1>1, <1>5, <2>1, GotoFacts
  <2>3. k.pc = SendOf(th[x].pc) /\ k.c = th[x].c /\ k.att = th[x].att /\ k \in ThreadRec
    BY <1>1, <2>1 DEF ThreadRec
  <2> HIDE DEF k
  <2>4. PlaceOK(x, k, web, lock, seqn)
    <3>1. x # Lib => /\ k.pc \in WebPcs
                     /\ k.c.op = "apply" => k.pc \notin {"send_get", "wait_get", "got"}
                     /\ k.c.op = "get" => k.pc \notin {"pending", "send_apply", "wait_apply", "applied"}
      BY <1>1, <2>3 DEF PlaceOK, Waits, SendOf, WebPcs
    <3>2. x = Lib => k.pc \in LibPcs /\ (k.pc \in {"send_apply", "wait_apply", "applied"} => k.c.op = "set")
      BY <1>1, <2>3 DEF PlaceOK, Waits, SendOf, LibPcs
    <3>3. QED
      BY <1>1, <1>4, <1>5, <2>1, <2>3, <3>1, <3>2 DEF PlaceOK
  <2>5. /\ stored \in Store /\ calls \in 0..MaxCalls /\ calls <= calls /\ stored.rev <= calls /\ th[x].c.rev <= calls
        /\ pend \in [Channels -> Values] /\ good \in SUBSET Channels /\ conn \in BOOLEAN /\ overlap \in BOOLEAN
        /\ alone \in Threads \cup {None} /\ lock \in Web \cup {None}
    BY BoundsAssumption DEF IInv, TypeInv, KnownInv
  <2>6. HostStep(x, k)
    BY <1>2, <1>3, <1>4, <1>5, <2>1, <2>2, <2>3, <2>4, <2>5 DEF HostStep
  <2>7. QED
    BY <1>2, <1>4, <2>1, <2>3, <2>6, GoesOn
<1>6. CASE Goto(x, "raise") /\ Unlock(x)
  <2> DEFINE k == [pc |-> "raise", c |-> th[x].c, att |-> th[x].att]
  <2>1. th' = [th EXCEPT ![x] = k]
    BY <1>1, <1>6, GotoFacts
  <2>2. k \in ThreadRec /\ k.pc = "raise" /\ Same(k.c, th[x].c) /\ k.att = th[x].att
    BY <1>1 DEF ThreadRec, Same, WebPcs
  <2> HIDE DEF k
  <2>3. QED
    BY <1>2, <1>3, <1>4, <1>6, <2>1, <2>2, Raises
<1>7. QED
  BY <1>2, <1>5, <1>6

\* What a thread of the server has in a web call.
LEMMA WebFacts ==
  ASSUME IInv, NEW x \in Web
  PROVE  /\ x \in Threads /\ x # Lib /\ x # None /\ th[x] \in ThreadRec /\ th[x].c \in Calls
         /\ th[x].pc \in WebPcs /\ th[x].c.rev <= calls
         /\ th[x].att \in Nat /\ th[x].att <= RETRIES + 1
         /\ th[x].pc # "end" => web /\ th[x].c.op \in {"apply", "get"}
         /\ th[x].pc \in Holds => th[x].c.a \in Replies /\ th[x].c.a.h \in Board /\ th[x].c.a.h.rev <= calls
         /\ PlaceOK(x, th[x], web, lock, seqn)
         /\ stored \in Store /\ stored.rev <= calls
         /\ ans \in [Threads -> Seq(Replies)] /\ (\A y \in Threads : Elems(ans[y]) \subseteq Elems(ans[y]))
         /\ seqn \in Nat /\ calls \in 0..MaxCalls /\ calls <= calls /\ lock \in Web \cup {None}
         /\ pend \in [Channels -> Values] /\ good \in SUBSET Channels /\ {} \in SUBSET Channels
         /\ conn \in BOOLEAN /\ overlap \in BOOLEAN /\ alone \in Threads \cup {None}
<1>1. x \in Threads /\ x # Lib /\ x # None
  BY LibAssumption, NoneAssumption DEF Threads
<1>2. th[x] \in ThreadRec /\ PlaceOK(x, th[x], web, lock, seqn)
  BY <1>1 DEF IInv, TypeInv, PlaceInv
<1>3. th[x].c \in Calls /\ th[x].att \in Nat
  BY <1>2 DEF ThreadRec
<1>4. /\ th[x].pc \in WebPcs /\ th[x].att <= RETRIES + 1
      /\ th[x].pc # "end" => web /\ th[x].c.op \in {"apply", "get"}
  BY <1>1, <1>2 DEF PlaceOK
<1>5. th[x].pc \in Holds => th[x].c.a \in Replies /\ th[x].c.a.h \in Board /\ th[x].c.a.h.rev <= calls
  BY <1>1, <1>2 DEF PlaceOK, Replies, IInv, KnownInv
<1>6. th[x].c.rev <= calls /\ stored.rev <= calls
  BY <1>1 DEF IInv, KnownInv
<1>7. /\ stored \in Store /\ seqn \in Nat /\ calls \in 0..MaxCalls /\ lock \in Web \cup {None}
      /\ pend \in [Channels -> Values] /\ good \in SUBSET Channels /\ conn \in BOOLEAN /\ overlap \in BOOLEAN
      /\ alone \in Threads \cup {None} /\ ans \in [Threads -> Seq(Replies)]
  BY BoundsAssumption DEF IInv, TypeInv
<1>8. calls <= calls
  BY <1>7
<1>9. QED
  BY <1>1, <1>2, <1>3, <1>4, <1>5, <1>6, <1>7, <1>8

\* A call begins.
LEMMA BeginFacts ==
  ASSUME IInv, NEW x \in Threads, Begin(x)
  PROVE  /\ th[x].pc = "end" /\ calls' = calls + 1 /\ calls' \in 0..MaxCalls /\ calls \in Nat

         /\ \/ (\A y \in Web : ~Active(y)) /\ alone' = x /\ overlap' = overlap
            \/ alone' = None /\ overlap'
         /\ overlap' \in BOOLEAN /\ alone' \in Threads \cup {None}
         /\ good' = {}
<1>1. calls \in 0..MaxCalls /\ calls < MaxCalls /\ calls' = calls + 1
  BY DEF Begin, IInv, TypeInv
<1>2. MaxCalls \in Nat
  BY BoundsAssumption DEF MaxCalls
<1>3. calls' \in 0..MaxCalls /\ calls \in Nat
  BY <1>1, <1>2
<1>4. overlap \in BOOLEAN
  BY DEF IInv, TypeInv
<1>5. \/ (\A y \in Web : ~Active(y)) /\ alone' = x /\ overlap' = overlap
      \/ alone' = None /\ overlap'
  BY <1>4 DEF Begin, At, Active
<1>6. QED
  BY <1>1, <1>3, <1>4, <1>5 DEF Begin, At

-----------------------------------------------------------------------------
(* Each action of the web server keeps the invariant.                       *)

\* A call that begins is alone when all others have ended.
LEMMA WebBegins ==
  ASSUME IInv, NEW x \in Web, web, Begin(x), NEW k \in ThreadRec,
         k.pc \in {"pending", "lock"}, k.c.op = IF k.pc = "pending" THEN "apply" ELSE "get",
         k.att = 0, k.c.seq = 0, k.c.rev <= calls',
         th' = [th EXCEPT ![x] = k], ans' = [ans EXCEPT ![x] = <<>>],
         UNCHANGED <<web, hw, play, net, stored, lock, seqn, pend, conn, faults>>
  PROVE  IInv'
<1>1. /\ x \in Threads /\ x # Lib /\ x # None /\ th[x].pc = "end" /\ calls' = calls + 1 /\ calls' \in 0..MaxCalls
      /\ calls \in Nat /\ overlap' \in BOOLEAN /\ alone' \in Threads \cup {None} /\ good' = {}
      /\ \/ (\A y \in Web : ~Active(y)) /\ alone' = x /\ overlap' = overlap
         \/ alone' = None /\ overlap'
  BY WebFacts, BeginFacts
<1>2. /\ stored \in Store /\ stored.rev <= calls /\ stored.rev \in Nat /\ seqn \in Nat
      /\ lock \in Web \cup {None} /\ pend \in [Channels -> Values] /\ conn \in BOOLEAN
      /\ ans \in [Threads -> Seq(Replies)]
  BY WebFacts DEF Store
<1>3. k.pc \notin Current \cup Holds /\ k.pc \notin Sends /\ k.pc # "end"
  BY DEF Current, Holds, Sends, Waits
<1>4. PlaceOK(x, k, web, lock, seqn)
  BY <1>1, <1>2, <1>3, RetriesAssumption DEF PlaceOK, WebPcs
<1>5. ans' \in [Threads -> Seq(Replies)] /\ \A y \in Threads : Elems(ans'[y]) \subseteq Elems(ans[y])
  BY <1>2, EmptyFacts
<1>6. HostStep(x, k)
  <2>1. stored'.rev <= calls' /\ calls <= calls' /\ stored' = stored /\ good' \in SUBSET Channels
    BY <1>1, <1>2
  <2>2. QED
    BY <1>1, <1>2, <1>3, <1>4, <1>5, <2>1 DEF HostStep
<1>7. /\ th'[x] = k /\ \A y \in Web : y # x => th'[y] = th[y]
  BY <1>1, WebFacts DEF IInv, TypeInv
<1>8. InSync => InSync'
  BY DEF InSync, Quiet, Repeated
<1>9. SyncInv'
  <2>1. CASE (\A y \in Web : ~Active(y)) /\ alone' = x /\ overlap' = overlap
    <3>1. \A y \in Web : Active(y)' => y = x
      BY <1>7, <2>1 DEF Active
    <3>2. \A y \in Web : alone' = y => y = x
      BY <2>1
    <3>3. ~overlap /\ stored.status = "applied" => InSync'
      BY <1>8 DEF IInv, SyncInv
    <3>4. k.c.op = "apply" => k.pc = "pending"
      OBVIOUS
    <3>5. QED
      BY <1>3, <1>7, <2>1, <3>1, <3>2, <3>3, <3>4 DEF SyncInv
  <2>2. CASE alone' = None /\ overlap'
    <3>1. \A y \in Web : alone' # y
      BY <2>2, NoneAssumption
    <3>2. QED
      BY <2>2, <3>1 DEF SyncInv
  <2>3. QED
    BY <1>1, <2>1, <2>2
<1>10. QED
  BY <1>1, <1>6, <1>9, WebKeeps

\* RfdcService.apply reads the store.
LEMMA ApplyKeeps ==
  ASSUME IInv, NEW x \in Web, NEW val \in Requests, NEW mask \in SUBSET Channels,
         NEW actual \in {NoActual, stored.actual}, apply(x, val, mask, actual)
  PROVE  IInv'
<1> DEFINE r == stored.rev + 1
           c == [NoCall EXCEPT !.op = "apply", !.val = val, !.actual = actual, !.mask = mask, !.rev = r,
                               !.valid = stored.valid]
           k == [pc |-> "pending", att |-> 0, c |-> c]
<1>1. web /\ Begin(x) /\ th' = [th EXCEPT ![x] = k] /\ ans' = [ans EXCEPT ![x] = <<>>]
      /\ UNCHANGED <<web, hw, play, net, stored, lock, seqn, pend, conn, faults>>
  BY DEF apply
<1>2. stored \in Store /\ stored.rev <= calls /\ stored.rev \in Nat /\ x \in Threads
  BY WebFacts DEF Store
<1>3. calls' = calls + 1 /\ calls \in Nat
  BY <1>1, <1>2, BeginFacts
<1>4. stored.valid \in SUBSET Channels /\ r \in Nat /\ val \in [Channels -> Values] /\ actual \in Actuals
  BY <1>2, RequestsAssumption, NoThreadFacts DEF Store
<1>5. c \in Calls /\ c.op = "apply" /\ c.rev = stored.rev + 1 /\ c.seq = 0
  <2>1. NoCall \in Calls /\ NoCall.seq = 0
    BY NoThreadFacts DEF NoCall
  <2> HIDE DEF r
  <2>2. c \in Calls /\ c.op = "apply" /\ c.rev = r /\ c.seq = 0
    BY <1>4, <2>1 DEF Calls
  <2>3. QED
    BY <2>2 DEF r
<1> HIDE DEF c
<1>6. k \in ThreadRec /\ k.pc = "pending" /\ k.att = 0 /\ k.c = c
  BY <1>5 DEF ThreadRec, WebPcs
<1> HIDE DEF k
<1>7. k.c.rev <= calls'
  BY <1>2, <1>3, <1>5, <1>6
<1>8. QED
  BY <1>1, <1>5, <1>6, <1>7, WebBegins

\* RfdcService.get reads the store, then asks the board.
LEMMA GetKeeps ==
  ASSUME IInv, NEW x \in Web, get(x)
  PROVE  IInv'
<1> DEFINE c == [NoCall EXCEPT !.op = "get", !.val = stored.val, !.actual = stored.actual,
                               !.rev = stored.rev, !.valid = stored.valid]
           k == [pc |-> "lock", att |-> 0, c |-> c]
<1>1. web /\ Begin(x) /\ th' = [th EXCEPT ![x] = k] /\ ans' = [ans EXCEPT ![x] = <<>>]
      /\ UNCHANGED <<web, hw, play, net, stored, lock, seqn, pend, conn, faults>>
  BY DEF get
<1>2. stored \in Store /\ stored.rev <= calls /\ stored.rev \in Nat /\ x \in Threads
  BY WebFacts DEF Store
<1>3. calls' = calls + 1 /\ calls \in Nat
  BY <1>1, <1>2, BeginFacts
<1>4. c \in Calls /\ c.op = "get" /\ c.rev = stored.rev /\ c.seq = 0
  <2>1. NoCall \in Calls /\ NoCall.seq = 0
    BY NoThreadFacts DEF NoCall
  <2>2. QED
    BY <1>2, <2>1 DEF Calls, Store
<1> HIDE DEF c
<1>5. k \in ThreadRec /\ k.pc = "lock" /\ k.att = 0 /\ k.c = c
  BY <1>4 DEF ThreadRec, WebPcs
<1> HIDE DEF k
<1>6. k.c.rev <= calls'
  BY <1>2, <1>3, <1>4, <1>5
<1>7. QED
  BY <1>1, <1>4, <1>5, <1>6, WebBegins

\* The pending configuration is stored.
LEMMA PendingKeeps ==
  ASSUME IInv, NEW x \in Web, pending(x)
  PROVE  IInv'
<1> DEFINE k == [pc |-> "lock", c |-> th[x].c, att |-> th[x].att]
           s == Unconfirmed(th[x].c, "pending")
<1>1. th[x].pc = "pending" /\ stored' = s /\ Goto(x, "lock")
      /\ UNCHANGED <<web, hw, play, net, ans, lock, seqn, pend, conn, alone, overlap, good, calls, faults>>
  BY DEF pending, At, save_rfdc_config
<1>2. /\ x \in Threads /\ x # Lib /\ web /\ th[x].c \in Calls /\ th[x] \in ThreadRec
      /\ PlaceOK(x, th[x], web, lock, seqn) /\ th[x].c.rev <= calls
      /\ ans \in [Threads -> Seq(Replies)]
      /\ calls \in 0..MaxCalls /\ calls <= calls /\ lock \in Web \cup {None} /\ pend \in [Channels -> Values]
      /\ good \in SUBSET Channels /\ conn \in BOOLEAN /\ overlap \in BOOLEAN /\ alone \in Threads \cup {None}
  BY <1>1, WebFacts
<1>3. th' = [th EXCEPT ![x] = k]
  BY <1>1, <1>2, GotoFacts DEF IInv
<1>4. s \in Store /\ s.rev = th[x].c.rev /\ s.status = "pending"
  BY <1>2 DEF Store, Calls, Unconfirmed
<1>5. k \in ThreadRec /\ k.pc = "lock" /\ k.c = th[x].c /\ k.att = th[x].att
  BY <1>2 DEF ThreadRec, WebPcs
<1> HIDE DEF k, s
<1>6. k.pc \notin Current \cup Holds /\ k.pc \notin Sends
  BY <1>5 DEF Current, Holds, Sends, Waits
<1>7. PlaceOK(x, k, web, lock, seqn)
  BY <1>1, <1>2, <1>5, <1>6 DEF PlaceOK, WebPcs
<1>8. \A y \in Threads : Elems(ans'[y]) \subseteq Elems(ans[y])
  BY <1>1
<1>9. HostStep(x, k)
  BY <1>1, <1>2, <1>3, <1>4, <1>5, <1>6, <1>7, <1>8 DEF HostStep
<1>10. th'[x] = k /\ \A y \in Web : y # x => th'[y] = th[y]
  BY <1>2, <1>3 DEF IInv, TypeInv, Threads
<1>11. \A y \in Web : (Active(y)' <=> Active(y)) /\ th'[y].c = th[y].c /\ (th'[y].pc \in Holds <=> th[y].pc \in Holds)
  BY <1>1, <1>5, <1>10 DEF Active, Holds
<1>12. SyncInv'
  BY <1>1, <1>2, <1>4, <1>11 DEF IInv, SyncInv
<1>13. QED
  BY <1>1, <1>2, <1>9, <1>12, WebKeeps

\* The lock of the board is taken and the request is made, or the call raises.
LEMMA LockKeeps ==
  ASSUME IInv, NEW x \in Web, rfdc_apply(x) \/ rfdc_get_config(x)
  PROVE  IInv'
<1>1. /\ th[x].pc = "lock" /\ lock = None
      /\ \/ /\ lock' = x
            /\ \E pc \in {"send_apply", "send_get"} :
                 (pc = "send_apply" <=> th[x].c.op = "apply") /\ _next_sequence(x, pc, th[x].c)
         \/ Goto(x, "raise") /\ UNCHANGED <<lock, seqn>>
      /\ UNCHANGED <<web, hw, play, net, ans, stored, pend, conn, alone, overlap, good, calls, faults>>
  BY DEF rfdc_apply, rfdc_get_config, Locked, At
<1>2. \A pc \in {"send_apply", "send_get"} : pc \in Sends /\ pc \in WebPcs /\ pc # "end"
  BY DEF Sends, WebPcs
<1>3. /\ x \in Threads /\ x # Lib /\ web /\ th[x].c \in Calls /\ th[x] \in ThreadRec
      /\ PlaceOK(x, th[x], web, lock, seqn) /\ stored \in Store /\ stored.rev <= calls /\ th[x].c.rev <= calls
      /\ ans \in [Threads -> Seq(Replies)]
      /\ calls \in 0..MaxCalls /\ calls <= calls /\ pend \in [Channels -> Values] /\ seqn \in Nat
      /\ good \in SUBSET Channels /\ conn \in BOOLEAN /\ overlap \in BOOLEAN /\ alone \in Threads \cup {None}
      /\ th[x].c.op \in {"apply", "get"}
  BY <1>1, WebFacts
<1>4. \A y \in Threads : Elems(ans'[y]) \subseteq Elems(ans[y])
  BY <1>1
<1>5. ASSUME NEW pc \in {"send_apply", "send_get"}, pc = "send_apply" <=> th[x].c.op = "apply",
             lock' = x, _next_sequence(x, pc, th[x].c)
      PROVE  IInv'
  <2>1. \A y \in Threads : y # x => th[y].pc \notin Current
    <3>1. SUFFICES ASSUME NEW y \in Threads, y # x, th[y].pc \in Current
                   PROVE  FALSE
      OBVIOUS
    <3>2. PlaceOK(y, th[y], web, lock, seqn) /\ th[y].pc # "end"
      BY <3>1, PcFacts DEF IInv, PlaceInv
    <3>3. QED
      BY <1>1, <1>3, <3>1, <3>2, NoneAssumption DEF PlaceOK, Threads
  <2>2. PICK k \in ThreadRec :
          /\ th' = [th EXCEPT ![x] = k] /\ seqn' = seqn + 1 /\ seqn < MaxSeq
          /\ k.pc = pc /\ k.att = 0 /\ k.c.seq = seqn + 1
          /\ k.c.op = th[x].c.op /\ k.c.val = th[x].c.val /\ k.c.mask = th[x].c.mask
          /\ k.c.rev = th[x].c.rev
    <3>1. TypeInv /\ x \in Threads /\ pc \in Sends /\ th[x].c \in Calls /\ _next_sequence(x, pc, th[x].c)
      BY <1>2, <1>3, <1>5 DEF IInv
    <3>2. QED
      BY <3>1, RequestFacts
  <2>3. k.pc \notin Holds /\ k.pc # "end" /\ 0 <= RETRIES /\ 0 <= RETRIES + 1 /\ seqn + 1 <= seqn + 1
    BY <1>2, <1>3, <2>2, PcFacts, RetriesAssumption
  <2>4. PlaceOK(x, k, web, x, seqn + 1)
    <3>1. k.pc \in WebPcs /\ k.pc \notin {"pending", "wait_apply", "applied", "wait_get", "got"}
      BY <1>2, <2>2
    <3>2. (k.c.op = "apply" => k.pc = "send_apply") /\ (k.c.op = "get" => k.pc = "send_get")
      BY <1>3, <1>5, <2>2
    <3>3. QED
      BY <1>3, <2>2, <2>3, <3>1, <3>2 DEF PlaceOK
  <2>5. HostStep(x, k)
    BY <1>1, <1>2, <1>3, <1>4, <1>5, <2>1, <2>2, <2>4 DEF HostStep
  <2>6. QED
    BY <1>1, <1>3, <2>2, <2>3, <2>5, GoesOn
<1>6. CASE Goto(x, "raise") /\ UNCHANGED <<lock, seqn>>
  <2> DEFINE k == [pc |-> "raise", c |-> th[x].c, att |-> th[x].att]
  <2>1. th' = [th EXCEPT ![x] = k]
    BY <1>3, <1>6, GotoFacts DEF IInv
  <2>2. k \in ThreadRec /\ k.pc = "raise" /\ Same(k.c, th[x].c) /\ k.att = th[x].att
    BY <1>3 DEF ThreadRec, Same, WebPcs
  <2> HIDE DEF k
  <2>3. th[x].pc \notin {"end", "pending"} /\ ans' \in [Threads -> Seq(Replies)]
    BY <1>1, <1>3
  <2>4. QED
    BY <1>1, <1>3, <1>4, <1>6, <2>1, <2>2, <2>3, Raises
<1>7. QED
  BY <1>1, <1>5, <1>6

\* A web call that ends: the store is written or stays, and no call is left
\* that overlapped none.
LEMMA WebEnds ==
  ASSUME IInv, NEW x \in Web, web, th[x].pc # "end", Goto(x, "end"),
         stored' \in Store, stored'.rev <= calls,
         overlap' \in BOOLEAN, ~overlap' => ~overlap \/ alone = x,
         UNCHANGED <<web, hw, play, net, ans, lock, seqn, pend, conn, alone, good, calls, faults>>,
         ~overlap' /\ stored'.status = "applied" => InSync'
  PROVE  IInv'
<1>1. /\ x \in Threads /\ x # Lib /\ th[x].c \in Calls /\ th[x] \in ThreadRec
      /\ PlaceOK(x, th[x], web, lock, seqn) /\ ans \in [Threads -> Seq(Replies)]
      /\ calls \in 0..MaxCalls /\ calls <= calls /\ lock \in Web \cup {None} /\ pend \in [Channels -> Values]
      /\ good \in SUBSET Channels /\ conn \in BOOLEAN /\ alone \in Threads \cup {None} /\ seqn \in Nat
  BY WebFacts
<1>2. /\ th' = [th EXCEPT ![x] = NoThread] /\ NoThread.pc = "end" /\ NoThread \in ThreadRec
      /\ PlaceOK(x, NoThread, web, lock', seqn) /\ NoThread.c.rev <= calls
  <2>1. NoThread.c.rev = 0 /\ 0 <= calls
    BY <1>1, NoThreadFacts
  <2>2. QED
    BY <1>1, <2>1, GotoFacts, NoThreadFacts DEF IInv
<1>3. NoThread.pc \notin Current \cup Holds /\ \A y \in Threads : Elems(ans'[y]) \subseteq Elems(ans[y])
  BY <1>2, PcFacts
<1>4. HostStep(x, NoThread)
  BY <1>1, <1>2, <1>3 DEF HostStep
<1>5. th'[x].pc = "end" /\ \A y \in Web : y # x => th'[y] = th[y]
  BY <1>1, <1>2 DEF IInv, TypeInv, Threads
<1>6. \A y \in Web : Active(y)' /\ alone = y => FALSE
  BY <1>5 DEF IInv, SyncInv, Active
<1>7. ~overlap' => \A y \in Web : ~Active(y)'
  <2>1. ~overlap' => alone = x
    BY DEF IInv, SyncInv, Active
  <2>2. alone = x => \A y \in Web : y # x => ~Active(y)
    BY DEF IInv, SyncInv, Active
  <2>3. QED
    BY <1>5, <2>1, <2>2 DEF Active
<1>8. \A y \in Web : th'[y].pc \in Holds => Active(y)'
  BY PcFacts DEF Active
<1>9. SyncInv'
  BY <1>6, <1>7, <1>8 DEF SyncInv
<1>10. good' = good
  OBVIOUS
<1>11. QED
  BY <1>1, <1>4, <1>9, <1>10, WebKeeps

\* What the answer a tells of the board is stored: when the call overlapped no
\* other, it is what the board has.
LEMMA HardwareFacts ==
  ASSUME IInv, NEW x \in Web, web, th[x].pc \in Holds, NEW a, a = th[x].c.a,
         stored' = _config_from_hardware(th[x].c, a, "applied"),
         overlap' = (overlap /\ alone # x), UNCHANGED <<hw, net>>
  PROVE  /\ stored' \in Store /\ stored'.rev <= calls /\ overlap' \in BOOLEAN
         /\ ~overlap' => ~overlap \/ alone = x
         /\ ~overlap' /\ (a.status = "OK" \/ PcOp(th[x].pc) # "RFDC_APPLY") => InSync'
<1>1. /\ x \in Threads /\ th[x].c \in Calls /\ a \in Replies /\ a.h \in Board /\ a.h.rev <= calls
      /\ overlap \in BOOLEAN /\ Active(x)
  BY WebFacts, PcFacts DEF Active
<1>2. /\ stored'.rev = a.h.rev /\ stored'.valid = a.h.valid /\ stored' \in Store
      /\ \A c \in stored'.valid : stored'.actual[c] = a.h.val[c]
  <2> DEFINE f == [c \in Channels |-> IF c \in a.h.valid THEN a.h.val[c] ELSE th[x].c.actual[c]]
  <2>1. f \in Actuals /\ a.h.valid \subseteq Channels /\ \A c \in a.h.valid : f[c] = a.h.val[c]
    BY <1>1 DEF Board, Calls, Actuals
  <2> HIDE DEF f
  <2>2. stored' = [val |-> th[x].c.val, actual |-> f, valid |-> a.h.valid, rev |-> a.h.rev, status |-> "applied"]
    BY DEF _config_from_hardware, f
  <2>3. th[x].c.val \in [Channels -> Values] /\ a.h.rev \in Nat /\ a.h.valid \in SUBSET Channels
    BY <1>1 DEF Calls, Board
  <2>4. QED
    BY <2>1, <2>2, <2>3 DEF Store
<1>3. ASSUME ~overlap', a.status = "OK" \/ PcOp(th[x].pc) # "RFDC_APPLY"
      PROVE  InSync'
  <2>1. alone = x
    BY <1>1, <1>3 DEF IInv, SyncInv
  <2>2. Live(th[x], seqn)
    BY <2>1 DEF IInv, SyncInv, Live
  <2>3. AnswerOK(a, th[x], seqn, Elems(net), hw)
    BY <1>1, <2>2 DEF IInv, AnswerInv
  <2>4. /\ a.h = hw /\ (\A p \in Elems(net) : p.seq = seqn) /\ a.op = PcOp(th[x].pc)
        /\ a.op = "RFDC_APPLY" => Confirmed(seqn, th[x].c.rev, hw)
    BY <1>3, <2>3 DEF AnswerOK
  <2>5. \A p \in Elems(net) : Copy(p, th[x])
    BY <1>1, <2>2, <2>4 DEF IInv, PacketInv
  <2>6. Quiet
    BY <2>4, <2>5 DEF Quiet, Copy, Repeated, Confirmed
  <2>7. QED
    BY <1>2, <2>4, <2>6 DEF InSync, Quiet, Repeated
<1>4. QED
  BY <1>1, <1>2, <1>3

\* The answer to an application: the store says applied when it was one.
LEMMA FinishApplyKeeps ==
  ASSUME IInv, NEW x \in Web, finish_apply(x)
  PROVE  IInv'
<1> DEFINE a == th[x].c.a
<1>1. /\ web /\ th[x].pc = "applied"
      /\ \/ /\ a.status = "OK" /\ stored' = _config_from_hardware(th[x].c, a, "applied")
            /\ overlap' = (overlap /\ alone # x) /\ Goto(x, "end")
         \/ UNCHANGED <<stored, overlap>> /\ Goto(x, "raise")
      /\ UNCHANGED <<web, hw, play, net, ans, lock, seqn, pend, conn, alone, good, calls, faults>>
  BY DEF finish_apply, Stores, save_rfdc_config, At
<1>2. th[x].pc \in Holds /\ th[x].pc # "end"
  BY <1>1 DEF Holds
<1>3. /\ x \in Threads /\ th[x] \in ThreadRec /\ ans \in [Threads -> Seq(Replies)]
      /\ \A y \in Threads : Elems(ans'[y]) \subseteq Elems(ans[y])
  BY <1>1, WebFacts
<1>4. CASE /\ a.status = "OK" /\ stored' = _config_from_hardware(th[x].c, a, "applied")
           /\ overlap' = (overlap /\ alone # x) /\ Goto(x, "end")
  BY <1>1, <1>2, <1>4, HardwareFacts, WebEnds
<1>5. CASE UNCHANGED <<stored, overlap>> /\ Goto(x, "raise")
  <2> DEFINE k == [pc |-> "raise", c |-> th[x].c, att |-> th[x].att]
  <2>1. th' = [th EXCEPT ![x] = k]
    BY <1>3, <1>5, GotoFacts DEF IInv
  <2>2. k \in ThreadRec /\ k.pc = "raise" /\ Same(k.c, th[x].c) /\ k.att = th[x].att
    BY <1>3 DEF ThreadRec, Same, WebPcs
  <2> HIDE DEF k
  <2>3. th[x].pc \notin {"end", "pending"} /\ ans' \in [Threads -> Seq(Replies)]
    BY <1>1, <1>3
  <2>4. QED
    BY <1>1, <1>3, <1>5, <2>1, <2>2, <2>3, Raises
<1>6. QED
  BY <1>1, <1>4, <1>5

\* The answer to a request for the settings is stored.
LEMMA FinishGetKeeps ==
  ASSUME IInv, NEW x \in Web, finish_get(x)
  PROVE  IInv'
<1>1. /\ web /\ th[x].pc = "got" /\ stored' = _config_from_hardware(th[x].c, th[x].c.a, "applied")
      /\ overlap' = (overlap /\ alone # x) /\ Goto(x, "end")
      /\ UNCHANGED <<web, hw, play, net, ans, lock, seqn, pend, conn, alone, good, calls, faults>>
  BY DEF finish_get, Stores, save_rfdc_config, At
<1>2. th[x].pc \in Holds /\ PcOp(th[x].pc) # "RFDC_APPLY" /\ th[x].pc # "end"
  BY <1>1 DEF Holds, PcOp
<1>3. QED
  BY <1>1, <1>2, HardwareFacts, WebEnds

\* A call that raises: an application is stored as failed.
LEMMA FailedKeeps ==
  ASSUME IInv, NEW x \in Web, failed(x)
  PROVE  IInv'
<1> DEFINE s == Unconfirmed(th[x].c, "failed")
<1>1. /\ web /\ th[x].pc = "raise" /\ Goto(x, "end")
      /\ stored' = IF th[x].c.op = "apply" THEN s ELSE stored
      /\ UNCHANGED <<web, hw, play, net, ans, lock, seqn, pend, conn, alone, overlap, good, calls, faults>>
  BY DEF failed, save_rfdc_config, At
<1>2. x \in Threads /\ th[x].c \in Calls /\ stored \in Store /\ stored.rev <= calls /\ th[x].c.rev <= calls
      /\ overlap \in BOOLEAN
  BY WebFacts
<1>3. s \in Store /\ s.rev = th[x].c.rev /\ s.status = "failed"
  BY <1>2 DEF Store, Calls, Unconfirmed
<1> HIDE DEF s
<1>4. stored' \in Store /\ stored'.rev <= calls /\ (stored'.status = "applied" => stored' = stored)
  BY <1>1, <1>2, <1>3
<1>5. ~overlap' /\ stored'.status = "applied" => InSync'
  BY <1>1, <1>4 DEF IInv, SyncInv, InSync, Quiet, Repeated
<1>6. QED
  BY <1>1, <1>2, <1>4, <1>5, WebEnds

-----------------------------------------------------------------------------
(* Each action of the library keeps the invariant.                          *)

\* What the library user has in a call.
LEMMA LibFacts ==
  ASSUME IInv
  PROVE  /\ Lib \in Threads /\ th[Lib] \in ThreadRec /\ th[Lib].c \in Calls
         /\ PlaceOK(Lib, th[Lib], web, lock, seqn) /\ th[Lib].pc \in LibPcs
         /\ th[Lib].pc # "end" => ~web /\ th[Lib].c.op \in {"connect", "set"} /\ good = {}
         /\ th[Lib].c.rev <= calls
         /\ ans \in [Threads -> Seq(Replies)] /\ (\A y \in Threads : Elems(ans[y]) \subseteq Elems(ans[y]))
         /\ ~web => \A y \in Threads : y # Lib => th[y].pc = "end" /\ th[y].pc \notin Current
         /\ stored \in Store /\ stored.rev <= calls /\ stored.rev \in Nat
         /\ seqn \in Nat /\ calls \in 0..MaxCalls /\ calls <= calls /\ calls \in Nat
         /\ lock \in Web \cup {None} /\ pend \in [Channels -> Values] /\ good \in SUBSET Channels
         /\ conn \in BOOLEAN /\ overlap \in BOOLEAN /\ alone \in Threads \cup {None}
<1>1. Lib \in Threads
  BY DEF Threads
<1>2. th[Lib] \in ThreadRec /\ PlaceOK(Lib, th[Lib], web, lock, seqn)
  BY <1>1 DEF IInv, TypeInv, PlaceInv
<1>3. th[Lib].c \in Calls /\ th[Lib].pc \in LibPcs
  BY <1>2 DEF ThreadRec, PlaceOK
<1>4. th[Lib].pc # "end" => ~web /\ th[Lib].c.op \in {"connect", "set"} /\ good = {}
  BY <1>2 DEF PlaceOK, IInv, GoodInv
<1>5. ~web => \A y \in Threads : y # Lib => th[y].pc = "end" /\ th[y].pc \notin Current
  BY PcFacts DEF IInv, PlaceInv, PlaceOK
<1>6. th[Lib].c.rev <= calls /\ stored.rev <= calls
  BY <1>1 DEF IInv, KnownInv
<1>7. /\ stored \in Store /\ seqn \in Nat /\ calls \in 0..MaxCalls /\ lock \in Web \cup {None}
      /\ pend \in [Channels -> Values] /\ good \in SUBSET Channels /\ conn \in BOOLEAN /\ overlap \in BOOLEAN
      /\ alone \in Threads \cup {None} /\ ans \in [Threads -> Seq(Replies)]
  BY BoundsAssumption DEF IInv, TypeInv
<1>8. stored.rev \in Nat /\ calls <= calls /\ calls \in Nat
  BY <1>7 DEF Store
<1>9. QED
  BY <1>1, <1>2, <1>3, <1>4, <1>5, <1>6, <1>7, <1>8

\* The library makes a request.
LEMMA LibRequests ==
  ASSUME IInv, ~web, NEW pc \in Sends, pc \in LibPcs, NEW c \in Calls, c.op \in {"connect", "set"},
         pc = "send_apply" => c.op = "set",
         c.op = "set" => c.val = pend', c.rev <= calls',
         _next_sequence(Lib, pc, c), UNCHANGED <<web, hw, play, net, ans, stored, lock, faults>>,
         pend' \in [Channels -> Values], good' = {}, conn' \in BOOLEAN, overlap' \in BOOLEAN, alone' \in Threads \cup {None},
         calls' \in 0..MaxCalls, calls <= calls'
  PROVE  IInv'
<1>1. /\ Lib \in Threads /\ \A y \in Threads : y # Lib => th[y].pc \notin Current
      /\ stored \in Store /\ stored.rev <= calls /\ stored.rev \in Nat
      /\ seqn \in Nat /\ lock \in Web \cup {None} /\ calls \in Nat /\ ans \in [Threads -> Seq(Replies)]
      /\ \A y \in Threads : Elems(ans'[y]) \subseteq Elems(ans[y])
  BY LibFacts
<1>2. PICK k \in ThreadRec :
        /\ th' = [th EXCEPT ![Lib] = k] /\ seqn' = seqn + 1 /\ seqn < MaxSeq
        /\ k.pc = pc /\ k.att = 0 /\ k.c.seq = seqn + 1
        /\ k.c.op = c.op /\ k.c.val = c.val /\ k.c.mask = c.mask /\ k.c.rev = c.rev
  <2>1. TypeInv /\ Lib \in Threads
    BY <1>1 DEF IInv
  <2>2. QED
    BY <2>1, RequestFacts
<1>3. PlaceOK(Lib, k, web, lock, seqn + 1)
  <2>1. k.pc \notin Holds /\ k.pc # "end" /\ 0 <= RETRIES /\ 0 <= RETRIES + 1 /\ seqn + 1 <= seqn + 1
    BY <1>1, <1>2, PcFacts, RetriesAssumption
  <2>2. k.pc \in {"send_apply", "wait_apply", "applied"} => k.pc = "send_apply"
    BY <1>2 DEF Sends
  <2>3. QED
    BY <1>2, <2>1, <2>2 DEF PlaceOK
<1>4. stored'.rev <= calls' /\ stored' = stored
  <2>1. calls' \in Nat
    BY BoundsAssumption DEF MaxCalls
  <2>2. QED
    BY <1>1, <2>1
<1>5. HostStep(Lib, k)
  BY <1>1, <1>2, <1>3, <1>4 DEF HostStep
<1>6. th'[Lib] = k
  BY <1>1, <1>2 DEF IInv, TypeInv
<1>7. GoodInv'
  BY <1>2, <1>6, PcFacts DEF GoodInv
<1>8. QED
  BY <1>5, <1>7, LibKeeps

\* The library goes on without a request, or its call ends.
LEMMA LibGoes ==
  ASSUME IInv, ~web, th[Lib].pc # "end", NEW pc \in {"end", "poll", "raise"}, Goto(Lib, pc),
         UNCHANGED <<web, hw, play, net, ans, stored, lock, seqn, pend, alone, overlap, calls, faults>>,
         conn' \in BOOLEAN, good' \in SUBSET Channels,
         good' # {} => pc = "end" /\ Quiet /\ \A d \in good' : hw.val[d] = pend[d]
  PROVE  IInv'
<1> DEFINE k == IF pc = "end" THEN NoThread ELSE [pc |-> pc, c |-> th[Lib].c, att |-> th[Lib].att]
<1>1. /\ Lib \in Threads /\ th[Lib] \in ThreadRec /\ PlaceOK(Lib, th[Lib], web, lock, seqn)
      /\ th[Lib].c.op \in {"connect", "set"} /\ th[Lib].c.rev <= calls
      /\ stored \in Store /\ stored.rev <= calls
      /\ calls \in 0..MaxCalls /\ calls <= calls /\ calls \in Nat /\ lock \in Web \cup {None}
      /\ pend \in [Channels -> Values] /\ overlap \in BOOLEAN /\ alone \in Threads \cup {None} /\ seqn \in Nat
      /\ ans \in [Threads -> Seq(Replies)] /\ \A y \in Threads : Elems(ans'[y]) \subseteq Elems(ans[y])
  BY LibFacts
<1>2. th' = [th EXCEPT ![Lib] = k]
  BY <1>1, GotoFacts DEF IInv
<1>3. k \in ThreadRec /\ k.pc = pc /\ (k = NoThread \/ (pc # "end" /\ k.c = th[Lib].c /\ k.att = th[Lib].att))
  BY <1>1, NoThreadFacts DEF ThreadRec, LibPcs
<1> HIDE DEF k
<1>4. k.pc \notin Current \cup Holds /\ k.pc \notin Sends
  BY <1>3 DEF Current, Holds, Sends, Waits
<1>5. PlaceOK(Lib, k, web, lock, seqn)
  <2>1. CASE k = NoThread
    BY <1>1, <2>1, NoThreadFacts
  <2>2. CASE k # NoThread
    BY <1>1, <1>3, <1>4, <2>2 DEF PlaceOK, LibPcs
  <2>3. QED
    BY <2>1, <2>2
<1>6. k.c.rev <= calls
  <2>1. CASE k = NoThread
    BY <1>1, <2>1, NoThreadFacts
  <2>2. CASE k # NoThread
    BY <1>1, <1>3, <2>2
  <2>3. QED
    BY <2>1, <2>2
<1>7. HostStep(Lib, k)
  BY <1>1, <1>2, <1>3, <1>4, <1>5, <1>6 DEF HostStep
<1>8. th'[Lib] = k
  BY <1>1, <1>2 DEF IInv, TypeInv
<1>9. GoodInv'
  <2>1. k.pc # "end" => k.c = th[Lib].c
    BY <1>3, NoThreadFacts
  <2>2. th[Lib].c.op = "set" => th[Lib].c.val = pend
    BY DEF IInv, GoodInv
  <2>3. QED
    BY <1>3, <1>4, <1>8, <2>1, <2>2 DEF GoodInv, Quiet, Repeated
<1>10. QED
  BY <1>7, <1>9, LibKeeps

\* The handshake begins.
LEMMA ConnectKeeps ==
  ASSUME IInv, connect
  PROVE  IInv'
<1> DEFINE c == [NoCall EXCEPT !.op = "connect"]
<1>1. /\ ~web /\ Begin(Lib) /\ _next_sequence(Lib, "send_hello", c)
      /\ UNCHANGED <<web, hw, play, net, ans, stored, lock, pend, conn, faults>>
  BY DEF connect
<1>2. c \in Calls /\ c.op = "connect" /\ c.rev = 0
  BY NoThreadFacts DEF Calls
<1> HIDE DEF c
<1>3. calls' = calls + 1 /\ calls' \in 0..MaxCalls /\ calls \in Nat /\ overlap' \in BOOLEAN /\ alone' \in Threads \cup {None}
      /\ good' = {}
  BY <1>1, LibFacts, BeginFacts
<1>4. c.rev <= calls' /\ calls <= calls'
  BY <1>2, <1>3
<1>5. pend' \in [Channels -> Values] /\ conn' \in BOOLEAN
  BY <1>1, LibFacts
<1>6. "send_hello" \in Sends /\ "send_hello" \in LibPcs
  BY DEF Sends, LibPcs
<1>7. QED
  BY <1>1, <1>2, <1>3, <1>4, <1>5, <1>6, LibRequests

\* A request that follows another in the same call.
LEMMA FollowKeeps ==
  ASSUME IInv, ~web, th[Lib].pc # "end", NEW pc \in Sends, pc \in LibPcs, NEW c \in Calls,
         c.op = th[Lib].c.op, c.val = th[Lib].c.val, c.rev = th[Lib].c.rev,
         pc = "send_apply" => c.op = "set", _next_sequence(Lib, pc, c),
         UNCHANGED <<web, hw, play, net, ans, stored, lock, pend, alone, overlap, good, calls, faults>>,
         conn' \in BOOLEAN
  PROVE  IInv'
<1>1. /\ c.op \in {"connect", "set"} /\ c.rev <= calls
      /\ calls \in 0..MaxCalls /\ calls <= calls /\ good = {} /\ pend \in [Channels -> Values]
      /\ overlap \in BOOLEAN /\ alone \in Threads \cup {None}
  BY LibFacts
<1>2. c.op = "set" => c.val = pend
  BY DEF IInv, GoodInv
<1>3. pend' = pend /\ calls' = calls /\ good' = good /\ overlap' = overlap /\ alone' = alone
  OBVIOUS
<1>4. QED
  BY <1>1, <1>2, <1>3, LibRequests

\* HELLO was answered.
LEMMA HelloKeeps ==
  ASSUME IInv, hello
  PROVE  IInv'
<1>1. /\ th[Lib].pc = "hello" /\ conn' = TRUE /\ _next_sequence(Lib, "send_poll", th[Lib].c)
      /\ UNCHANGED <<web, hw, play, net, ans, stored, lock, pend, alone, overlap, good, calls, faults>>
  BY DEF hello, At
<1>2. th[Lib].c \in Calls /\ ~web
  BY <1>1, LibFacts
<1>3. "send_poll" \in Sends /\ "send_poll" \in LibPcs
  BY DEF Sends, LibPcs
<1>4. QED
  BY <1>1, <1>2, <1>3, FollowKeeps

\* ABORT was answered.
LEMMA PollKeeps ==
  ASSUME IInv, poll
  PROVE  IInv'
<1>1. /\ th[Lib].pc = "poll" /\ _next_sequence(Lib, "send_poll", th[Lib].c)
      /\ UNCHANGED <<web, hw, play, net, ans, stored, lock, pend, conn, alone, overlap, good, calls, faults>>
  BY DEF poll, At
<1>2. th[Lib].c \in Calls /\ ~web /\ conn \in BOOLEAN
  BY <1>1, LibFacts
<1>3. "send_poll" \in Sends /\ "send_poll" \in LibPcs
  BY DEF Sends, LibPcs
<1>4. QED
  BY <1>1, <1>2, <1>3, FollowKeeps

\* A setting is applied, or it stays pending in batch mode.
LEMMA SetKeeps ==
  ASSUME IInv, NEW d \in Channels, NEW v \in Values, NEW batch \in BOOLEAN,
         set_xy_nco_frequency(d, v, batch)
  PROVE  IInv'
<1> DEFINE r == calls + 1
           c == [NoCall EXCEPT !.op = "set", !.val = pend', !.mask = {d}, !.rev = r]
<1>1. /\ ~web /\ Begin(Lib) /\ pend' = [pend EXCEPT ![d] = v]
      /\ UNCHANGED <<web, hw, play, net, ans, stored, lock, conn, faults>>
      /\ IF batch THEN UNCHANGED <<th, seqn>> ELSE _next_sequence(Lib, "send_apply", c)
  BY DEF set_xy_nco_frequency
<1>2. /\ th[Lib].pc = "end" /\ calls' = r /\ calls' \in 0..MaxCalls /\ calls \in Nat
      /\ overlap' \in BOOLEAN /\ alone' \in Threads \cup {None}
      /\ good' = {}
  BY <1>1, LibFacts, BeginFacts
<1>3. pend' \in [Channels -> Values] /\ conn' \in BOOLEAN /\ r \in Nat /\ r <= calls' /\ calls <= calls'
      /\ {d} \in SUBSET Channels
  BY <1>1, <1>2, LibFacts
<1>4. CASE batch
  <2>1. /\ Lib \in Threads /\ th[Lib] \in ThreadRec /\ PlaceOK(Lib, th[Lib], web, lock, seqn)
        /\ th[Lib].c.rev <= calls /\ th[Lib].c.rev \in Nat
        /\ ans \in [Threads -> Seq(Replies)] /\ \A y \in Threads : Elems(ans'[y]) \subseteq Elems(ans[y])
        /\ stored \in Store /\ stored.rev <= calls /\ stored.rev \in Nat
        /\ lock \in Web \cup {None} /\ seqn \in Nat
    BY <1>1, LibFacts DEF Calls
  <2>2. th' = [th EXCEPT ![Lib] = th[Lib]] /\ seqn' = seqn
    BY <1>1, <1>4 DEF IInv, TypeInv
  <2>3. th[Lib].pc \notin Current \cup Holds
    BY <1>2, PcFacts
  <2>4. stored' = stored /\ stored'.rev <= calls' /\ th[Lib].c.rev <= calls' /\ good' \in SUBSET Channels
    BY <1>1, <1>2, <2>1
  <2>5. HostStep(Lib, th[Lib])
    BY <1>1, <1>2, <1>3, <2>1, <2>2, <2>3, <2>4 DEF HostStep
  <2>6. th' = th
    BY <1>1, <1>4
  <2>7. GoodInv'
    BY <1>2, <2>3, <2>6 DEF GoodInv
  <2>8. QED
    BY <1>1, <2>5, <2>7, LibKeeps
<1>5. CASE ~batch
  <2> HIDE DEF r
  <2>1. c \in Calls /\ c.op = "set" /\ c.val = pend' /\ c.rev = r
    BY <1>3, NoThreadFacts DEF Calls
  <2> HIDE DEF c
  <2>2. "send_apply" \in Sends /\ "send_apply" \in LibPcs
    BY DEF Sends, LibPcs
  <2>3. QED
    BY <1>1, <1>2, <1>3, <1>5, <2>1, <2>2, LibRequests
<1>6. QED
  BY <1>4, <1>5

\* All pending settings are applied.
LEMMA CommitKeeps ==
  ASSUME IInv, commit
  PROVE  IInv'
<1> DEFINE r == calls + 1
           c == [NoCall EXCEPT !.op = "set", !.val = pend, !.mask = Channels, !.rev = r]
<1>1. /\ ~web /\ Begin(Lib) /\ _next_sequence(Lib, "send_apply", c)
      /\ UNCHANGED <<web, hw, play, net, ans, stored, lock, pend, conn, faults>>
  BY DEF commit
<1>2. /\ calls' = r /\ calls' \in 0..MaxCalls /\ calls \in Nat /\ overlap' \in BOOLEAN /\ alone' \in Threads \cup {None}
      /\ good' = {}
  BY <1>1, LibFacts, BeginFacts
<1>3. pend \in [Channels -> Values] /\ pend' = pend /\ conn' \in BOOLEAN /\ r \in Nat /\ r <= calls' /\ calls <= calls'
      /\ Channels \in SUBSET Channels
  BY <1>1, <1>2, LibFacts
<1> HIDE DEF r
<1>4. c \in Calls /\ c.op = "set" /\ c.val = pend /\ c.rev = r
  BY <1>3, NoThreadFacts DEF Calls
<1> HIDE DEF c
<1>5. "send_apply" \in Sends /\ "send_apply" \in LibPcs
  BY DEF Sends, LibPcs
<1>6. QED
  BY <1>1, <1>2, <1>3, <1>4, <1>5, LibRequests

\* RFDC_APPLY was answered: the call returns, aborts playback first, or raises.
LEMMA ApplyPendingKeeps ==
  ASSUME IInv, _apply_pending
  PROVE  IInv'
<1> DEFINE c == th[Lib].c
<1>1. /\ ~web /\ th[Lib].pc = "applied"
      /\ UNCHANGED <<web, hw, play, net, ans, stored, lock, pend, conn, alone, overlap, calls, faults>>
  BY DEF _apply_pending, At
<1>2. \/ c.a.status = "OK" /\ good' = c.mask /\ Goto(Lib, "end") /\ seqn' = seqn
      \/ good' = good /\ _next_sequence(Lib, "send_abort", [c EXCEPT !.second = TRUE])
      \/ good' = good /\ seqn' = seqn /\ Goto(Lib, "raise")
  BY DEF _apply_pending
<1>3. Lib \in Threads /\ c \in Calls /\ conn \in BOOLEAN /\ good = {} /\ PlaceOK(Lib, th[Lib], web, lock, seqn)
  BY <1>1, LibFacts
<1>4. CASE c.a.status = "OK" /\ good' = c.mask /\ Goto(Lib, "end") /\ seqn' = seqn
  <2>1. th[Lib].pc \in Holds /\ PcOp(th[Lib].pc) = "RFDC_APPLY"
    BY <1>1 DEF Holds, PcOp
  <2>2. Live(th[Lib], seqn)
    BY <1>1, <2>1 DEF Live, IInv, GoodInv
  <2>3. AnswerOK(c.a, th[Lib], seqn, Elems(net), hw)
    BY <1>3, <2>1, <2>2 DEF IInv, AnswerInv
  <2>4. (\A p \in Elems(net) : p.seq = seqn) /\ Done(c, hw) /\ Confirmed(seqn, c.rev, hw)
    BY <1>4, <2>1, <2>3 DEF AnswerOK
  <2>5. \A p \in Elems(net) : Copy(p, th[Lib])
    BY <1>3, <2>2, <2>4 DEF IInv, PacketInv
  <2>6. Quiet
    BY <2>4, <2>5 DEF Quiet, Copy, Repeated, Confirmed
  <2>7. c.val = pend
    BY <1>1, <1>3 DEF PlaceOK, IInv, GoodInv
  <2>8. good' \in SUBSET Channels /\ \A d \in good' : hw.val[d] = pend[d]
    BY <1>3, <1>4, <2>4, <2>7 DEF Calls, Done
  <2>9. QED
    BY <1>1, <1>3, <1>4, <2>6, <2>8, LibGoes
<1>5. CASE good' = good /\ _next_sequence(Lib, "send_abort", [c EXCEPT !.second = TRUE])
  <2> DEFINE d == [c EXCEPT !.second = TRUE]
  <2>1. d \in Calls /\ d.op = c.op /\ d.val = c.val /\ d.rev = c.rev
    BY <1>3 DEF Calls
  <2> HIDE DEF d
  <2>2. "send_abort" \in Sends /\ "send_abort" \in LibPcs
    BY DEF Sends, LibPcs
  <2>3. _next_sequence(Lib, "send_abort", d)
    BY <1>5 DEF d
  <2>4. QED
    BY <1>1, <1>3, <1>5, <2>1, <2>2, <2>3, FollowKeeps
<1>6. CASE good' = good /\ seqn' = seqn /\ Goto(Lib, "raise")
  BY <1>1, <1>3, <1>6, LibGoes
<1>7. QED
  BY <1>2, <1>4, <1>5, <1>6

\* STATUS was answered: the handshake is complete, or the board has stopped, or
\* it is asked again.
LEMMA WaitIdleKeeps ==
  ASSUME IInv, _wait_for_playback_idle
  PROVE  IInv'
<1>1. /\ th[Lib].pc = "polled"
      /\ UNCHANGED <<web, hw, play, net, ans, stored, lock, pend, conn, alone, overlap, calls, faults>>
      /\ good' = good
      /\ \/ Goto(Lib, "end") /\ seqn' = seqn
         \/ th[Lib].c.op = "set" /\ _next_sequence(Lib, "send_apply", th[Lib].c)
         \/ (Goto(Lib, "poll") \/ Goto(Lib, "raise")) /\ seqn' = seqn
  BY DEF _wait_for_playback_idle, At
<1>2. ~web /\ th[Lib].c \in Calls /\ conn \in BOOLEAN /\ good = {}
  BY <1>1, LibFacts
<1>3. "send_apply" \in Sends /\ "send_apply" \in LibPcs
  BY DEF Sends, LibPcs
<1>4. CASE th[Lib].c.op = "set" /\ _next_sequence(Lib, "send_apply", th[Lib].c)
  BY <1>1, <1>2, <1>3, <1>4, FollowKeeps
<1>5. CASE (Goto(Lib, "end") \/ Goto(Lib, "poll") \/ Goto(Lib, "raise")) /\ seqn' = seqn
  <2>1. PICK pc \in {"end", "poll", "raise"} : Goto(Lib, pc)
    BY <1>5
  <2>2. QED
    BY <1>1, <1>2, <1>5, <2>1, LibGoes
<1>6. QED
  BY <1>1, <1>4, <1>5

\* The call raises, or the handshake starts again.
LEMMA RaiseKeeps ==
  ASSUME IInv, raise
  PROVE  IInv'
<1> DEFINE c == [th[Lib].c EXCEPT !.second = TRUE]
<1>1. /\ ~web /\ th[Lib].pc = "raise"
      /\ UNCHANGED <<web, hw, play, net, ans, stored, lock, pend, alone, overlap, good, calls, faults>>
      /\ \/ conn' = FALSE /\ _next_sequence(Lib, "send_hello", c)
         \/ conn' = (conn /\ th[Lib].c.op # "connect") /\ Goto(Lib, "end") /\ seqn' = seqn
  BY DEF raise, At
<1>2. th[Lib].c \in Calls /\ conn \in BOOLEAN /\ good = {}
  BY <1>1, LibFacts
<1>3. /\ c \in Calls /\ c.op = th[Lib].c.op /\ c.val = th[Lib].c.val
      /\ c.rev = th[Lib].c.rev
  BY <1>2 DEF Calls
<1> HIDE DEF c
<1>4. "send_hello" \in Sends /\ "send_hello" \in LibPcs
  BY DEF Sends, LibPcs
<1>5. CASE conn' = FALSE /\ _next_sequence(Lib, "send_hello", c)
  BY <1>1, <1>3, <1>4, <1>5, FollowKeeps
<1>6. CASE conn' = (conn /\ th[Lib].c.op # "connect") /\ Goto(Lib, "end") /\ seqn' = seqn
  BY <1>1, <1>2, <1>6, LibGoes
<1>7. QED
  BY <1>1, <1>5, <1>6

-----------------------------------------------------------------------------
(* The theorems.                                                            *)
\* At power-up nothing is known and nothing is under way.
LEMMA InitIInv ==
  ASSUME Init
  PROVE  IInv
<1> USE DEF Init
<1>1. /\ PowerUp \in Board /\ PowerUp.rev = 0 /\ PowerUp.valid = {} /\ PowerUp.val \in [Channels -> Values]
      /\ PowerUp.cached.seq = 0 /\ PowerUp.cached.rev = 0
  <2>1. NotCached \in Caches /\ NotCached.seq = 0 /\ NotCached.rev = 0
    BY DEF NotCached, Caches
  <2>2. QED
    BY <2>1, V0Assumption DEF PowerUp, Board
<1>2. net = <<>> /\ Elems(net) = {} /\ Sorted(net) /\ net \in Seq(Packets)
  BY EmptyFacts
<1>3. ans \in [Threads -> Seq(Replies)] /\ \A x \in Threads : Elems(ans[x]) = {}
  <2>1. <<>> \in Seq(Replies) /\ Elems(<<>>) = {}
    BY EmptyFacts
  <2>2. QED
    BY <2>1
<1>4. th \in [Threads -> ThreadRec] /\ \A x \in Threads : th[x] = NoThread
  BY NoThreadFacts
<1>5. stored \in Store /\ stored.rev = 0 /\ stored.status = "unknown"
  BY <1>1 DEF Store, Actuals, NoActual
<1>6. MaxCalls \in Nat /\ 0 \in 0..MaxCalls /\ 0 \in 0..MaxSeq /\ 0 \in 0..MaxFaults
  BY BoundsAssumption DEF MaxCalls
<1>7. TypeInv
  BY <1>1, <1>2, <1>3, <1>4, <1>5, <1>6 DEF TypeInv
<1>8. PacketInv
  BY <1>2 DEF PacketInv
<1>9. \A x \in Threads : th[x].pc = "end" /\ th[x].pc \notin Current /\ th[x].pc \notin Holds /\ th[x].c = NoCall
  BY <1>4, NoThreadFacts, PcFacts
<1>10. \A x \in Threads : ~Live(th[x], seqn)
  BY <1>9 DEF Live
<1>11. PlaceInv
  <2>1. 0 \in Nat
    OBVIOUS
  <2>2. QED
    BY <1>4, <1>10, <2>1, NoThreadFacts DEF PlaceInv
<1>12. AnswerInv
  BY <1>3, <1>10 DEF AnswerInv
<1>13. CacheInv
  BY <1>1, <1>10 DEF CacheInv
<1>14. KnownInv
  BY <1>1, <1>2, <1>3, <1>5, <1>9, NoThreadFacts DEF KnownInv
<1>15. Lib \in Threads /\ \A x \in Web : x \in Threads
  BY DEF Threads
<1>16. SyncInv /\ GoodInv
  BY <1>5, <1>9, <1>15, NoThreadFacts DEF SyncInv, GoodInv, Active
<1>17. QED
  BY <1>7, <1>8, <1>11, <1>12, <1>13, <1>14, <1>16 DEF IInv

\* Every step keeps the invariant.
LEMMA StepIInv ==
  ASSUME IInv, [Next]_vars
  PROVE  IInv'
<1>1. CASE UNCHANGED vars
  <2>1. UNCHANGED <<web, hw, play, net, ans, th, stored, lock, seqn, pend, conn, alone, overlap, good, calls, faults>>
    BY <1>1 DEF vars
  <2>2. TypeInv' /\ PlaceInv' /\ PacketInv'
    BY <2>1 DEF IInv, TypeInv, PlaceInv, PacketInv, MaxCalls
  <2>3. AnswerInv' /\ CacheInv' /\ KnownInv'
    BY <2>1 DEF IInv, AnswerInv, CacheInv, KnownInv
  <2>4. SyncInv' /\ GoodInv'
    BY <2>1 DEF IInv, SyncInv, InSync, Active, GoodInv, Quiet, Repeated
  <2>5. QED
    BY <2>2, <2>3, <2>4 DEF IInv
<1>2. CASE board \/ playback
  BY <1>2, BoardKeeps, PlaybackKeeps
<1>3. ASSUME NEW x \in Threads, send(x) \/ receive_rfresp2(x) \/ timeout(x)
      PROVE  IInv'
  BY <1>3, SendKeeps, ReceiveKeeps, TimeoutKeeps
<1>4. ASSUME NEW x \in Web,
             \/ \E val \in Requests, mask \in SUBSET Channels \ {{}} :
                  \E actual \in {NoActual, stored.actual} : apply(x, val, mask, actual)
             \/ get(x) \/ pending(x) \/ rfdc_apply(x) \/ rfdc_get_config(x)
             \/ finish_apply(x) \/ finish_get(x) \/ failed(x)
      PROVE  IInv'
  BY <1>4, ApplyKeeps, GetKeeps, PendingKeeps, LockKeeps, FinishApplyKeeps, FinishGetKeeps, FailedKeeps
<1>5. CASE connect \/ hello \/ commit \/ _apply_pending \/ poll \/ _wait_for_playback_idle \/ raise
  BY <1>5, ConnectKeeps, HelloKeeps, CommitKeeps, ApplyPendingKeeps, PollKeeps, WaitIdleKeeps, RaiseKeeps
<1>6. ASSUME NEW d \in Channels, NEW v \in Values, NEW batch \in BOOLEAN, set_xy_nco_frequency(d, v, batch)
      PROVE  IInv'
  BY <1>6, SetKeeps
<1>7. QED
  BY <1>1, <1>2, <1>3, <1>4, <1>5, <1>6 DEF Next

\* The inductive invariant holds in every reachable state.
THEOREM InvariantHolds == Spec => []IInv
<1>1. Init => IInv
  BY InitIInv
<1>2. IInv /\ [Next]_vars => IInv'
  BY StepIInv
<1>3. QED
  BY <1>1, <1>2, PTL DEF Spec

\* Every reachable state is well typed (apply, set_* and the packets of
\* RFCTRL2 carry settings of channels and a revision that a call has used).
THEOREM TypeSafe == Spec => []TypeOK
<1>1. IInv => TypeOK
  <2>1. SUFFICES ASSUME IInv
                 PROVE  TypeOK
    OBVIOUS
  <2>2. TypeInv /\ PlaceInv /\ KnownInv /\ CacheInv
    BY <2>1 DEF IInv
  <2>3. hw.rev \in 0..MaxCalls /\ stored.rev \in 0..MaxCalls /\ hw.cached \in Cache
    <3>1. /\ MaxCalls \in Nat /\ calls \in 0..MaxCalls /\ hw.rev \in Nat /\ stored.rev \in Nat
          /\ MaxSeq \in Nat /\ seqn \in 0..MaxSeq /\ hw.cached \in Caches
      BY <2>2, BoundsAssumption DEF TypeInv, Board, Store, MaxCalls
    <3>2. hw.rev <= calls /\ hw.cached.rev <= calls /\ stored.rev <= calls /\ hw.cached.seq <= seqn
      BY <2>2 DEF KnownInv, CacheInv
    <3>3. QED
      BY <3>1, <3>2 DEF Caches, Cache
  <2>4. hw \in Settings
    BY <2>2, <2>3 DEF TypeInv, Board, Settings
  <2>5. stored \in [val : [Channels -> Values], actual : [Channels -> Values \cup {None}],
                    valid : SUBSET Channels, rev : 0..MaxCalls,
                    status : {"unknown", "pending", "applied", "failed"}]
    BY <2>2, <2>3 DEF TypeInv, Store, Actuals
  <2>6. \A x \in Threads : th[x].att \in 0..(RETRIES + 1)
    BY <2>2, RetriesAssumption DEF TypeInv, ThreadRec, PlaceInv, PlaceOK
  <2>7. QED
    BY <2>2, <2>4, <2>5, <2>6 DEF TypeInv, TypeOK
<1>2. QED
  BY <1>1, InvariantHolds, PTL

\* Calls that do not overlap keep the store true: what it calls applied is what
\* the board has, whatever was lost, answered late or failed half way, and one
\* call that overlaps no other makes it true again (RfdcService over
\* BoardGateway.rfdc_apply and rfdc_get_config).
THEOREM StoreSafe == Spec => []StoreIsTrue
<1>1. IInv => StoreIsTrue
  BY DEF IInv, SyncInv, InSync, StoreIsTrue, Settled
<1>2. QED
  BY <1>1, InvariantHolds, PTL

\* A library call that returns has set the converters: no late answer was taken
\* for its own, and no late packet undoes it (_apply_pending of Dr47Device).
THEOREM ReturnSafe == Spec => []ReturnMeansApplied
<1>1. IInv => ReturnMeansApplied
  BY DEF IInv, GoodInv, ReturnMeansApplied
<1>2. QED
  BY <1>1, InvariantHolds, PTL
=============================================================================
