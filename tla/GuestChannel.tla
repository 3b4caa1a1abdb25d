----------------------------- MODULE GuestChannel -----------------------------
(***************************************************************************)
(* The Room command channel between DevHotel and its private Linux runtime. *)
(* The Host opens one connection when it needs it and shares it between all *)
(* requests; the agent in the guest runs every request in a thread of its   *)
(* own.  Each side writes frames that carry the id of the request.          *)
(*   lines    the connections that were opened, and whether they still live *)
(*   dial     the connection that the engine remembers, 0 for none          *)
(*   asks     what the Host knows of each request                           *)
(*   outbound, inbound   the frames under way, per connection               *)
(*   threads  what the agent does for each request; sink = where the bytes  *)
(*            go that the Host sends, input = those that got there          *)
(*   damage   lost connections and failing files so far                     *)
(***************************************************************************)
EXTENDS Naturals, Sequences

CONSTANTS
    Requests,
    Size,           \* bound: frames that each request sends, and that answer it
    MaxLines,       \* bound: connections
    MaxDamage       \* bound: lost connections and failing files

VARIABLES lines, dial, asks, outbound, inbound, threads, damage

vars == <<lines, dial, asks, outbound, inbound, threads, damage>>

\* An exec without and with input, and the two halves of a file transfer.
Kinds == {"run", "pipe", "put", "get"}
Feeds(q) == asks[q].kind \in {"pipe", "put"}
HasOutput(q) == asks[q].kind # "put"
Settled == {"ok", "limit", "error"}

Frame(type, q, n) == [type |-> type, of |-> q, n |-> n]

TypeOK ==
    /\ lines \in [1..MaxLines -> {"none", "opening", "up", "lost"}] /\ dial \in 0..MaxLines
    /\ \A q \in Requests :
         /\ asks[q].at \in {"idle", "waiting", "open", "aborting"} \cup Settled
         /\ asks[q].kind \in Kinds /\ asks[q].cap \in {1, 9} /\ asks[q].line \in 0..MaxLines
         /\ asks[q].sent \in 0..Size[q] + 1 /\ asks[q].got \in Seq(1..Size[q])
         /\ threads[q].at \in {"none", "spawned", "live", "ended", "killed", "over"}
         /\ threads[q].sink \in {"none", "open", "shut"} /\ threads[q].input \in Seq(1..Size[q])
         /\ threads[q].made \in 0..Size[q] /\ threads[q].pumped \in 0..Size[q]
         /\ threads[q].cancelled \in BOOLEAN /\ threads[q].stored \in BOOLEAN
    /\ damage \in 0..MaxDamage

Init ==
    /\ lines = [c \in 1..MaxLines |-> "none"] /\ dial = 0
    /\ asks \in [Requests -> {[at |-> "idle", kind |-> k, cap |-> l, line |-> 0, sent |-> 0, got |-> <<>>] :
                                k \in Kinds, l \in {1, 9}}]
    /\ \A q \in Requests : asks[q].cap = 1 => asks[q].kind = "run"
    /\ outbound = [c \in 1..MaxLines |-> <<>>] /\ inbound = [c \in 1..MaxLines |-> <<>>]
    /\ threads = [q \in Requests |-> [at |-> "none", sink |-> "none", input |-> <<>>, made |-> 0,
                                      pumped |-> 0, cancelled |-> FALSE, stored |-> FALSE]]
    /\ damage = 0

----------------------------------------------------------------------------
\* The Host: ManagedRuntimeEngine and its connection.

Send(c, frame) == outbound' = [outbound EXCEPT ![c] = Append(@, frame)]

\* connected(): a connection that lives is used again, one that failed is
\* replaced; a request that finds one being opened waits for it.
Ask(q) ==
    /\ asks[q].at \in {"idle", "waiting"}
    /\ IF dial # 0 /\ lines[dial] \in {"opening", "up"}
       THEN UNCHANGED <<lines, dial>>
       ELSE \E c \in 1..MaxLines :
              /\ lines[c] = "none" /\ \A b \in 1..c - 1 : lines[b] # "none"
              /\ lines' = [lines EXCEPT ![c] = "opening"] /\ dial' = c
    /\ asks' = [asks EXCEPT ![q] = [@ EXCEPT !.at = "waiting", !.line = dial']]
    /\ asks' # asks
    /\ UNCHANGED <<outbound, inbound, threads, damage>>

\* The hello with this boot's token is answered.
Open(c) ==
    /\ lines[c] = "opening"
    /\ lines' = [lines EXCEPT ![c] = "up"]
    /\ UNCHANGED <<dial, asks, outbound, inbound, threads, damage>>

\* It is not: every request that asked for this connection is told.
Refuse(c) ==
    /\ lines[c] = "opening" /\ damage < MaxDamage /\ damage' = damage + 1
    /\ lines' = [lines EXCEPT ![c] = "lost"] /\ dial' = IF dial = c THEN 0 ELSE dial
    /\ asks' = [q \in Requests |-> IF asks[q].at = "waiting" /\ asks[q].line = c
                                   THEN [asks[q] EXCEPT !.at = "error"] ELSE asks[q]]
    /\ UNCHANGED <<outbound, inbound, threads>>

\* request(): it becomes pending before its frame is written.
Request(q) ==
    /\ asks[q].at = "waiting" /\ lines[asks[q].line] = "up"
    /\ asks' = [asks EXCEPT ![q].at = "open"]
    /\ Send(asks[q].line, Frame("request", q, 0))
    /\ UNCHANGED <<lines, dial, inbound, threads, damage>>

\* The input goes out in order, while the request is not settled; then its end.
Feed(q) ==
    /\ asks[q].at \in {"open", "aborting"} /\ Feeds(q) /\ asks[q].sent <= Size[q]
    /\ asks' = [asks EXCEPT ![q].sent = @ + 1]
    /\ Send(asks[q].line, IF asks[q].sent < Size[q] THEN Frame("stdin", q, asks[q].sent + 1)
                          ELSE Frame("end", q, 0))
    /\ UNCHANGED <<lines, dial, inbound, threads, damage>>

\* A deadline, an abort or an unreadable input: the request is not pending any
\* more, the agent is told, and the caller once its own cleanup has ended.
\* Transfers have no deadline; a put ends so only when its file cannot be read.
Cancel(q) ==
    /\ asks[q].at = "open"
    /\ \/ asks[q].kind \in {"run", "pipe"} /\ UNCHANGED damage
       \/ asks[q].kind = "put" /\ asks[q].sent <= Size[q] /\ damage < MaxDamage /\ damage' = damage + 1
    /\ \E cleanup \in BOOLEAN :
         asks' = [asks EXCEPT ![q].at = IF cleanup THEN "aborting" ELSE "error"]
    /\ Send(asks[q].line, Frame("cancel", q, 0))
    /\ UNCHANGED <<lines, dial, inbound, threads>>

Cleaned(q) ==
    /\ asks[q].at = "aborting" /\ asks' = [asks EXCEPT ![q].at = "error"]
    /\ UNCHANGED <<lines, dial, outbound, inbound, threads, damage>>

\* dispatch(): frames of requests that are not pending are dropped.  Output
\* beyond the caller's limit is not kept, and the answer says so.
Told(ask, frame) ==
    CASE frame.type = "stdout" ->
           IF Len(ask.got) < ask.cap THEN [ask EXCEPT !.got = Append(@, frame.n)]
           ELSE ask
      [] frame.type = "result" -> [ask EXCEPT !.at = IF frame.n > ask.cap THEN "limit" ELSE "ok"]
      [] OTHER -> [ask EXCEPT !.at = "error"]

Dispatch(c) ==
    /\ lines[c] = "up" /\ inbound[c] # <<>>
    /\ LET frame == Head(inbound[c])
       IN asks' = IF asks[frame.of].at = "open"
                  THEN [asks EXCEPT ![frame.of] = Told(@, frame)] ELSE asks
    /\ inbound' = [inbound EXCEPT ![c] = Tail(@)]
    /\ UNCHANGED <<lines, dial, outbound, threads, damage>>

\* The connection drops, or a frame cannot be read: whatever is pending fails.
Lose(c) ==
    /\ lines[c] = "up" /\ damage < MaxDamage /\ damage' = damage + 1
    /\ lines' = [lines EXCEPT ![c] = "lost"]
    /\ asks' = [q \in Requests |-> IF asks[q].at = "open" /\ asks[q].line = c
                                   THEN [asks[q] EXCEPT !.at = "error"] ELSE asks[q]]
    /\ outbound' = [outbound EXCEPT ![c] = <<>>] /\ inbound' = [inbound EXCEPT ![c] = <<>>]
    /\ UNCHANGED <<dial, threads>>

----------------------------------------------------------------------------
\* The guest: Connection and its threads.

Thread(q, change) == threads' = [threads EXCEPT ![q] = change]

\* Frames to the Host; they go nowhere when the connection is lost.
Answer(q, frame) ==
    inbound' = IF lines[asks[q].line] = "up"
               THEN [inbound EXCEPT ![asks[q].line] = Append(@, frame)] ELSE inbound

\* handle(): input for a request without a sink is dropped, and so is its end;
\* a cancelled request is killed when its process is known.
Handled(thread, frame) ==
    CASE frame.type = "request" -> [thread EXCEPT !.at = "spawned"]
      [] frame.type = "stdin" /\ thread.sink = "open" -> [thread EXCEPT !.input = Append(@, frame.n)]
      [] frame.type = "end" /\ thread.sink = "open" -> [thread EXCEPT !.sink = "shut"]
      [] OTHER -> thread

Cancelled(q, thread) ==
    [thread EXCEPT !.cancelled = TRUE,
                   !.at = IF @ = "live" /\ asks[q].kind \in {"run", "pipe"} THEN "killed" ELSE @]

Handle(c) ==
    /\ lines[c] = "up" /\ outbound[c] # <<>>
    /\ LET frame == Head(outbound[c]) IN
         Thread(frame.of, IF frame.type = "cancel" THEN Cancelled(frame.of, threads[frame.of])
                          ELSE Handled(threads[frame.of], frame))
    /\ outbound' = [outbound EXCEPT ![c] = Tail(@)]
    /\ UNCHANGED <<lines, dial, asks, inbound, damage>>

\* The thread opens its process or file and then names its sink.
Register(q) ==
    /\ threads[q].at = "spawned"
    /\ Thread(q, [threads[q] EXCEPT !.at = "live", !.sink = IF Feeds(q) THEN "open" ELSE @])
    /\ UNCHANGED <<lines, dial, asks, outbound, inbound, damage>>

\* The process does not start, the path cannot be opened or written.
Fault(q) ==
    /\ damage < MaxDamage /\ damage' = damage + 1
    /\ threads[q].at = "spawned" \/ (threads[q].at = "live" /\ asks[q].kind \in {"put", "get"})
    /\ Thread(q, [threads[q] EXCEPT !.at = "over", !.sink = "none"])
    /\ Answer(q, Frame("error", q, 0))
    /\ UNCHANGED <<lines, dial, asks, outbound>>

\* The process writes output, and ends of its own accord, with input once it was read.
Produce(q) ==
    /\ threads[q].at = "live" /\ HasOutput(q) /\ threads[q].made < Size[q]
    /\ Thread(q, [threads[q] EXCEPT !.made = @ + 1])
    /\ UNCHANGED <<lines, dial, asks, outbound, inbound, damage>>

Exit(q) ==
    /\ threads[q].at = "live" /\ asks[q].kind \in {"run", "pipe"}
    /\ asks[q].kind = "pipe" => threads[q].sink = "shut"
    /\ Thread(q, [threads[q] EXCEPT !.at = "ended"])
    /\ UNCHANGED <<lines, dial, asks, outbound, inbound, damage>>

Pump(q) ==
    /\ threads[q].at \in {"live", "ended", "killed"} /\ threads[q].pumped < threads[q].made
    /\ Thread(q, [threads[q] EXCEPT !.pumped = @ + 1])
    /\ Answer(q, Frame("stdout", q, threads[q].pumped + 1))
    /\ UNCHANGED <<lines, dial, asks, outbound, damage>>

\* A plausible mistake: the code is sent without joining the pumps.
MutantReport(q) ==
    /\ threads[q].at \in {"ended", "killed"}
    /\ Thread(q, [threads[q] EXCEPT !.at = "over", !.sink = "none", !.cancelled = FALSE])
    /\ IF threads[q].cancelled THEN UNCHANGED inbound
       ELSE Answer(q, Frame("result", q, threads[q].made))
    /\ UNCHANGED <<lines, dial, asks, outbound, damage>>

\* The result follows the last output; a cancelled request gives none.
Report(q) ==
    /\ threads[q].at \in {"ended", "killed"} /\ threads[q].pumped = threads[q].made
    /\ Thread(q, [threads[q] EXCEPT !.at = "over", !.sink = "none", !.cancelled = FALSE])
    /\ IF threads[q].cancelled THEN UNCHANGED inbound
       ELSE Answer(q, Frame("result", q, threads[q].made))
    /\ UNCHANGED <<lines, dial, asks, outbound, damage>>

\* put_request: at the end of the input the file takes its place, in one step.
Store(q) ==
    /\ threads[q].at = "live" /\ asks[q].kind = "put" /\ threads[q].sink = "shut"
    /\ Thread(q, [threads[q] EXCEPT !.at = "over", !.stored = TRUE])
    /\ Answer(q, Frame("result", q, 0))
    /\ UNCHANGED <<lines, dial, asks, outbound, damage>>

\* get_request: the file is read to its end, then the result.
Deliver(q) ==
    /\ threads[q].at = "live" /\ asks[q].kind = "get"
    /\ threads[q].made = Size[q] /\ threads[q].pumped = Size[q]
    /\ Thread(q, [threads[q] EXCEPT !.at = "over"])
    /\ Answer(q, Frame("result", q, Size[q]))
    /\ UNCHANGED <<lines, dial, asks, outbound, damage>>

Host(q) == Ask(q) \/ Request(q) \/ Feed(q) \/ Cancel(q) \/ Cleaned(q)
Agent(q) == Register(q) \/ Produce(q) \/ Exit(q) \/ Pump(q) \/ Report(q) \/ Store(q) \/ Deliver(q)
Wire(c) == Open(c) \/ Handle(c) \/ Dispatch(c)

Next ==
    \/ \E q \in Requests : Host(q) \/ Agent(q) \/ Fault(q)
    \/ \E c \in 1..MaxLines : Wire(c) \/ Refuse(c) \/ Lose(c)

Spec == Init /\ [][Next]_vars

----------------------------------------------------------------------------
Counted(n) == [i \in 1..n |-> i]

\* A request that ends with a result has the whole output, in order, and nothing
\* of another one; cut off only where its caller set a limit, and then it says so.
OutputIsWhole ==
    \A q \in Requests :
        /\ asks[q].at = "ok" => asks[q].got = Counted(threads[q].made)
        /\ asks[q].at = "limit" => Len(asks[q].got) = asks[q].cap /\ threads[q].made > asks[q].cap

\* What reaches a process or a file has no gap and nothing twice, and when its
\* end was seen it reaches to the last byte: only a beginning can be missing.
InputHasNoGap ==
    \A q \in Requests :
        LET input == threads[q].input
        IN /\ \A i \in 1..Len(input) - 1 : input[i + 1] = input[i] + 1
           /\ (threads[q].sink = "shut" /\ input # <<>>) => input[Len(input)] = Size[q]

\* Nobody waits for a connection that is gone.
LostIsTold == \A q \in Requests : asks[q].at = "open" => lines[asks[q].line] = "up"

\* A request that was given up never ends with a result.
GivenUpStays == \A q \in Requests : asks[q].at \in Settled \cup {"aborting"} =>
                    asks'[q].at \in {asks[q].at, "error"}

\* "Write bytes the Host sends into a guest path, replacing it atomically"
\* (managedRuntimeGuestProtocol.ts:139): a put that is answered stored them all.
PutIsWhole ==
    \A q \in Requests : asks[q].kind = "put" /\ asks[q].at = "ok" => threads[q].input = Counted(Size[q])
=============================================================================
