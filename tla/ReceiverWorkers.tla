-------------------------- MODULE ReceiverWorkers --------------------------
(***************************************************************************)
(* The receiver workers of backend/src/bin/websad/receiver_workers.rs: two *)
(* realtime threads demodulate the IQ of up to three channel slots, a      *)
(* third one decodes FT8 jobs for them, and the owner submits, polls,      *)
(* drains, reconfigures and ends sessions.  Nothing blocks on a channel: a *)
(* full one is a failure that stops all threads.                           *)
(*                                                                         *)
(* Every slot has a generation; the owner retires work, results and        *)
(* searches by bumping it.  A stream is named by its fine channel identity *)
(* id, which is new whenever the source restarts the slot at sequence 0.   *)
(* The drains' 120 s and the acknowledgements' 5 s never run out here.     *)
(***************************************************************************)
EXTENDS Selection

CONSTANTS
  Slots,       \* channel slots, counted from 0
  WORKERS,     \* realtime threads; slot s belongs to thread s % WORKERS
  InputCap, ResultCap, SearchCap,
  MaxSubmit,   \* bound: packets submitted
  MaxChanges,  \* bound: configurations, restarts of a slot, sessions, pages
  MaxCalls,    \* bound: packets submitted and changes together
  MaxJobs      \* bound: FT8 jobs

ASSUME ReceiverAssumption ==
  /\ Slots \in SUBSET Nat /\ Slots # {} /\ WORKERS \in Nat \ {0}
  /\ InputCap \in Nat \ {0} /\ ResultCap \in Nat \ {0} /\ SearchCap \in Nat \ {0}
  /\ MaxSubmit \in Nat /\ MaxChanges \in Nat /\ MaxCalls \in Nat /\ MaxJobs \in Nat

VARIABLES
  \* the owner
  call,      \* idle, retire, finish, clear, ack, failed, stopped, drop, gone
  after,     \* what a finish or an acknowledgement is followed by
  target,    \* the slot a call is about
  enabled, deferred, acked,
  \* shared
  generations, stopping, failure,
  inputs, outputs, jobs,
  \* the realtime threads
  at,        \* recv, work, out, leaving, gone
  work,      \* the work in hand
  made,      \* the output made of it
  states,    \* per slot, the ChannelState
  \* the search thread
  searcher,  \* recv, decode, leaving, gone
  job,
  \* the source of IQ: the next packet of every slot
  source,
  \* history, of the current generation of every slot
  sent,      \* packets the input queues accepted
  got,       \* outputs the caller was given
  \* bounds
  submits, changes, decodes

owner  == <<call, after, target, enabled, deferred, acked>>
shared == <<generations, stopping, failure>>
queues == <<inputs, outputs, jobs>>
thread == <<at, work, made, states>>
search == <<searcher, job>>
past   == <<source, sent, got>>
bounds == <<submits, changes, decodes>>
vars   == <<owner, shared, queues, thread, search, past, bounds>>

Threads == {s % WORKERS : s \in Slots}
Record == [kind : {"none", "iq", "search", "finish", "deactivate"},
           slot : Nat, gen : Nat, id : Nat, seq : Nat]
Outcome == [of : Record, as : Nat]
ChannelState == [gen : Nat, id : Nat, next : Nat]
Position == [id : Nat, seq : Nat]
None == [kind |-> "none", slot |-> 0, gen |-> 0, id |-> 0, seq |-> 0]
Item(kind, s, g, id, seq) ==
  [kind |-> kind, slot |-> s, gen |-> g, id |-> id, seq |-> seq]
NoState == [gen |-> 0, id |-> 0, next |-> 0]
NoOutput == [of |-> None, as |-> 0]

Current(s, g) == ~stopping /\ generations[s] = g
Valid(os) == Among(os, {o \in Outcome : Current(o.of.slot, o.of.gen)})

(* The guard of a Pending lives as long as its work: in a queue, in a      *)
(* thread's hands and until its output is queued.                          *)
Guarded == {"work", "out"}
Pending == \/ \E t \in Threads : inputs[t] # <<>> \/ at[t] \in Guarded
           \/ jobs # <<>> \/ searcher = "decode"

(* poll gives what was deferred first, each if it is still current.  The   *)
(* faults give the deferred outputs unchecked, and last.                   *)
Unchecked(ds) == ds
Checked(ds) == Valid(ds)
DeferredLast(ds, os) == os \o ds
DeferredFirst(ds, os) == ds \o os

(* A channel state is replaced when the generation or the identity is new. *)
(* The fault looks only at the generation.                                 *)
OldGeneration(state, p) == state = NoState \/ state.gen # p.gen
NeedsReset(state, p) == state = NoState \/ state.gen # p.gen \/ state.id # p.id

(* An FT8 answer is accepted by the stream that asked.  The fault looks    *)
(* only at the generation.                                                 *)
AskedInGeneration(state, r) == state.gen = r.gen
Asked(state, r) == state.gen = r.gen /\ state.id = r.id

(* The generation a deactivation carries is the one after the bump.  The   *)
(* fault reads it before.                                                  *)
BeforeBump(s) == generations[s] - 1
AfterBump(s) == generations[s]

(* The result queue has room.                                              *)
ResultRoom == Len(outputs) < ResultCap

(* Every thread leaves its loop when it sees stopping.  The fault waits    *)
(* for its channel to hang up, but the threads hold each other's senders.  *)
OnHangUp == searcher = "gone" /\ \A t \in Threads : at[t] = "gone"
OnStopping == stopping

Init ==
  /\ call = "idle" /\ after = "return" /\ target = 0
  /\ enabled = [s \in Slots |-> TRUE] /\ deferred = <<>> /\ acked = FALSE
  /\ generations = [s \in Slots |-> 1] /\ stopping = FALSE /\ failure = "none"
  /\ inputs = [t \in Threads |-> <<>>] /\ outputs = <<>> /\ jobs = <<>>
  /\ at = [t \in Threads |-> "recv"] /\ work = [t \in Threads |-> None]
  /\ made = [t \in Threads |-> NoOutput] /\ states = [s \in Slots |-> NoState]
  /\ searcher = "recv" /\ job = None
  /\ source = [s \in Slots |-> [id |-> 1, seq |-> 0]]
  /\ sent = [s \in Slots |-> <<>>] /\ got = [s \in Slots |-> <<>>]
  /\ submits = 0 /\ changes = 0 /\ decodes = 0

Fail(why) ==
  /\ failure' = IF failure = "none" THEN why ELSE failure
  /\ stopping' = TRUE

First == CHOOSE s \in Slots : \A r \in Slots : s <= r
NextSlot(s) == CHOOSE r \in Slots : r > s /\ \A q \in Slots : q > s => r <= q
IsLast(s) == \A r \in Slots : r <= s

CanSend(t) == at[t] # "gone" /\ Len(inputs[t]) < InputCap
SendTo(t, w) == inputs' = [inputs EXCEPT ![t] = Append(@, w)]

-----------------------------------------------------------------------------
(* A realtime thread: run_realtime.  It looks at stopping before every     *)
(* receive; one that is receiving may have looked before it was set, one   *)
(* that has done its work since leaves without another.                    *)

Leave(t) ==
  /\ at[t] \in {"recv", "leaving"} /\ OnStopping
  /\ at' = [at EXCEPT ![t] = "gone"] /\ inputs' = [inputs EXCEPT ![t] = <<>>]
  /\ UNCHANGED <<owner, shared, outputs, jobs, work, made, states, search, past,
                 bounds>>

Recv(t) ==
  /\ at[t] = "recv" /\ inputs[t] # <<>>
  /\ work' = [work EXCEPT ![t] = Head(inputs[t])]
  /\ inputs' = [inputs EXCEPT ![t] = Tail(@)]
  /\ at' = [at EXCEPT ![t] = "work"]
  /\ UNCHANGED <<owner, shared, outputs, jobs, made, states, search, past, bounds>>

LoopTop == IF stopping' THEN "leaving" ELSE "recv"
Done(t) == at' = [at EXCEPT ![t] = LoopTop] /\ work' = [work EXCEPT ![t] = None]
Makes(t, output) ==
  made' = [made EXCEPT ![t] = output] /\ at' = [at EXCEPT ![t] = "out"]

(* process_packet.  The state a packet needs is checked against the        *)
(* contract of the source; a decoder may fail on any packet.               *)
ProcessPacket(t) ==
  LET p == work[t]
      old == states[p.slot]
      reset == NeedsReset(old, p)
      state == IF reset THEN [gen |-> p.gen, id |-> p.id, next |-> 0] ELSE old
      broken == \/ reset /\ old # NoState /\ old.id = p.id
                \/ p.seq # state.next
  IN /\ at[t] = "work" /\ p.kind = "iq"
     /\ \/ /\ ~Current(p.slot, p.gen)
           /\ UNCHANGED <<made, states, failure, stopping, jobs, decodes>> /\ Done(t)
        \/ /\ Current(p.slot, p.gen)
           /\ \/ broken /\ Fail("contract")
              \/ Fail("fault")
           /\ Done(t) /\ UNCHANGED <<made, states, jobs, decodes>>
        \/ /\ Current(p.slot, p.gen) /\ ~broken
           /\ states' = [states EXCEPT ![p.slot] = [state EXCEPT !.next = @ + 1]]
           /\ \/ /\ Makes(t, [of |-> p, as |-> p.id])
                 /\ UNCHANGED <<work, failure, stopping, jobs, decodes>>
              \/ /\ p.seq > 0 /\ decodes < MaxJobs /\ decodes' = decodes + 1
                 /\ IF searcher # "gone" /\ Len(jobs) < SearchCap
                    THEN /\ jobs' = Append(jobs, [p EXCEPT !.kind = "search"])
                         /\ Makes(t, [of |-> p, as |-> p.id])
                         /\ UNCHANGED <<work, failure, stopping>>
                    ELSE /\ Fail("fault") /\ Done(t)
                         /\ UNCHANGED <<jobs, made>>
     /\ UNCHANGED <<owner, generations, inputs, outputs, search, past, submits,
                    changes>>

(* process_search, FinishRadiofax and Deactivate.                          *)
ProcessOther(t) ==
  LET w == work[t]
      state == states[w.slot]
      live == Current(w.slot, w.gen) /\ state # NoState
  IN /\ at[t] = "work" /\ w.kind # "iq"
     /\ UNCHANGED shared
     /\ \/ /\ w.kind = "search" /\ live /\ Asked(state, w)
           /\ Makes(t, [of |-> w, as |-> state.id]) /\ UNCHANGED <<work, states, acked>>
        \/ /\ w.kind = "finish" /\ live
           /\ Makes(t, [of |-> [w EXCEPT !.id = state.id], as |-> state.id])
           /\ UNCHANGED <<work, states, acked>>
        \/ /\ w.kind \in {"search", "finish"}
           /\ ~live \/ (w.kind = "search" /\ ~Asked(state, w))
           /\ Done(t) /\ UNCHANGED <<made, states, acked>>
        \/ /\ w.kind = "deactivate" /\ Done(t) /\ acked' = TRUE
           /\ states' = IF Current(w.slot, w.gen)
                        THEN [states EXCEPT ![w.slot] = NoState] ELSE states
           /\ UNCHANGED made
     /\ UNCHANGED <<call, after, target, enabled, deferred, queues, search, past,
                    bounds>>

Output(t) ==
  /\ at[t] = "out" /\ made' = [made EXCEPT ![t] = NoOutput]
  /\ IF ResultRoom
     THEN outputs' = Append(outputs, made[t]) /\ UNCHANGED <<failure, stopping>>
     ELSE Fail("fault") /\ UNCHANGED outputs
  /\ Done(t)
  /\ UNCHANGED <<owner, generations, inputs, jobs, states, search, past, bounds>>

Realtime(t) == Leave(t) \/ Recv(t) \/ ProcessPacket(t) \/ ProcessOther(t) \/ Output(t)

(* The search thread: run_search.  A job may become stale before and while *)
(* it is decoded.                                                          *)
SearchLeave ==
  /\ searcher \in {"recv", "leaving"} /\ OnStopping
  /\ searcher' = "gone" /\ jobs' = <<>>
  /\ UNCHANGED <<owner, shared, inputs, outputs, thread, job, past, bounds>>

SearchRecv ==
  /\ searcher = "recv" /\ jobs # <<>> /\ jobs' = Tail(jobs)
  /\ UNCHANGED shared
  /\ IF Current(Head(jobs).slot, Head(jobs).gen)
     THEN searcher' = "decode" /\ job' = Head(jobs)
     ELSE searcher' = LoopTop /\ UNCHANGED job
  /\ UNCHANGED <<owner, inputs, outputs, thread, past, bounds>>

SearchDone ==
  /\ searcher = "decode" /\ job' = None
  /\ IF ~Current(job.slot, job.gen) THEN UNCHANGED <<inputs, failure, stopping>>
     ELSE IF CanSend(job.slot % WORKERS)
     THEN SendTo(job.slot % WORKERS, job) /\ UNCHANGED <<failure, stopping>>
     ELSE Fail("fault") /\ UNCHANGED inputs
  /\ searcher' = LoopTop
  /\ UNCHANGED <<owner, generations, outputs, jobs, thread, past, bounds>>

Search == SearchLeave \/ SearchRecv \/ SearchDone

-----------------------------------------------------------------------------
(* The owner.  A call that finds the failure returns it, and the service   *)
(* then stops the workers for good.                                        *)

Return == call' = "idle" /\ after' = "return" /\ target' = 0

Give(os) ==
  got' = [s \in Slots |-> got[s] \o Among(os, {o \in Outcome : o.of.slot = s})]

Submit(s) ==
  LET p == Item("iq", s, generations[s], source[s].id, source[s].seq)
  IN /\ call = "idle" /\ failure = "none" /\ enabled[s]
     /\ submits < MaxSubmit /\ submits' = submits + 1
     /\ submits + changes < MaxCalls
     /\ source' = [source EXCEPT ![s].seq = @ + 1]
     /\ IF CanSend(s % WORKERS)
        THEN /\ SendTo(s % WORKERS, p) /\ sent' = [sent EXCEPT ![s] = Append(@, p)]
             /\ UNCHANGED <<call, failure, stopping>>
        ELSE Fail("fault") /\ call' = "failed" /\ UNCHANGED <<inputs, sent>>
     /\ UNCHANGED <<after, target, enabled, deferred, acked, generations, outputs,
                    jobs, thread, search, got, changes, decodes>>

TakeOutputs ==
  /\ Give(DeferredFirst(Checked(deferred), Valid(outputs)))
  /\ deferred' = <<>> /\ outputs' = <<>>

Poll ==
  /\ call = "idle"
  /\ outputs # <<>> \/ deferred # <<>> \/ failure # "none"
  /\ IF failure # "none" THEN call' = "failed" /\ UNCHANGED <<got, deferred, outputs>>
     ELSE TakeOutputs /\ UNCHANGED call
  /\ UNCHANGED <<after, target, enabled, acked, shared, inputs, jobs, thread,
                 search, source, sent, bounds>>

(* finish: poll until nothing is pending, and once more.                   *)
Finish(then, s) ==
  /\ call = "idle" /\ failure = "none"
  /\ call' = "finish" /\ after' = then /\ target' = s
  /\ changes' = changes + IF then = "page" THEN 1 ELSE 0
  /\ changes' <= MaxChanges /\ submits + changes' <= MaxCalls
  /\ UNCHANGED <<enabled, deferred, acked, shared, queues, thread, search, past,
                 submits, decodes>>

FinishPoll ==
  /\ call = "finish" /\ Pending /\ failure = "none"
  /\ outputs # <<>> \/ deferred # <<>>
  /\ TakeOutputs
  /\ UNCHANGED <<call, after, target, enabled, acked, shared, inputs, jobs,
                 thread, search, source, sent, bounds>>

FinishEnd ==
  /\ call = "finish" /\ ~Pending /\ failure = "none"
  /\ TakeOutputs
  /\ \/ after \in {"return", "end"} /\ Return
     \/ after = "page" /\ call' = "page" /\ UNCHANGED <<after, target>>
     \/ after = "session" /\ call' = "clear" /\ target' = First /\ UNCHANGED after
  /\ UNCHANGED <<enabled, acked, shared, inputs, jobs, thread, search, source,
                 sent, bounds>>

(* finish_radiofax, after its first drain.                                 *)
Page ==
  /\ call = "page" /\ after' = "return"
  /\ IF CanSend(target % WORKERS)
     THEN /\ SendTo(target % WORKERS, Item("finish", target, generations[target], 0, 0))
          /\ call' = "finish"
     ELSE call' = "failed" /\ UNCHANGED inputs
  /\ UNCHANGED <<target, enabled, deferred, acked, shared, outputs, jobs, thread,
                 search, past, bounds>>

(* The generations of some slots are bumped, and with them everything that *)
(* was sent is retired.                                                    *)
Bump(slots) ==
  /\ changes < MaxChanges /\ changes' = changes + 1
  /\ submits + changes < MaxCalls
  /\ generations' = [s \in Slots |-> generations[s] + IF s \in slots THEN 1 ELSE 0]
  /\ sent' = [s \in Slots |-> IF s \in slots THEN <<>> ELSE sent[s]]
  /\ got' = [s \in Slots |-> IF s \in slots THEN <<>> ELSE got[s]]
  /\ source' = [s \in Slots |-> IF s \in slots
                  THEN [id |-> source[s].id + 1, seq |-> 0] ELSE source[s]]

(* configure: a change of one slot that needs a new stream, or switches it *)
(* off or on.                                                              *)
Configure(s, on) ==
  /\ call = "idle" /\ failure = "none" /\ (on \/ enabled[s])
  /\ Bump({s}) /\ target' = s /\ call' = "retire"
  /\ after' = IF enabled[s] /\ ~on THEN "disable" ELSE "enable"
  /\ UNCHANGED <<enabled, deferred, acked, stopping, failure, queues, thread,
                 search, submits, decodes>>

(* retire_backlog keeps the current outputs of the other slots.            *)
Retire ==
  /\ call = "retire" /\ failure = "none" /\ (outputs # <<>> \/ ~Pending)
  /\ deferred' = deferred \o Valid(outputs) /\ outputs' = <<>>
  /\ IF Pending THEN UNCHANGED <<call, after, target, enabled>>
     ELSE IF after = "disable"
     THEN call' = "clear" /\ UNCHANGED <<after, target, enabled>>
     ELSE Return /\ enabled' = [enabled EXCEPT ![target] = TRUE]
  /\ UNCHANGED <<acked, shared, inputs, jobs, thread, search, past, bounds>>

Clear ==
  /\ call = "clear"
  /\ IF CanSend(target % WORKERS)
     THEN /\ SendTo(target % WORKERS,
                    Item("deactivate", target, AfterBump(target), 0, 0))
          /\ call' = "ack" /\ UNCHANGED <<failure, stopping>>
     ELSE /\ IF after = "disable" THEN Fail("fault") ELSE UNCHANGED <<failure, stopping>>
          /\ call' = "failed" /\ UNCHANGED inputs
  /\ UNCHANGED <<after, target, enabled, deferred, acked, generations, outputs,
                 jobs, thread, search, past, bounds>>

Ack ==
  /\ call = "ack" /\ acked' = FALSE
  /\ \/ /\ acked /\ after = "disable" /\ Return
        /\ enabled' = [enabled EXCEPT ![target] = FALSE]
     \/ /\ acked /\ after = "session" /\ ~IsLast(target)
        /\ call' = "clear" /\ target' = NextSlot(target) /\ UNCHANGED <<after, enabled>>
     \/ /\ acked /\ after = "session" /\ IsLast(target)
        /\ call' = "finish" /\ after' = "end" /\ UNCHANGED <<target, enabled>>
     \/ /\ ~acked /\ at[target % WORKERS] = "gone"
        /\ call' = "failed" /\ UNCHANGED <<after, target, enabled>>
  /\ UNCHANGED <<deferred, shared, queues, thread, search, past, bounds>>

(* reset_session.                                                          *)
ResetSession ==
  /\ call = "idle" /\ failure = "none" /\ Bump(Slots)
  /\ call' = "finish" /\ after' = "session"
  /\ UNCHANGED <<target, enabled, deferred, acked, stopping, failure, queues,
                 thread, search, submits, decodes>>

(* A recapture gives a slot a new identity without changing its settings.  *)
Recapture(s) ==
  /\ call = "idle" /\ failure = "none" /\ enabled[s] /\ source[s].seq > 0
  /\ changes < MaxChanges /\ changes' = changes + 1
  /\ submits + changes < MaxCalls
  /\ source' = [source EXCEPT ![s] = [id |-> @.id + 1, seq |-> 0]]
  /\ UNCHANGED <<owner, shared, queues, thread, search, sent, got, submits, decodes>>

Notice ==
  /\ call \in {"finish", "retire"} /\ failure # "none" /\ call' = "failed"
  /\ UNCHANGED <<after, target, enabled, deferred, acked, shared, queues, thread,
                 search, past, bounds>>

(* No call follows: the history and the bounds end here.                   *)
LastCall ==
  /\ source' = [s \in Slots |-> [id |-> 1, seq |-> 0]]
  /\ sent' = [s \in Slots |-> <<>>] /\ got' = [s \in Slots |-> <<>>]
  /\ submits' = 0 /\ changes' = 0 /\ decodes' = 0

StopFailed ==
  /\ call = "failed" /\ call' = "stopped" /\ stopping' = TRUE
  /\ generations' = [s \in Slots |-> generations[s] + 1]
  /\ LastCall
  /\ UNCHANGED <<after, target, enabled, deferred, acked, failure, queues, thread,
                 search>>

Drop ==
  /\ call = "idle" /\ call' = "drop" /\ stopping' = TRUE
  /\ LastCall
  /\ UNCHANGED <<after, target, enabled, deferred, acked, generations, failure,
                 queues, thread, search>>

(* The threads are joined, or seen finished after a failure.               *)
Joined ==
  /\ call \in {"stopped", "drop"} /\ searcher = "gone"
  /\ \A t \in Threads : at[t] = "gone"
  /\ call' = "gone"
  /\ UNCHANGED <<after, target, enabled, deferred, acked, shared, queues, thread,
                 search, past, bounds>>

InCall == FinishPoll \/ FinishEnd \/ Page \/ Retire \/ Clear \/ Ack \/ Notice
          \/ StopFailed \/ Joined

Free ==
  \/ Poll \/ ResetSession \/ Drop \/ Finish("return", First)
  \/ \E s \in Slots : \/ Submit(s) \/ Recapture(s) \/ Finish("page", s)
                      \/ \E on \in BOOLEAN : Configure(s, on)

Next == InCall \/ Free \/ Search \/ \E t \in Threads : Realtime(t)

Spec == Init /\ [][Next]_vars
FairSpec == Spec /\ WF_vars(InCall) /\ WF_vars(Search)
                 /\ \A t \in Threads : WF_vars(Realtime(t))

-----------------------------------------------------------------------------
TypeOK ==
  /\ call \in {"idle", "retire", "finish", "page", "clear", "ack", "failed",
               "stopped", "drop", "gone"}
  /\ after \in {"return", "page", "session", "end", "disable", "enable"}
  /\ target \in Slots \cup {0}
  /\ enabled \in [Slots -> BOOLEAN] /\ deferred \in Seq(Outcome) /\ acked \in BOOLEAN
  /\ generations \in [Slots -> Nat] /\ stopping \in BOOLEAN
  /\ failure \in {"none", "contract", "fault"}
  /\ inputs \in [Threads -> Seq(Record)]
  /\ \A t \in Threads : Len(inputs[t]) <= InputCap
  /\ outputs \in Seq(Outcome) /\ Len(outputs) <= ResultCap
  /\ jobs \in Seq(Record) /\ Len(jobs) <= SearchCap
  /\ at \in [Threads -> {"recv", "work", "out", "leaving", "gone"}]
  /\ work \in [Threads -> Record] /\ made \in [Threads -> Outcome]
  /\ states \in [Slots -> ChannelState]
  /\ searcher \in {"recv", "decode", "leaving", "gone"} /\ job \in Record
  /\ source \in [Slots -> Position]
  /\ sent \in [Slots -> Seq(Record)] /\ got \in [Slots -> Seq(Outcome)]
  /\ submits \in Nat /\ changes \in Nat /\ decodes \in Nat

Packets(s, g) == {i \in Record : i.kind = "iq" /\ i.slot = s /\ i.gen = g}
Iq(s, items) == Among(items, Packets(s, generations[s]))
IqOf(s, os) == Iq(s, [i \in 1..Len(os) |-> os[i].of])

(* While nothing has failed, every packet of the current generation of a   *)
(* slot is in exactly one place, and the places in order (the caller, what *)
(* was deferred for other slots' changes, the result queue, the thread's   *)
(* hands, the input queue) give the packets as they were submitted.        *)
NothingLost ==
  ~stopping => \A s \in Slots :
    LET t == s % WORKERS
        inHand == IF at[t] = "work" THEN <<work[t]>>
                  ELSE IF at[t] = "out" THEN <<made[t].of>> ELSE <<>>
    IN sent[s] = IqOf(s, got[s]) \o IqOf(s, deferred) \o IqOf(s, outputs)
                 \o Iq(s, inHand) \o Iq(s, inputs[t])

(* The output of what was submitted is on its way to the caller, and all   *)
(* of it is there when finish returns.                                     *)
Complete ==
  [][/\ TypeOK' /\ NothingLost'
     /\ call = "finish" /\ call' = "idle" =>
          \A s \in Slots : IqOf(s, got'[s]) = sent[s]]_vars

(* The caller never gets an output of a generation that was retired before *)
(* the output reached it, wherever the output waited.                      *)
CurrentOnly == \A s \in Slots : \A i \in 1..Len(got[s]) :
                 got[s][i].of.gen = generations[s]

(* A decoding is only ever labelled with the identity of the stream whose  *)
(* samples it decodes, although a slot may change streams while an FT8     *)
(* search is running.                                                      *)
OwnStream == \A s \in Slots : \A i \in 1..Len(got[s]) :
               got[s][i].of.id = got[s][i].as

(* A source that starts every identity at sequence zero and takes a new    *)
(* one for every configuration is never found at fault.                    *)
ContractKept == failure # "contract"

(* A slot that was switched off keeps no receiver.                         *)
DisabledForgotten ==
  call = "idle" /\ failure = "none" =>
    \A s \in Slots : ~enabled[s] => states[s] = NoState

(* What is switched off leaves nothing behind, and a session that was      *)
(* reset leaves no receiver, no output and no work.                        *)
Forgotten ==
  [][/\ DisabledForgotten'
     /\ call = "finish" /\ after = "end" /\ call' = "idle" =>
          /\ \A s \in Slots : states'[s] = NoState /\ got'[s] = <<>>
          /\ ~Pending' /\ deferred' = <<>> /\ outputs' = <<>>]_vars

(* Every call returns: finish and configure see the drain end, a failed    *)
(* set of workers can be reaped and a healthy one dropped, although the    *)
(* threads hold each other's senders.                                      *)
CallReturns == call \notin {"idle", "gone"} ~> call \in {"idle", "gone"}
=============================================================================
