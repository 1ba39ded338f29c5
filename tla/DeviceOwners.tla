---------------------------- MODULE DeviceOwners ----------------------------
(***************************************************************************)
(* Who holds the analyzer.  Each acquisition mode (hardware_swp.rs,         *)
(* hardware_rta.rs, hardware_iqs.rs, hardware_pnm.rs) opens a vendor        *)
(* session on an owner thread of its own; the server, which holds the state *)
(* lock throughout, starts it, calls it with a timeout, and drops it when   *)
(* the mode changes.  An owner that does not come back in time is parked in *)
(* STUCK_OWNER, which refuses every new session until it ends.  Below, the  *)
(* shim (sdk/san90_sdk.cpp) keeps one physical handle, at most one active   *)
(* mode, and serialises its callers with a mutex.  In server mode the       *)
(* handle is given to a SoapySDRServer child (server_mode.rs).              *)
(*                                                                         *)
(* One action is one critical section: every step of the server is taken    *)
(* while it holds the state lock, and `pc' is idle when the lock is free.   *)
(***************************************************************************)
EXTENDS Integers, FiniteSets

CONSTANTS
  Kinds,        \* the acquisition modes, of "swp", "rta", "iqs", "pnm"
  MaxOwners,    \* bound: owner threads that exist at the same time
  StreakLimit   \* failed sweeps in a row that reopen the device (8 in the code)

ASSUME KindsAssumption == Kinds \subseteq {"swp", "rta", "iqs", "pnm"} /\ Kinds # {}
ASSUME OwnersAssumption == MaxOwners \in Nat
ASSUME StreakAssumption == StreakLimit \in Nat \ {0}

VARIABLES
  owner,      \* the owner threads
  held,       \* the owner behind swp_hw, rta_hw, pnm_hw or the pipeline
  parked,     \* STUCK_OWNER
  mode,       \* DevState.swp.mode
  linkUp,     \* DevState.link_up
  streak,     \* swp_fail_streak
  pc, goal, who,     \* what the holder of the state lock does
  callers, active, handle, invalidate,   \* San90Session
  child, process   \* SoapyServer.child, and the process behind it

thread == <<owner, held, parked>>
server == <<mode, linkUp, streak, pc, goal, who>>
shim == <<callers, active, handle, invalidate>>
soapy == <<child, process>>
vars == <<owner, held, parked, mode, linkUp, streak, pc, goal, who,
          callers, active, handle, invalidate, child, process>>

None == "none"
Nobody == 0
Owners == 1..MaxOwners
Free == [kind |-> None, at |-> "free", told |-> None, queue |-> None, work |-> None,
         reply |-> None, stop |-> FALSE, alone |-> FALSE]
Modes == Kinds \union {"server"}

Record == [kind : Kinds \union {None},
           at : {"free", "spawned", "entering", "opening", "opened", "idle",
                 "calling", "incall", "leaving", "closing", "done"},
           told : {None, "ok", "err"},
           queue : {None, "live", "stale"}, work : {None, "live", "stale"},
           reply : {None, "ok", "fail", "lost"},
           stop : BOOLEAN, alone : BOOLEAN]

TypeOK ==
  /\ owner \in [Owners -> Record]
  /\ held \in Owners \union {Nobody} /\ parked \in Owners \union {Nobody}
  /\ mode \in Modes /\ linkUp \in BOOLEAN /\ streak \in 0..StreakLimit
  /\ pc \in {"idle", "starting", "sending", "awaiting", "joining", "waiting", "releasing",
             "term", "kill", "ended"}
  /\ goal \in Modes \union {"tick", "set", "restart", "stop", "late", "quit"}
  /\ who \in Owners \union {Nobody}
  /\ callers \in Owners \union {Nobody} /\ active \in Owners \union {Nobody}
  /\ handle \in {"null", "open"} /\ invalidate \in BOOLEAN
  /\ child \in BOOLEAN /\ process \in {None, "booting", "ready", "dead"}

Init ==
  /\ owner = [o \in Owners |-> Free] /\ held = Nobody /\ parked = Nobody
  /\ mode \in Kinds /\ linkUp = TRUE /\ streak = 0
  /\ pc = "idle" /\ goal = "tick" /\ who = Nobody
  /\ callers = Nobody /\ active = Nobody /\ handle = "null" /\ invalidate = FALSE
  /\ child = FALSE /\ process = None

-----------------------------------------------------------------------------
(* The slot.                                                               *)

Finished(o) == owner[o].at = "done"

\* The fault: a parked owner is taken to be finished.
SlotTaken(slot) == TRUE

\* owner_slot_free: a parked owner that still runs refuses, a finished one is
\* joined and forgotten.
SlotFree(slot) == slot \in {Nobody} \union {o \in Owners : Finished(o)}

\* The fault: the IQ owner's open does not ask the slot either.
ChecksSwept(o) == owner[o].kind \notin {"pnm", "iqs"}

\* The owner threads that ask the slot before they open: Device::open of the
\* sweep, real-time and IQ owners; the phase-noise owner's does not.
Checks(o) == owner[o].kind # "pnm"

\* The fault: a stuck owner is let go of.
Forgotten(o) == parked

\* What a start that timed out leaves in the slot: the phase-noise owner's
\* thread is detached, the others are parked.
Parked(o) == IF owner[o].kind = "pnm" THEN parked ELSE o

\* A thread that has passed the check is in a session until its Device is dropped.
InSession(o) == owner[o].at \notin {"free", "spawned", "done"}

-----------------------------------------------------------------------------
(* The owner threads and the shim.                                         *)

Spawned(k) == [Free EXCEPT !.kind = k, !.at = "spawned"]

Told(o, answer, at) == owner' = [owner EXCEPT ![o].told = answer, ![o].at = at]

\* Device::open, up to the vendor's call.
Check(o) ==
  /\ owner[o].at = "spawned"
  /\ IF Checks(o) /\ ~SlotFree(parked)
     THEN Told(o, "err", "done") /\ UNCHANGED parked
     ELSE /\ owner' = [owner EXCEPT ![o].at = "entering"]
          /\ parked' = IF Checks(o) THEN Nobody ELSE parked
  /\ UNCHANGED <<held, server, shim, soapy>>

\* San90Session::call takes callers_ before its checks.
Enter(o, from, to) ==
  /\ owner[o].at = from /\ callers = Nobody
  /\ callers' = o
  /\ owner' = [owner EXCEPT ![o].at = to]
  /\ UNCHANGED <<held, parked, server, active, handle, invalidate, soapy>>

EnterOpen(o) == Enter(o, "entering", "opening")
EnterCall(o) == Enter(o, "calling", "incall")
EnterClose(o) == Enter(o, "leaving", "closing")

\* san90_open_device refuses a second mode; it opens the device when no usable
\* handle is left, and a failed Device_Open leaves none.
OpenRefused(o) ==
  /\ owner[o].at = "opening"
  /\ active # Nobody \/ handle = "null"
  /\ Told(o, "err", "done")
  /\ callers' = Nobody
  /\ UNCHANGED <<held, parked, server, active, handle, invalidate, soapy>>

\* The mode is configured; a configuration that fails invalidates the session,
\* and its release closes the handle unless the link is lost.
Opens(o) ==
  /\ owner[o].at = "opening" /\ active = Nobody
  /\ callers' = Nobody
  /\ \/ /\ owner' = [owner EXCEPT ![o].at = "opened"]
        /\ active' = o /\ handle' = "open"
     \/ /\ Told(o, "err", "done")
        /\ handle' \in {"null", "open"}
        /\ UNCHANGED active
  /\ UNCHANGED <<held, parked, server, invalidate, soapy>>

\* meta_tx.send: the server may have given up; then the Device is dropped.
Report(o) ==
  /\ owner[o].at = "opened"
  /\ IF owner[o].alone THEN owner' = [owner EXCEPT ![o].at = "leaving"]
                       ELSE Told(o, "ok", "idle")
  /\ UNCHANGED <<held, parked, server, shim, soapy>>

\* The loop looks at the stop flag and at its channel every 100 ms; the IQ
\* owner fetches by itself.
Loop(o) ==
  /\ owner[o].at = "idle"
  /\ owner' =
       IF owner[o].stop \/ owner[o].alone THEN [owner EXCEPT ![o].at = "leaving"]
       ELSE [owner EXCEPT ![o].at = "calling", ![o].work = owner[o].queue, ![o].queue = None]
  /\ \/ owner[o].stop \/ owner[o].alone
     \/ owner[o].kind = "iqs" \/ owner[o].queue # None
  /\ UNCHANGED <<held, parked, server, shim, soapy>>

\* A call ends: a failure invalidates the session, a lost link (-8, -9) takes
\* the handle away.  A reply nobody waits for is dropped, and ends the
\* phase-noise owner; an IQ owner that failed ends.
Return(o) ==
  /\ owner[o].at = "incall"
  /\ \E result \in {"ok", "fail", "lost"} :
       /\ owner' = [owner EXCEPT
            ![o].at = IF \/ owner[o].kind = "iqs" /\ result # "ok"
                         \/ owner[o].kind = "pnm" /\ owner[o].work = "stale"
                      THEN "leaving" ELSE "idle",
            ![o].work = None,
            ![o].reply = IF owner[o].work = "live" THEN result ELSE None]
       /\ handle' = IF result = "lost" THEN "null" ELSE handle
       /\ invalidate' \in CASE result = "ok" -> {invalidate}
                             [] result = "fail" -> {invalidate, TRUE}
                             [] result = "lost" -> {TRUE}
  /\ callers' = Nobody
  /\ UNCHANGED <<held, parked, server, active, soapy>>

\* Device::drop, release_sdk_mode: the mode's close stops the measurement (a
\* status of its own invalidates), then San90Session::release.
Close(o) ==
  /\ owner[o].at = "closing"
  /\ owner' = [owner EXCEPT ![o].at = "done"]
  /\ callers' = Nobody
  /\ active' = IF active = o THEN Nobody ELSE active
  /\ \/ handle' = IF invalidate THEN "null" ELSE handle
     \/ handle' = "null"
  /\ invalidate' = FALSE
  /\ UNCHANGED <<held, parked, server, soapy>>

\* A thread nobody refers to any more is gone: its name is free again.
Gone(o) ==
  /\ Finished(o) /\ o \notin {held, parked, who}
  /\ owner' = [owner EXCEPT ![o] = Free]
  /\ UNCHANGED <<held, parked, server, shim, soapy>>

OwnerStep(o) ==
  \/ Check(o) \/ EnterOpen(o) \/ OpenRefused(o) \/ Opens(o) \/ Report(o) \/ Loop(o)
  \/ EnterCall(o) \/ Return(o) \/ EnterClose(o) \/ Close(o) \/ Gone(o)

-----------------------------------------------------------------------------
(* The server, under the state lock.                                       *)

Becomes(at, for, whom) == pc' = at /\ goal' = for /\ who' = whom

Rest == Becomes("idle", "tick", Nobody)

\* Where a step goes on once its owner is dropped and the slot holds `slot':
\* SET_MODE enters the mode; the server mode and the end of the process need the
\* slot, and then the shim (see Release).
Go(for, slot) ==
  \/ for \in {"tick", "set"} /\ Rest /\ parked' = slot /\ UNCHANGED <<mode, linkUp>>
  \/ for \in Kinds /\ Rest /\ mode' = for /\ parked' = slot /\ UNCHANGED linkUp
  \/ /\ for \in {"server", "quit"}
     /\ linkUp' = (linkUp /\ for # "server")
     /\ UNCHANGED mode
     /\ \/ /\ SlotFree(slot)
           /\ Becomes("releasing", for, Nobody) /\ parked' = Nobody
        \/ /\ ~SlotFree(slot) /\ parked' = slot
           /\ IF for = "quit" THEN Becomes("ended", for, Nobody) ELSE Rest

\* The fault: the owner is not told to stop.
LetRun(threads, o) == threads

\* An owner is dropped: its stop flag is set and its channels hang up.
Let(threads, o) == [threads EXCEPT ![o].stop = TRUE, ![o].alone = TRUE]

\* The IQ owner's end is awaited for OWNER_STOP_TIMEOUT, the others' without limit.
Drop(threads, for) ==
  /\ owner' = Let(threads, held)
  /\ Becomes(IF owner[held].kind = "iqs" THEN "waiting" ELSE "joining", for, held)
  /\ held' = Nobody

\* One acquisition step: open the mode's device, or ask for a frame.
StartOwner(o) ==
  /\ pc = "idle" /\ mode \in Kinds /\ held = Nobody
  /\ owner[o] = Free
  /\ owner' = [owner EXCEPT ![o] = Spawned(mode)]
  /\ Becomes("starting", "tick", o)
  /\ UNCHANGED <<held, parked, mode, linkUp, streak, shim, soapy>>

\* A pipeline may fail after its capture was opened, and drops it again.
Started ==
  /\ pc = "starting" /\ owner[who].told # None
  /\ \/ /\ owner[who].told = "ok"
        /\ held' = who /\ linkUp' = TRUE
        /\ streak' = IF mode = "swp" THEN 0 ELSE streak
        /\ Rest /\ UNCHANGED owner
     \/ /\ owner[who].told = "ok" /\ owner[who].kind = "iqs"
        /\ owner' = Let(owner, who) /\ Becomes("waiting", "tick", who)
        /\ UNCHANGED <<held, linkUp, streak>>
     \/ /\ owner[who].told = "err"
        /\ linkUp' = (linkUp /\ owner[who].kind = "iqs")
        /\ Rest /\ UNCHANGED <<owner, held, streak>>
  /\ UNCHANGED <<parked, mode, shim, soapy>>

\* recv_timeout gives up, the outcome is unknown: the channels are dropped.  The
\* timeout of 10 or 15 s is long enough for the thread to look at the slot.
StartTimesOut ==
  /\ pc = "starting" /\ owner[who].told = None /\ owner[who].at # "spawned"
  /\ owner' = [owner EXCEPT ![who].alone = TRUE, ![who].stop = owner[who].kind = "iqs"]
  /\ parked' = Parked(who)
  /\ linkUp' = (linkUp /\ owner[who].kind = "iqs")
  /\ Rest
  /\ UNCHANGED <<held, mode, streak, shim, soapy>>

\* A frame, or a changed profile on the open handle (configure_swp, configure_rta).
Ask(for) ==
  /\ pc = "idle" /\ mode \in Kinds /\ held # Nobody /\ owner[held].kind # "iqs"
  /\ for = "set" => mode \in {"swp", "rta"} /\ linkUp
  /\ Becomes("sending", for, held)
  /\ UNCHANGED <<thread, mode, linkUp, streak, shim, soapy>>

\* tx.send blocks while an earlier request is still in the channel.
Sent ==
  /\ pc = "sending" /\ owner[who].queue = None
  /\ owner' = [owner EXCEPT ![who].queue = "live"]
  /\ Becomes("awaiting", goal, who)
  /\ UNCHANGED <<held, parked, mode, linkUp, streak, shim, soapy>>

Answered(o) == [owner EXCEPT ![o].reply = None]

\* Nobody waits for the answer any more, wherever the request is.
Abandoned(o) ==
  [owner EXCEPT ![o].queue = IF @ = "live" THEN "stale" ELSE @,
                ![o].work = IF @ = "live" THEN "stale" ELSE @,
                ![o].reply = None]

\* Another sweep is tried until too many failed in a row, a profile that is
\* refused leaves the owner as it is, and so does a trigger when the link is lost.
Retries(result) == mode = "swp" /\ result # "lost" /\ streak + 1 < StreakLimit

Failed(result, told) ==
  \/ /\ IF goal = "set" THEN result # "lost" \/ mode = "rta" ELSE Retries(result)
     /\ owner' = told /\ Rest
     /\ streak' = IF goal = "set" THEN streak ELSE streak + 1
     /\ UNCHANGED <<held, linkUp>>
  \/ /\ IF goal = "set" THEN result = "lost" ELSE ~Retries(result)
     /\ Drop(told, "tick")
     /\ streak' = IF mode = "swp" THEN 0 ELSE streak
     /\ linkUp' = (linkUp /\ result # "lost" /\ mode # "pnm")

\* A sweep resets the streak, one that carries a warning leaves it.
Reply ==
  /\ pc = "awaiting" /\ owner[who].reply # None
  /\ \/ /\ owner[who].reply = "ok"
        /\ owner' = Answered(who) /\ Rest
        /\ streak' \in {streak} \union (IF goal = "set" THEN {} ELSE {0})
        /\ linkUp' = (linkUp \/ mode = "pnm")
        /\ UNCHANGED held
     \/ owner[who].reply # "ok" /\ Failed(owner[who].reply, Answered(who))
  /\ UNCHANGED <<parked, mode, shim, soapy>>

ReplyTimesOut ==
  /\ pc = "awaiting" /\ owner[who].reply = None
  /\ Failed("fail", Abandoned(who))
  /\ UNCHANGED <<parked, mode, shim, soapy>>

\* The pipeline reports an error (of its own, or its capture's) and is dropped;
\* a measurement that is complete, or configured anew, drops its owner too.
GivesUp ==
  /\ pc = "idle" /\ held # Nobody /\ owner[held].kind \in {"iqs", "pnm"}
  /\ Drop(owner, "tick")
  /\ UNCHANGED <<parked, mode, linkUp, streak, shim, soapy>>

\* Drop for HardwareSwp, HardwareRta and HardwarePnm joins the thread.
Joined ==
  /\ pc = "joining" /\ Finished(who)
  /\ Go(goal, parked)
  /\ UNCHANGED <<owner, held, streak, shim, soapy>>

\* finish_owner joins the IQ thread, or parks it when it does not end in time.
FinishOwner ==
  /\ pc = "waiting"
  /\ Go(goal, IF Finished(who) THEN parked ELSE Parked(who))
  /\ UNCHANGED <<owner, held, streak, shim, soapy>>

\* What SET_MODE and the end of the process do to the owner that is there.
Retire(for) ==
  \/ held # Nobody /\ Drop(owner, for) /\ UNCHANGED <<parked, mode, linkUp>>
  \/ held = Nobody /\ Go(for, parked) /\ UNCHANGED <<owner, held>>

\* A server is stopped before its mode is left.
SetMode(next) ==
  /\ pc = "idle" /\ next # mode
  /\ linkUp \/ "server" \in {mode, next}
  /\ \/ child /\ Becomes("term", next, Nobody) /\ UNCHANGED <<thread, mode, linkUp>>
     \/ ~child /\ Retire(next)
  /\ UNCHANGED <<streak, shim, soapy>>

\* release_sdk_session, finish_sdk_session: the shim refuses while a mode is
\* active, and Device_Close may fail.  Both wait for the shim's callers.
Release ==
  /\ pc = "releasing" /\ callers = Nobody
  /\ \/ /\ active = Nobody
        /\ handle' = "null"
        /\ mode' = IF goal = "server" THEN "server" ELSE mode
     \/ /\ active # Nobody \/ handle = "open"
        /\ UNCHANGED <<handle, mode>>
  /\ IF goal = "quit" THEN Becomes("ended", goal, Nobody) ELSE Rest
  /\ UNCHANGED <<thread, linkUp, streak, callers, active, invalidate, soapy>>

\* The end of serve: the server is stopped first.
Quit ==
  /\ pc = "idle"
  /\ \/ child /\ Becomes("term", "quit", Nobody) /\ UNCHANGED <<thread, mode, linkUp>>
     \/ ~child /\ Retire("quit")
  /\ UNCHANGED <<streak, shim, soapy>>

-----------------------------------------------------------------------------
(* SoapySDRServer.                                                         *)

Serves == process \in {"booting", "ready"}

\* SET_SERVER start, without a child; the process holds the device from now on.
StartServer ==
  /\ pc = "idle" /\ mode = "server" /\ ~child /\ SlotFree(parked)
  /\ child' = TRUE /\ process' = "booting"
  /\ parked' = Nobody
  /\ UNCHANGED <<owner, held, server, shim>>

\* SET_SERVER stop and restart, and the poll that finds no readiness in time.
StopServer(for) ==
  /\ pc = "idle" /\ mode = "server" /\ child
  /\ for = "restart" => SlotFree(parked)
  /\ for = "late" => process = "booting"
  /\ Becomes("term", for, Nobody)
  /\ parked' = IF for = "restart" THEN Nobody ELSE parked
  /\ UNCHANGED <<owner, held, mode, linkUp, streak, shim, soapy>>

\* What a stop does once the child is reaped: start again, leave the mode, end;
\* a start or a SET_MODE may fail for another reason then.
Reaped ==
  /\ pc \in {"term", "kill"} /\ process = "dead"
  /\ \/ /\ goal = "restart" /\ process' = "booting" /\ UNCHANGED child /\ Rest
        /\ UNCHANGED <<thread, mode, linkUp>>
     \/ /\ child' = FALSE /\ process' = None
        /\ \/ goal # "quit" /\ Rest /\ UNCHANGED <<thread, mode, linkUp>>
           \/ goal \in Kinds \union {"quit"} /\ Retire(goal)
  /\ UNCHANGED <<streak, shim>>

\* The fault: a child that does not end is given up.
ReservedNever == FALSE

\* Whether a child that survived SIGKILL, or cannot be reaped, stays reserved.
Reserved == TRUE

\* The grace period ends: SIGTERM, then SIGKILL, then the stop fails.
StopTimesOut ==
  /\ process # "dead"
  /\ \/ pc = "term" /\ Becomes("kill", goal, Nobody) /\ UNCHANGED child
     \/ /\ pc = "kill"
        /\ IF goal = "quit" THEN Becomes("ended", goal, Nobody) ELSE Rest
        /\ child' = (Reserved /\ child)
  /\ UNCHANGED <<thread, mode, linkUp, streak, shim, process>>

\* The publisher's poll reaps a child that ended by itself.
Poll ==
  /\ pc = "idle" /\ mode = "server" /\ child /\ process = "dead"
  /\ child' = FALSE /\ process' = None
  /\ UNCHANGED <<thread, server, shim>>

\* The process, which nobody makes end.
Process ==
  /\ \/ process = "booting" /\ process' = "ready"
     \/ Serves /\ process' = "dead"
  /\ UNCHANGED <<thread, server, shim, child>>

-----------------------------------------------------------------------------
Timeout == StartTimesOut \/ ReplyTimesOut \/ StopTimesOut

\* What the holder of the state lock does next; nothing starts it but a tick or
\* a command.
Step == Started \/ Sent \/ Reply \/ Joined \/ FinishOwner \/ Release \/ Reaped

Begin ==
  \/ \E o \in Owners : StartOwner(o)
  \/ \E for \in {"tick", "set"} : Ask(for)
  \/ GivesUp
  \/ \E next \in Modes : SetMode(next)
  \/ Quit
  \/ StartServer
  \/ \E for \in {"stop", "restart", "late"} : StopServer(for)
  \/ Poll

Next == (\E o \in Owners : OwnerStep(o)) \/ Step \/ Timeout \/ Begin \/ Process

Spec == Init /\ [][Next]_vars

\* The vendor's calls return, the threads run, and every wait with a limit ends.
FairSpec ==
  /\ Spec
  /\ \A o \in Owners : WF_vars(OwnerStep(o))
  /\ WF_vars(Step) /\ WF_vars(Timeout)

-----------------------------------------------------------------------------
(* The vendor's rule, hardware_swp.rs:171: sessions must not overlap.  An owner *)
(* that was given up is still in its session, and no other one is opened.       *)
OneSession ==
  \A a, b \in Owners : a # b => ~(InSession(a) /\ InSession(b))

(* No owner thread is lost: one that still runs is the server's, the one that is *)
(* being started or dropped, or the one in the slot.                            *)
Accounted ==
  /\ TypeOK
  /\ \A o \in Owners : owner[o].at \notin {"free", "done"} => o \in {held, parked, who}

(* The exclusion in Rust is enough: the shim never has to refuse a second mode, *)
(* nor a release while a mode is active (san90_sdk.cpp:129, :228).              *)
NeverBusy ==
  /\ \A o \in Owners : owner[o].at = "opening" => active = Nobody
  /\ pc = "releasing" => active = Nobody

(* server_mode.rs:1: while the child runs no owner is in a session, the device is *)
(* closed, and the mode stays the server's until the child is reaped.             *)
ExclusiveServer ==
  Serves => /\ \A o \in Owners : ~InSession(o)
            /\ handle = "null" /\ active = Nobody
            /\ mode = "server"

(* A tick, a command or the shutdown that holds the state lock comes to its end. *)
CallReturns == (pc # "idle") ~> (pc \in {"idle", "ended"})

=============================================================================
