---------------------------- MODULE OwnersProofs ----------------------------
(***************************************************************************)
(* Proofs about the owner threads of the SDK, in two parts.                *)
(*                                                                         *)
(* DeviceOwners, for any number of owner threads: without the phase-noise  *)
(* owner, whose start neither asks the slot nor is parked in it, sessions  *)
(* never overlap, no thread is lost, the shim never has to refuse a second *)
(* mode, and the SoapySDR child has the device alone.                      *)
(*                                                                         *)
(* IqsCapture, for every capacity and bound: the DSP thread never takes    *)
(* samples fetched under other settings than its plan's, finds no          *)
(* discontinuity that the vendor did not make, and takes nothing after a   *)
(* next that failed.                                                       *)
(*                                                                         *)
(* Two facts carry these.  A reconfigure that is under way is in one place,*)
(* a request, the request being served or an answer, and settings and plan *)
(* are the same unless its answer is still to be read.  And the packets    *)
(* between the vendor and the plan form a chain, from the last stamp taken *)
(* over the packet under inspection, the queue and the packet in the       *)
(* owner's hands to the next one the vendor has: each link is a later      *)
(* generation or the next stamp, unless samples were lost there.           *)
(***************************************************************************)
EXTENDS DeviceOwners, IqsCapture, SequenceTheorems, TLAPS

-----------------------------------------------------------------------------
(* The inductive invariant.                                                *)

\* Threads the server or the slot refers to exist; the others do not run.
Referred ==
  /\ \A o \in Owners : owner[o].at \notin {"free", "done"} => o \in {held, parked, who}
  /\ \A o \in Owners : o \in {held, parked, who} => owner[o].at # "free"
  /\ \A o \in Owners : owner[o].at # "free" => owner[o].kind \in Kinds
  /\ \A o \in Owners : owner[o].told = "err" => owner[o].at = "done"
  /\ \A o \in Owners : owner[o].told = "ok" => owner[o].at # "spawned"

\* What the holder of the state lock has in hand at every point.
Shape ==
  /\ pc = "idle" => who = Nobody
  /\ pc = "starting" => held = Nobody /\ who # Nobody
  /\ pc \in {"sending", "awaiting"} => held # Nobody /\ who = held
  /\ pc \in {"joining", "waiting"} =>
       /\ held = Nobody /\ who # Nobody /\ parked = Nobody
       /\ owner[who].at # "spawned"
       /\ goal \in Kinds \union {"tick", "server", "quit"}
  /\ pc = "releasing" =>
       held = Nobody /\ who = Nobody /\ parked = Nobody /\ goal \in {"server", "quit"}
  /\ pc \in {"term", "kill"} => held = Nobody /\ who = Nobody /\ child
  /\ pc = "ended" => held = Nobody /\ who = Nobody

\* The slot is empty as long as an owner is past its check of the slot.
SlotEmpty ==
  /\ held # Nobody => parked = Nobody /\ owner[held].at # "spawned"
  /\ who # Nobody /\ owner[who].at # "spawned" /\ owner[who].told # "err" => parked = Nobody
  /\ parked # Nobody => owner[parked].at # "spawned"

\* The shim's active mode is that of a thread in its session.
ActiveRuns ==
  active # Nobody =>
    owner[active].at \in {"opened", "idle", "calling", "incall", "leaving", "closing"}

\* In server mode the device is closed and nobody refers to a thread.
ServerAlone ==
  /\ mode = "server" => /\ held = Nobody /\ who = Nobody /\ parked = Nobody
                        /\ handle = "null" /\ active = Nobody
  /\ child => mode = "server"
  /\ process # None => child

IInv == TypeOK /\ Referred /\ Shape /\ SlotEmpty /\ ActiveRuns /\ ServerAlone

-----------------------------------------------------------------------------
(* The constants.                                                          *)

LEMMA NobodyIsNone == Nobody \notin Owners
  BY OwnersAssumption DEF Nobody, Owners

LEMMA KindsApart ==
  \A k \in Kinds : k \notin {"server", "quit", "tick", "set", "restart", "stop", "late", None}
  BY KindsAssumption DEF None

LEMMA InitInv == Init => IInv
  <1> SUFFICES ASSUME Init PROVE IInv
    OBVIOUS
  <1> USE NobodyIsNone, KindsApart
  <1>1. TypeOK
    <2>1. Free \in Record
      BY DEF Free, Record
    <2>2. streak \in 0..StreakLimit
      BY StreakAssumption DEF Init
    <2> QED BY <2>1, <2>2 DEF Init, TypeOK, Modes
  <1>2. Referred /\ Shape /\ SlotEmpty /\ ActiveRuns /\ ServerAlone
    BY DEF Init, Referred, Shape, SlotEmpty, ActiveRuns, ServerAlone, Free, None
  <1> QED BY <1>1, <1>2 DEF IInv

-----------------------------------------------------------------------------
(* The steps of the owner threads.                                         *)

LEMMA OwnerType == ASSUME TypeOK, NEW o \in Owners, OwnerStep(o) PROVE TypeOK'
  <1> USE NobodyIsNone
  <1>0. owner \in [Owners -> Record] /\ owner[o] \in Record
    BY DEF TypeOK
  <1>1. CASE Check(o)
    <2>1. owner' \in [Owners -> Record]
      BY <1>0, <1>1 DEF Check, Told, Record
    <2> QED BY <1>1, <2>1 DEF Check, Told, TypeOK, server, shim, soapy
  <1>2. CASE EnterOpen(o)
    <2>1. owner' \in [Owners -> Record]
      BY <1>0, <1>2 DEF EnterOpen, Enter, Record
    <2> QED BY <1>2, <2>1 DEF EnterOpen, Enter, TypeOK, server, shim, soapy
  <1>3. CASE EnterCall(o)
    <2>1. owner' \in [Owners -> Record]
      BY <1>0, <1>3 DEF EnterCall, Enter, Record
    <2> QED BY <1>3, <2>1 DEF EnterCall, Enter, TypeOK, server, shim, soapy
  <1>4. CASE EnterClose(o)
    <2>1. owner' \in [Owners -> Record]
      BY <1>0, <1>4 DEF EnterClose, Enter, Record
    <2> QED BY <1>4, <2>1 DEF EnterClose, Enter, TypeOK, server, shim, soapy
  <1>5. CASE OpenRefused(o)
    <2>1. owner' \in [Owners -> Record]
      BY <1>0, <1>5 DEF OpenRefused, Told, Record
    <2> QED BY <1>5, <2>1 DEF OpenRefused, Told, TypeOK, server, shim, soapy
  <1>6. CASE Opens(o)
    <2>1. owner' \in [Owners -> Record]
      BY <1>0, <1>6 DEF Opens, Told, Record
    <2> QED BY <1>6, <2>1 DEF Opens, Told, TypeOK, server, shim, soapy
  <1>7. CASE Report(o)
    <2>1. owner' \in [Owners -> Record]
      BY <1>0, <1>7 DEF Report, Told, Record
    <2> QED BY <1>7, <2>1 DEF Report, Told, TypeOK, server, shim, soapy
  <1>8. CASE Loop(o)
    <2>1. owner' \in [Owners -> Record]
      BY <1>0, <1>8 DEF Loop, Record
    <2> QED BY <1>8, <2>1 DEF Loop, TypeOK, server, shim, soapy
  <1>9. CASE Return(o)
    <2>2. owner' \in [Owners -> Record]
      <3>1. PICK result \in {"ok", "fail", "lost"} :
              owner' = [owner EXCEPT
                ![o].at = IF \/ owner[o].kind = "iqs" /\ result # "ok"
                             \/ owner[o].kind = "pnm" /\ owner[o].work = "stale"
                          THEN "leaving" ELSE "idle",
                ![o].work = None,
                ![o].reply = IF owner[o].work = "live" THEN result ELSE None]
        BY <1>9 DEF Return
      <3> QED BY <1>0, <3>1 DEF Record
    <2>3. handle' \in {"null", "open"}
      BY <1>9 DEF Return, TypeOK
    <2>4. invalidate' \in BOOLEAN
      BY <1>9 DEF Return, TypeOK
    <2> QED BY <1>9, <2>2, <2>3, <2>4 DEF Return, TypeOK, server, soapy
  <1>10. CASE Close(o)
    <2>1. owner' \in [Owners -> Record]
      BY <1>0, <1>10 DEF Close, Record
    <2>2. handle' \in {"null", "open"}
      BY <1>10 DEF Close, TypeOK
    <2>3. active' \in Owners \union {Nobody}
      BY <1>10 DEF Close, TypeOK
    <2>4. invalidate' \in BOOLEAN
      BY <1>10 DEF Close
    <2> QED BY <1>10, <2>1, <2>2, <2>3, <2>4 DEF Close, TypeOK, server, soapy
  <1>11. CASE Gone(o)
    <2>1. owner' \in [Owners -> Record]
      BY <1>0, <1>11 DEF Gone, Free, Record
    <2> QED BY <1>11, <2>1 DEF Gone, Free, TypeOK, server, shim, soapy
  <1> QED BY <1>1, <1>2, <1>3, <1>4, <1>5, <1>6, <1>7, <1>8, <1>9, <1>10, <1>11 DEF OwnerStep

(* What an owner thread does is to itself, and to the slot only when it    *)
(* finds a finished thread there.                                          *)
Alone(o) ==
  /\ \A p \in Owners : p # o => owner'[p] = owner[p]
  /\ UNCHANGED <<held, server, soapy>>
  /\ owner[o].at # "free" /\ owner'[o].at # "spawned"
  /\ owner[o].at = "done" => owner'[o] = Free /\ o \notin {held, parked, who}
  /\ owner[o].at # "done" => owner'[o].kind = owner[o].kind /\ owner'[o].at # "free"
  /\ owner'[o].told = "err" => owner'[o].at = "done"
  /\ owner[o].told = "err" => owner[o].at = "done"
  /\ parked' # parked => parked' = Nobody /\ owner[parked].at = "done"
  /\ owner[o].at = "spawned" /\ owner'[o].told # "err" => parked' = Nobody

LEMMA OwnerAlone ==
  ASSUME "pnm" \notin Kinds, TypeOK, Referred, NEW o \in Owners, OwnerStep(o)
  PROVE  Alone(o)
  <1> USE NobodyIsNone
  <1>0. /\ owner \in [Owners -> Record] /\ owner[o] \in Record
        /\ owner[o].told = "err" => owner[o].at = "done"
        /\ owner[o].at # "free" => owner[o].kind # "pnm"
    BY DEF TypeOK, Referred
  <1>1. CASE Check(o)
    BY <1>0, <1>1 DEF Alone, Check, Told, Checks, SlotFree, Finished, Record, server, shim, soapy, None
  <1>2. CASE EnterOpen(o)
    BY <1>0, <1>2 DEF Alone, EnterOpen, Enter, Record, server, shim, soapy, None
  <1>3. CASE EnterCall(o)
    BY <1>0, <1>3 DEF Alone, EnterCall, Enter, Record, server, shim, soapy, None
  <1>4. CASE EnterClose(o)
    BY <1>0, <1>4 DEF Alone, EnterClose, Enter, Record, server, shim, soapy, None
  <1>5. CASE OpenRefused(o)
    BY <1>0, <1>5 DEF Alone, OpenRefused, Told, Record, server, shim, soapy, None
  <1>6. CASE Opens(o)
    BY <1>0, <1>6 DEF Alone, Opens, Told, Record, server, shim, soapy, None
  <1>7. CASE Report(o)
    BY <1>0, <1>7 DEF Alone, Report, Told, Record, server, shim, soapy, None
  <1>8. CASE Loop(o)
    BY <1>0, <1>8 DEF Alone, Loop, Record, server, shim, soapy, None
  <1>9. CASE Return(o)
    BY <1>0, <1>9 DEF Alone, Return, Record, server, shim, soapy, None
  <1>10. CASE Close(o)
    BY <1>0, <1>10 DEF Alone, Close, Record, server, shim, soapy, None
  <1>11. CASE Gone(o)
    BY <1>0, <1>11 DEF Alone, Gone, Free, Finished, Record, server, shim, soapy, None
  <1> QED BY <1>1, <1>2, <1>3, <1>4, <1>5, <1>6, <1>7, <1>8, <1>9, <1>10, <1>11 DEF OwnerStep

(* A thread that is the active mode stays in its session until it closes;  *)
(* one that has ended does nothing to the shim.                            *)
LEMMA OwnerActive ==
  ASSUME TypeOK, ActiveRuns, NEW o \in Owners, OwnerStep(o)
  PROVE  ActiveRuns' /\ (owner[o].at = "done" => UNCHANGED <<handle, active>>)
  <1> USE NobodyIsNone
  <1>0. /\ owner \in [Owners -> Record] /\ owner[o] \in Record
        /\ active \in Owners \union {Nobody}
    BY DEF TypeOK
  <1>1. CASE Check(o)
    BY <1>0, <1>1 DEF ActiveRuns, Check, Told, shim, Record
  <1>2. CASE EnterOpen(o)
    BY <1>0, <1>2 DEF ActiveRuns, EnterOpen, Enter, Record
  <1>3. CASE EnterCall(o)
    BY <1>0, <1>3 DEF ActiveRuns, EnterCall, Enter, Record
  <1>4. CASE EnterClose(o)
    BY <1>0, <1>4 DEF ActiveRuns, EnterClose, Enter, Record
  <1>5. CASE OpenRefused(o)
    BY <1>0, <1>5 DEF ActiveRuns, OpenRefused, Told, Record
  <1>6. CASE Opens(o)
    BY <1>0, <1>6 DEF ActiveRuns, Opens, Told, Record
  <1>7. CASE Report(o)
    BY <1>0, <1>7 DEF ActiveRuns, Report, Told, shim, Record
  <1>8. CASE Loop(o)
    BY <1>0, <1>8 DEF ActiveRuns, Loop, shim, Record
  <1>9. CASE Return(o)
    BY <1>0, <1>9 DEF ActiveRuns, Return, Record
  <1>10. CASE Close(o)
    BY <1>0, <1>10 DEF ActiveRuns, Close, Record
  <1>11. CASE Gone(o)
    BY <1>0, <1>11 DEF ActiveRuns, Gone, Free, Finished, shim, Record
  <1> QED BY <1>1, <1>2, <1>3, <1>4, <1>5, <1>6, <1>7, <1>8, <1>9, <1>10, <1>11 DEF OwnerStep

LEMMA OwnerInv ==
  ASSUME "pnm" \notin Kinds, IInv, NEW o \in Owners, OwnerStep(o)
  PROVE  IInv'
  <1> USE NobodyIsNone DEF IInv
  <1>1. TypeOK'
    BY OwnerType
  <1>2. Alone(o)
    BY OwnerAlone
  <1>3. Referred'
    BY <1>2 DEF Alone, Referred, Free, server
  <1>4. Shape'
    BY <1>2 DEF Alone, Shape, server, soapy, TypeOK
  <1>5. SlotEmpty'
    BY <1>2 DEF Alone, SlotEmpty, Referred, server, TypeOK
  <1>6. ActiveRuns' /\ (owner[o].at = "done" => UNCHANGED <<handle, active>>)
    BY OwnerActive
  <1>7. ServerAlone'
    <2>1. mode = "server" => owner[o].at = "done"
      BY <1>2 DEF ServerAlone, Referred, Alone
    <2> QED BY <1>2, <1>6, <2>1 DEF Alone, ServerAlone, server, soapy
  <1> QED BY <1>1, <1>3, <1>4, <1>5, <1>6, <1>7

-----------------------------------------------------------------------------
(* The steps of the server.  Those that only speak to a thread leave its    *)
(* place, its kind and its report as they are.                             *)
Quiet(threads) ==
  /\ threads \in [Owners -> Record]
  /\ \A o \in Owners : /\ threads[o].at = owner[o].at /\ threads[o].kind = owner[o].kind
                       /\ threads[o].told = owner[o].told

LEMMA LetQuiet ==
  ASSUME NEW threads, Quiet(threads), NEW o \in Owners
  PROVE  Quiet(Let(threads, o))
  <1>1. threads \in [Owners -> Record] /\ threads[o] \in Record
    BY DEF Quiet
  <1>2. [threads[o] EXCEPT !.stop = TRUE, !.alone = TRUE] \in Record
    BY <1>1 DEF Record
  <1>3. Let(threads, o) = [threads EXCEPT ![o] = [threads[o] EXCEPT !.stop = TRUE, !.alone = TRUE]]
    BY <1>1 DEF Let, Record
  <1>4. Let(threads, o) \in [Owners -> Record]
    BY <1>1, <1>2, <1>3
  <1> QED BY <1>1, <1>3, <1>4 DEF Quiet, Record

LEMMA AnsweredQuiet ==
  ASSUME TypeOK, NEW o \in Owners PROVE Quiet(Answered(o))
  <1>1. owner \in [Owners -> Record]
    BY DEF TypeOK
  <1> QED BY <1>1 DEF Quiet, Answered, Record

LEMMA AbandonedQuiet ==
  ASSUME TypeOK, NEW o \in Owners PROVE Quiet(Abandoned(o))
  <1>1. owner \in [Owners -> Record] /\ owner[o] \in Record
    BY DEF TypeOK
  <1> QED BY <1>1 DEF Quiet, Abandoned, Record

(* While an owner is dropped it is what the lock's holder waits for.       *)
LEMMA DropInv ==
  ASSUME IInv, pc \in {"idle", "awaiting"}, held # Nobody,
         NEW told, Quiet(told),
         NEW for \in Kinds \union {"tick", "server", "quit"}, Drop(told, for),
         UNCHANGED <<parked, mode, shim, soapy>>,
         linkUp' \in BOOLEAN, streak' \in 0..StreakLimit
  PROVE  IInv'
  <1> USE NobodyIsNone
  <1>1. held \in Owners /\ Quiet(owner')
    <2>1. held \in Owners
      BY DEF IInv, TypeOK
    <2>2. owner' = Let(told, held)
      BY DEF Drop
    <2> QED BY <2>1, <2>2, LetQuiet
  <1>2. /\ pc' \in {"waiting", "joining"} /\ goal' = for /\ who' = held
        /\ held' = Nobody /\ who \in {held, Nobody}
    BY DEF Drop, Becomes, IInv, Shape
  <1>3. TypeOK'
    BY <1>1, <1>2 DEF IInv, TypeOK, Quiet, shim, soapy, Modes
  <1>4. Referred'
    BY <1>1, <1>2 DEF IInv, Referred, Quiet
  <1>5. Shape'
    BY <1>1, <1>2 DEF IInv, Shape, SlotEmpty, Quiet
  <1>6. SlotEmpty'
    BY <1>1, <1>2 DEF IInv, SlotEmpty, Quiet
  <1>7. ActiveRuns'
    BY <1>1 DEF IInv, ActiveRuns, Quiet, TypeOK, shim
  <1>8. ServerAlone'
    BY <1>2 DEF IInv, ServerAlone, shim, soapy
  <1> QED BY <1>3, <1>4, <1>5, <1>6, <1>7, <1>8 DEF IInv

(* Where a step goes on once nobody but the slot refers to a thread.       *)
LEMMA GoInv ==
  ASSUME TypeOK, Referred, ActiveRuns, ServerAlone, held = Nobody,
         NEW slot \in Owners \union {Nobody},
         \A o \in Owners : owner[o].at \notin {"free", "done"} => o = slot,
         slot # Nobody => owner[slot].at \notin {"free", "spawned"},
         mode = "server" => slot = Nobody,
         NEW for \in Kinds \union {"tick", "server", "quit"}, Go(for, slot),
         UNCHANGED <<owner, held, streak, shim>>,
         child' = FALSE /\ process' = None
  PROVE  IInv'
  <1> USE NobodyIsNone
  <1>1. /\ who' = Nobody /\ parked' \in {slot, Nobody}
        /\ parked' # slot => owner[slot].at = "done"
        /\ pc' \in {"idle", "ended", "releasing"}
        /\ pc' = "releasing" => goal' \in {"server", "quit"} /\ parked' = Nobody
        /\ goal' \in {"tick", "server", "quit"}
        /\ mode' \in {mode} \union Kinds
    <2>1. CASE for = "tick"
      BY <2>1, KindsApart DEF Go, Rest, Becomes
    <2>2. CASE for \in Kinds
      BY <2>2, KindsApart DEF Go, Rest, Becomes
    <2>3. CASE for \in {"server", "quit"}
      BY <2>3, KindsApart DEF Go, Rest, Becomes, SlotFree, Finished
    <2> QED BY <2>1, <2>2, <2>3
  <1>8. linkUp' \in BOOLEAN
    BY DEF Go, TypeOK
  <1>2. TypeOK'
    BY <1>1, <1>8 DEF TypeOK, Modes, shim, None
  <1>3. Referred'
    BY <1>1 DEF Referred
  <1>4. Shape'
    BY <1>1 DEF Shape
  <1>5. SlotEmpty'
    BY <1>1 DEF SlotEmpty
  <1>6. ActiveRuns'
    BY DEF ActiveRuns, shim
  <1>7. ServerAlone'
    BY <1>1, KindsApart DEF ServerAlone, shim
  <1> QED BY <1>2, <1>3, <1>4, <1>5, <1>6, <1>7 DEF IInv

LEMMA RetireInv ==
  ASSUME IInv, who = Nobody, held # Nobody => pc = "idle",
         NEW for \in Kinds \union {"server", "quit"}, Retire(for),
         UNCHANGED <<streak, shim>>, child' = FALSE /\ process' = None,
         held # Nobody => UNCHANGED soapy
  PROVE  IInv'
  <1> USE NobodyIsNone
  <1>1. CASE held # Nobody
    <2>1. /\ Drop(owner, for) /\ UNCHANGED <<parked, mode, linkUp, streak, shim, soapy>>
      BY <1>1 DEF Retire
    <2>2. Quiet(owner)
      BY DEF IInv, TypeOK, Quiet
    <2>3. linkUp' \in BOOLEAN /\ streak' \in 0..StreakLimit
      BY <2>1 DEF IInv, TypeOK
    <2> QED BY <1>1, <2>1, <2>2, <2>3, DropInv
  <1>2. CASE held = Nobody
    <2>1. Go(for, parked) /\ UNCHANGED <<owner, held, streak, shim>>
      BY <1>2 DEF Retire
    <2>2. parked \in Owners \union {Nobody}
      BY DEF IInv, TypeOK
    <2>3. /\ \A o \in Owners : owner[o].at \notin {"free", "done"} => o = parked
          /\ parked # Nobody => owner[parked].at \notin {"free", "spawned"}
          /\ mode = "server" => parked = Nobody
      BY <1>2, <2>2 DEF IInv, Referred, SlotEmpty, ServerAlone
    <2> QED BY <1>2, <2>1, <2>2, <2>3, GoInv DEF IInv
  <1> QED BY <1>1, <1>2

LEMMA StartOwnerInv ==
  ASSUME IInv, NEW o \in Owners, StartOwner(o) PROVE IInv'
  <1> USE NobodyIsNone DEF StartOwner, Becomes
  <1>1. mode \in Kinds /\ mode # "server" /\ who = Nobody /\ held = Nobody
    BY KindsApart DEF IInv, Shape
  <1>2. Spawned(mode) \in Record /\ Spawned(mode).at = "spawned"
        /\ Spawned(mode).kind = mode /\ Spawned(mode).told = None
    BY <1>1 DEF Spawned, Free, Record
  <1>3. owner[o].at = "free" /\ owner \in [Owners -> Record]
    BY DEF IInv, TypeOK, Free
  <1>4. TypeOK'
    BY <1>2 DEF IInv, TypeOK, Modes, shim, soapy
  <1>5. Referred'
    BY <1>1, <1>2, <1>3 DEF IInv, Referred, None
  <1>6. Shape'
    BY <1>1 DEF Shape
  <1>7. SlotEmpty'
    BY <1>1, <1>2, <1>3 DEF IInv, SlotEmpty, Referred, TypeOK
  <1>8. ActiveRuns'
    BY <1>3 DEF IInv, ActiveRuns, TypeOK, shim
  <1>9. ServerAlone'
    BY <1>1 DEF IInv, ServerAlone, soapy, shim
  <1> QED BY <1>4, <1>5, <1>6, <1>7, <1>8, <1>9 DEF IInv

LEMMA StartedInv == ASSUME IInv, Started PROVE IInv'
  <1> USE NobodyIsNone DEF Rest, Becomes
  <1>1. /\ pc = "starting" /\ held = Nobody /\ who \in Owners /\ mode # "server"
        /\ owner[who] \in Record /\ owner \in [Owners -> Record]
        /\ UNCHANGED <<parked, mode, shim, soapy>>
    BY DEF Started, IInv, Shape, TypeOK, ServerAlone
  <1>2. CASE /\ owner[who].told = "ok"
             /\ held' = who /\ linkUp' = TRUE
             /\ streak' = IF mode = "swp" THEN 0 ELSE streak
             /\ Rest /\ UNCHANGED owner
    <2>1. TypeOK'
      BY <1>1, <1>2, StreakAssumption DEF IInv, TypeOK, Modes, shim, soapy
    <2>2. Referred' /\ Shape' /\ SlotEmpty'
      BY <1>1, <1>2 DEF IInv, Referred, Shape, SlotEmpty, soapy
    <2>3. ActiveRuns' /\ ServerAlone'
      BY <1>1, <1>2 DEF IInv, ActiveRuns, ServerAlone, shim, soapy
    <2> QED BY <2>1, <2>2, <2>3 DEF IInv
  <1>3. CASE /\ owner[who].told = "ok"
             /\ owner' = Let(owner, who) /\ Becomes("waiting", "tick", who)
             /\ UNCHANGED <<held, linkUp, streak>>
    <2>1. Quiet(owner')
      BY <1>1, <1>3, LetQuiet DEF Quiet
    <2>2. TypeOK'
      BY <1>1, <1>3, <2>1 DEF IInv, TypeOK, Modes, shim, soapy, Quiet
    <2>3. Referred' /\ Shape' /\ SlotEmpty'
      BY <1>1, <1>3, <2>1 DEF IInv, Referred, Shape, SlotEmpty, soapy, Quiet
    <2>4. ActiveRuns' /\ ServerAlone'
      BY <1>1, <1>3, <2>1 DEF IInv, ActiveRuns, ServerAlone, shim, soapy, Quiet, TypeOK
    <2> QED BY <2>2, <2>3, <2>4 DEF IInv
  <1>4. CASE /\ owner[who].told = "err"
             /\ linkUp' = (linkUp /\ owner[who].kind = "iqs")
             /\ Rest /\ UNCHANGED <<owner, held, streak>>
    <2>1. linkUp' \in BOOLEAN
      BY <1>4
    <2>2. TypeOK'
      BY <1>1, <1>4, <2>1 DEF IInv, TypeOK, Modes, shim, soapy
    <2>3. Referred' /\ Shape' /\ SlotEmpty'
      BY <1>1, <1>4 DEF IInv, Referred, Shape, SlotEmpty, soapy
    <2>4. ActiveRuns' /\ ServerAlone'
      BY <1>1, <1>4 DEF IInv, ActiveRuns, ServerAlone, shim, soapy
    <2> QED BY <2>2, <2>3, <2>4 DEF IInv
  <1> QED BY <1>2, <1>3, <1>4 DEF Started

LEMMA StartTimesOutInv ==
  ASSUME "pnm" \notin Kinds, IInv, StartTimesOut PROVE IInv'
  <1> USE NobodyIsNone DEF Rest, Becomes
  <1>1. /\ pc = "starting" /\ held = Nobody /\ who \in Owners /\ mode # "server"
        /\ owner[who] \in Record /\ owner \in [Owners -> Record]
        /\ parked = Nobody /\ owner[who].at # "free"
        /\ UNCHANGED <<held, mode, streak, shim, soapy>>
    BY DEF StartTimesOut, IInv, Shape, TypeOK, ServerAlone, SlotEmpty, Referred, None
  <1>2. parked' = who
    BY <1>1 DEF StartTimesOut, Parked, IInv, Referred
  <1>3. Quiet(owner')
    <2>1. owner' \in [Owners -> Record]
      BY <1>1 DEF StartTimesOut, Record
    <2> QED BY <1>1, <2>1 DEF StartTimesOut, Quiet, Record
  <1>4. linkUp' \in BOOLEAN
    BY DEF StartTimesOut
  <1>5. TypeOK'
    BY <1>1, <1>2, <1>3, <1>4 DEF StartTimesOut, IInv, TypeOK, Modes, shim, soapy, Quiet
  <1>6. Referred' /\ Shape' /\ SlotEmpty'
    BY <1>1, <1>2, <1>3 DEF StartTimesOut, IInv, Referred, Shape, SlotEmpty, soapy, Quiet
  <1>7. ActiveRuns' /\ ServerAlone'
    BY <1>1, <1>2, <1>3 DEF StartTimesOut, IInv, ActiveRuns, ServerAlone, shim, soapy, Quiet, TypeOK
  <1> QED BY <1>5, <1>6, <1>7 DEF IInv

(* A step that only speaks to the owner it holds.                          *)
LEMMA SpeakInv ==
  ASSUME IInv, held # Nobody, pc \in {"idle", "sending", "awaiting"},
         Quiet(owner'), UNCHANGED <<held, parked, mode, shim, soapy>>,
         linkUp' \in BOOLEAN, streak' \in 0..StreakLimit,
         \/ pc' = "idle" /\ who' = Nobody /\ goal' = "tick"
         \/ pc' \in {"sending", "awaiting"} /\ who' = held /\ goal' \in {goal, "tick", "set"}
  PROVE  IInv'
  <1> USE NobodyIsNone
  <1>1. held \in Owners /\ who \in {held, Nobody} /\ mode # "server" /\ parked = Nobody
    BY DEF IInv, TypeOK, Shape, ServerAlone, SlotEmpty
  <1>2. TypeOK'
    BY <1>1 DEF IInv, TypeOK, Modes, shim, soapy, Quiet
  <1>3. Referred'
    BY <1>1 DEF IInv, Referred, Quiet
  <1>4. Shape'
    BY <1>1 DEF Shape
  <1>5. SlotEmpty'
    BY <1>1 DEF IInv, SlotEmpty, Quiet
  <1>6. ActiveRuns'
    BY DEF IInv, ActiveRuns, Quiet, TypeOK, shim
  <1>7. ServerAlone'
    BY <1>1 DEF IInv, ServerAlone, shim, soapy
  <1> QED BY <1>2, <1>3, <1>4, <1>5, <1>6, <1>7 DEF IInv

LEMMA AskInv == ASSUME IInv, NEW for \in {"tick", "set"}, Ask(for) PROVE IInv'
  <1>1. Quiet(owner')
    BY DEF Ask, thread, IInv, TypeOK, Quiet
  <1>2. /\ held # Nobody /\ pc = "idle" /\ UNCHANGED <<held, parked, mode, shim, soapy>>
        /\ pc' = "sending" /\ who' = held /\ goal' \in {goal, "tick", "set"}
    BY DEF Ask, Becomes, thread
  <1>3. linkUp' \in BOOLEAN /\ streak' \in 0..StreakLimit
    BY DEF Ask, IInv, TypeOK
  <1> QED BY <1>1, <1>2, <1>3, SpeakInv

LEMMA SentInv == ASSUME IInv, Sent PROVE IInv'
  <1> USE NobodyIsNone
  <1>1. /\ pc = "sending" /\ held # Nobody /\ who = held
        /\ UNCHANGED <<held, parked, mode, shim, soapy>>
        /\ pc' = "awaiting" /\ who' = held /\ goal' \in {goal, "tick", "set"}
    BY DEF Sent, Becomes, IInv, Shape
  <1>2. Quiet(owner')
    BY <1>1 DEF Sent, IInv, TypeOK, Quiet, Record
  <1>3. linkUp' \in BOOLEAN /\ streak' \in 0..StreakLimit
    BY DEF Sent, IInv, TypeOK
  <1> QED BY <1>1, <1>2, <1>3, SpeakInv

LEMMA FailedInv ==
  ASSUME IInv, pc = "awaiting", NEW result, NEW told, Quiet(told), Failed(result, told),
         UNCHANGED <<parked, mode, shim, soapy>>
  PROVE  IInv'
  <1>1. held # Nobody
    BY DEF IInv, Shape
  <1>2. CASE /\ IF goal = "set" THEN result # "lost" \/ mode = "rta" ELSE Retries(result)
             /\ owner' = told /\ Rest
             /\ streak' = IF goal = "set" THEN streak ELSE streak + 1
             /\ UNCHANGED <<held, linkUp>>
    <2>1. streak' \in 0..StreakLimit
      BY <1>2, StreakAssumption DEF Retries, IInv, TypeOK
    <2>2. linkUp' \in BOOLEAN
      BY <1>2 DEF IInv, TypeOK
    <2> QED BY <1>1, <1>2, <2>1, <2>2, SpeakInv DEF Rest, Becomes
  <1>3. CASE /\ Drop(told, "tick")
             /\ streak' = IF mode = "swp" THEN 0 ELSE streak
             /\ linkUp' = (linkUp /\ result # "lost" /\ mode # "pnm")
    <2>1. streak' \in 0..StreakLimit
      BY <1>3, StreakAssumption DEF IInv, TypeOK
    <2>2. linkUp' \in BOOLEAN
      BY <1>3
    <2> QED BY <1>1, <1>3, <2>1, <2>2, DropInv
  <1> QED BY <1>2, <1>3 DEF Failed

LEMMA ReplyInv == ASSUME IInv, Reply PROVE IInv'
  <1> USE NobodyIsNone
  <1>1. /\ pc = "awaiting" /\ held # Nobody /\ who = held /\ who \in Owners
        /\ UNCHANGED <<parked, mode, shim, soapy>>
    BY DEF Reply, IInv, Shape, TypeOK
  <1>2. Quiet(Answered(who))
    BY <1>1, AnsweredQuiet DEF IInv
  <1>3. CASE owner[who].reply = "ok"
    <2>1. streak' \in 0..StreakLimit
      BY <1>3, StreakAssumption DEF Reply, IInv, TypeOK
    <2>2. linkUp' \in BOOLEAN
      BY <1>3 DEF Reply
    <2> QED BY <1>1, <1>2, <1>3, <2>1, <2>2, SpeakInv DEF Reply, Rest, Becomes
  <1>4. CASE owner[who].reply # "ok"
    BY <1>1, <1>2, <1>4, FailedInv DEF Reply
  <1> QED BY <1>3, <1>4

LEMMA ReplyTimesOutInv == ASSUME IInv, ReplyTimesOut PROVE IInv'
  <1> USE NobodyIsNone
  <1>1. /\ pc = "awaiting" /\ who \in Owners
        /\ UNCHANGED <<parked, mode, shim, soapy>>
    BY DEF ReplyTimesOut, IInv, Shape, TypeOK
  <1>2. Quiet(Abandoned(who))
    BY <1>1, AbandonedQuiet DEF IInv
  <1> QED BY <1>1, <1>2, FailedInv DEF ReplyTimesOut

LEMMA GivesUpInv == ASSUME IInv, GivesUp PROVE IInv'
  <1>1. Quiet(owner) /\ linkUp' \in BOOLEAN /\ streak' \in 0..StreakLimit
    BY DEF GivesUp, IInv, TypeOK, Quiet
  <1> QED BY <1>1, DropInv DEF GivesUp

LEMMA JoinedInv ==
  ASSUME "pnm" \notin Kinds, IInv, Joined \/ FinishOwner PROVE IInv'
  <1> USE NobodyIsNone
  <1>1. /\ held = Nobody /\ who \in Owners /\ parked = Nobody /\ mode # "server"
        /\ owner[who].at \notin {"free", "spawned"} /\ owner[who].kind # "pnm"
        /\ goal \in Kinds \union {"tick", "server", "quit"}
        /\ child = FALSE /\ process = None
        /\ UNCHANGED <<owner, held, streak, shim, soapy>>
    BY DEF Joined, FinishOwner, IInv, Shape, ServerAlone, Referred, TypeOK
  <1>2. child' = FALSE /\ process' = None
    BY <1>1 DEF soapy
  <1>3. \A o \in Owners : owner[o].at \notin {"free", "done"} => o = who
    BY <1>1 DEF IInv, Referred
  <1>4. PICK slot \in {Nobody, who} :
          Go(goal, slot) /\ (slot = Nobody => Finished(who))
    BY <1>1 DEF Joined, FinishOwner, Parked
  <1> QED BY <1>1, <1>2, <1>3, <1>4, GoInv DEF IInv, Finished

LEMMA SetModeInv == ASSUME IInv, NEW next \in Modes, SetMode(next) PROVE IInv'
  <1> USE NobodyIsNone
  <1>1. pc = "idle" /\ who = Nobody /\ UNCHANGED <<streak, shim, soapy>>
    BY DEF SetMode, IInv, Shape
  <1>2. CASE child /\ Becomes("term", next, Nobody) /\ UNCHANGED <<thread, mode, linkUp>>
    <2> USE DEF Becomes, thread
    <2>1. TypeOK'
      BY <1>1, <1>2 DEF IInv, TypeOK, shim, soapy
    <2>2. Referred' /\ Shape' /\ SlotEmpty'
      BY <1>1, <1>2 DEF IInv, Referred, Shape, SlotEmpty, soapy, ServerAlone
    <2>3. ActiveRuns' /\ ServerAlone'
      BY <1>1, <1>2 DEF IInv, ActiveRuns, ServerAlone, shim, soapy
    <2> QED BY <2>1, <2>2, <2>3 DEF IInv
  <1>3. CASE ~child /\ Retire(next)
    <2>1. child' = FALSE /\ process' = None
      BY <1>1, <1>3 DEF IInv, TypeOK, ServerAlone, soapy
    <2> QED BY <1>1, <1>3, <2>1, RetireInv DEF Modes
  <1> QED BY <1>2, <1>3 DEF SetMode

LEMMA QuitInv == ASSUME IInv, Quit PROVE IInv'
  <1> USE NobodyIsNone
  <1>1. pc = "idle" /\ who = Nobody /\ UNCHANGED <<streak, shim, soapy>>
    BY DEF Quit, IInv, Shape
  <1>2. CASE child /\ Becomes("term", "quit", Nobody) /\ UNCHANGED <<thread, mode, linkUp>>
    <2> USE DEF Becomes, thread
    <2>1. TypeOK'
      BY <1>1, <1>2 DEF IInv, TypeOK, shim, soapy
    <2>2. Referred' /\ Shape' /\ SlotEmpty'
      BY <1>1, <1>2 DEF IInv, Referred, Shape, SlotEmpty, soapy, ServerAlone
    <2>3. ActiveRuns' /\ ServerAlone'
      BY <1>1, <1>2 DEF IInv, ActiveRuns, ServerAlone, shim, soapy
    <2> QED BY <2>1, <2>2, <2>3 DEF IInv
  <1>3. CASE ~child /\ Retire("quit")
    <2>1. child' = FALSE /\ process' = None
      BY <1>1, <1>3 DEF IInv, TypeOK, ServerAlone, soapy
    <2> QED BY <1>1, <1>3, <2>1, RetireInv
  <1> QED BY <1>2, <1>3 DEF Quit

LEMMA ReleaseInv == ASSUME IInv, Release PROVE IInv'
  <1> USE NobodyIsNone DEF Rest, Becomes, thread
  <1>1. /\ pc = "releasing" /\ held = Nobody /\ who = Nobody /\ parked = Nobody
        /\ goal \in {"server", "quit"}
        /\ UNCHANGED <<thread, linkUp, streak, callers, active, invalidate, soapy>>
    BY DEF Release, IInv, Shape
  <1>2. active = Nobody
    BY <1>1 DEF IInv, ActiveRuns, Referred, TypeOK
  <1>3. /\ pc' \in {"idle", "ended"} /\ who' = Nobody /\ goal' \in {"tick", "quit"}
        /\ mode' \in {mode, "server"} /\ handle' \in {"null", "open"}
        /\ mode' = "server" => handle' = "null"
    <2>1. CASE handle' = "null" /\ mode' = IF goal = "server" THEN "server" ELSE mode
      BY <1>1, <2>1 DEF Release
    <2>2. CASE (active # Nobody \/ handle = "open") /\ UNCHANGED <<handle, mode>>
      BY <1>1, <1>2, <2>2 DEF Release, IInv, TypeOK, ServerAlone
    <2> QED BY <2>1, <2>2 DEF Release
  <1>4. TypeOK'
    BY <1>1, <1>3 DEF IInv, TypeOK, Modes, soapy
  <1>5. Referred' /\ Shape' /\ SlotEmpty'
    BY <1>1, <1>3 DEF IInv, Referred, Shape, SlotEmpty
  <1>6. ActiveRuns' /\ ServerAlone'
    BY <1>1, <1>2, <1>3 DEF IInv, ActiveRuns, ServerAlone, soapy
  <1> QED BY <1>4, <1>5, <1>6 DEF IInv

-----------------------------------------------------------------------------
(* SoapySDRServer.                                                         *)

LEMMA StartServerInv == ASSUME IInv, StartServer PROVE IInv'
  <1> USE NobodyIsNone
  <1>1. /\ mode = "server" /\ parked = Nobody
        /\ UNCHANGED <<owner, held, server, shim>>
        /\ parked' = Nobody /\ child' = TRUE /\ process' = "booting"
    BY DEF StartServer, IInv, ServerAlone
  <1>2. TypeOK'
    BY <1>1 DEF IInv, TypeOK, server, shim
  <1>3. Referred' /\ Shape' /\ SlotEmpty'
    BY <1>1 DEF IInv, Referred, Shape, SlotEmpty, server
  <1>4. ActiveRuns' /\ ServerAlone'
    BY <1>1 DEF IInv, ActiveRuns, ServerAlone, server, shim
  <1> QED BY <1>2, <1>3, <1>4 DEF IInv

LEMMA StopServerInv ==
  ASSUME IInv, NEW for \in {"stop", "restart", "late"}, StopServer(for) PROVE IInv'
  <1> USE NobodyIsNone DEF Becomes
  <1>1. /\ mode = "server" /\ parked = Nobody /\ held = Nobody /\ child
        /\ parked' = Nobody /\ pc' = "term" /\ goal' = for /\ who' = Nobody
        /\ UNCHANGED <<owner, held, mode, linkUp, streak, shim, soapy>>
    BY DEF StopServer, IInv, ServerAlone
  <1>2. TypeOK'
    BY <1>1 DEF IInv, TypeOK, shim, soapy
  <1>3. Referred' /\ Shape' /\ SlotEmpty'
    BY <1>1 DEF IInv, Referred, Shape, SlotEmpty, ServerAlone, soapy
  <1>4. ActiveRuns' /\ ServerAlone'
    BY <1>1 DEF IInv, ActiveRuns, ServerAlone, shim, soapy
  <1> QED BY <1>2, <1>3, <1>4 DEF IInv

LEMMA ReapedInv == ASSUME IInv, Reaped PROVE IInv'
  <1> USE NobodyIsNone
  <1>1. /\ pc \in {"term", "kill"} /\ held = Nobody /\ who = Nobody /\ child /\ mode = "server"
        /\ parked = Nobody /\ UNCHANGED <<streak, shim>>
    BY DEF Reaped, IInv, Shape, ServerAlone
  <1>2. CASE /\ Rest /\ UNCHANGED <<thread, mode, linkUp>>
             /\ \/ process' = "booting" /\ UNCHANGED child
                \/ process' = None /\ child' = FALSE
    <2> USE DEF Rest, Becomes, thread
    <2>1. TypeOK'
      BY <1>1, <1>2 DEF IInv, TypeOK, shim
    <2>2. Referred' /\ Shape' /\ SlotEmpty'
      BY <1>1, <1>2 DEF IInv, Referred, Shape, SlotEmpty
    <2>3. ActiveRuns' /\ ServerAlone'
      BY <1>1, <1>2 DEF IInv, ActiveRuns, ServerAlone, shim
    <2> QED BY <2>1, <2>2, <2>3 DEF IInv
  <1>3. CASE /\ child' = FALSE /\ process' = None
             /\ goal \in Kinds \union {"quit"} /\ Retire(goal)
    BY <1>1, <1>3, RetireInv
  <1> QED BY <1>2, <1>3 DEF Reaped

LEMMA StopTimesOutInv == ASSUME IInv, StopTimesOut PROVE IInv'
  <1> USE NobodyIsNone DEF Rest, Becomes, thread
  <1>1. /\ pc \in {"term", "kill"} /\ held = Nobody /\ who = Nobody /\ child /\ mode = "server"
        /\ UNCHANGED <<thread, mode, linkUp, streak, shim, process>>
        /\ child' = TRUE /\ pc' \in {"kill", "idle", "ended"} /\ who' = Nobody
        /\ goal' \in {goal, "tick"}
    BY DEF StopTimesOut, IInv, Shape, ServerAlone, TypeOK, Reserved
  <1>2. TypeOK'
    BY <1>1 DEF IInv, TypeOK, shim
  <1>3. Referred' /\ Shape' /\ SlotEmpty'
    BY <1>1 DEF IInv, Referred, Shape, SlotEmpty
  <1>4. ActiveRuns' /\ ServerAlone'
    BY <1>1 DEF IInv, ActiveRuns, ServerAlone, shim
  <1> QED BY <1>2, <1>3, <1>4 DEF IInv

LEMMA ProcessInv == ASSUME IInv, Poll \/ Process PROVE IInv'
  <1> USE NobodyIsNone
  <1>1. UNCHANGED <<thread, server, shim>>
    BY DEF Poll, Process
  <1>2. /\ child' \in BOOLEAN /\ process' \in {None, "booting", "ready", "dead"}
        /\ child' => child
        /\ process' # None => child'
        /\ pc \in {"term", "kill"} => child'
    BY DEF Poll, Process, Serves, IInv, TypeOK, ServerAlone, Shape, None
  <1>3. TypeOK'
    BY <1>1, <1>2 DEF IInv, TypeOK, thread, server, shim
  <1>4. Referred' /\ Shape' /\ SlotEmpty'
    BY <1>1, <1>2 DEF IInv, Referred, Shape, SlotEmpty, thread, server
  <1>5. ActiveRuns' /\ ServerAlone'
    BY <1>1, <1>2 DEF IInv, ActiveRuns, ServerAlone, thread, server, shim
  <1> QED BY <1>3, <1>4, <1>5 DEF IInv

-----------------------------------------------------------------------------
(* The theorems.                                                           *)

LEMMA StepInv ==
  ASSUME "pnm" \notin Kinds, IInv, [Next]_vars PROVE IInv'
  <1>1. CASE \E o \in Owners : OwnerStep(o)
    BY <1>1, OwnerInv
  <1>2. CASE Step
    BY <1>2, StartedInv, SentInv, ReplyInv, JoinedInv, ReleaseInv, ReapedInv DEF Step
  <1>3. CASE Timeout
    BY <1>3, StartTimesOutInv, ReplyTimesOutInv, StopTimesOutInv DEF Timeout
  <1>4. CASE Begin
    BY <1>4, StartOwnerInv, AskInv, GivesUpInv, SetModeInv, QuitInv, StartServerInv,
       StopServerInv, ProcessInv DEF Begin
  <1>5. CASE Process
    BY <1>5, ProcessInv
  <1>6. CASE UNCHANGED vars
    BY <1>6 DEF vars, IInv, TypeOK, Referred, Shape, SlotEmpty, ActiveRuns, ServerAlone
  <1> QED BY <1>1, <1>2, <1>3, <1>4, <1>5, <1>6 DEF Next

(* The places of the threads, the slot, the shim and the child are related *)
(* as IInv says, for any number of threads and any limit of failures.      *)
THEOREM InvariantHolds ==
  ASSUME "pnm" \notin Kinds PROVE Spec => []IInv
  <1>1. IInv /\ [Next]_vars => IInv'
    BY StepInv
  <1> QED BY <1>1, InitInv, PTL DEF Spec

(* Vendor sessions never overlap (hardware_swp.rs:171), whatever times out. *)
THEOREM SessionsNeverOverlap ==
  ASSUME "pnm" \notin Kinds PROVE Spec => []OneSession
  <1>1. IInv => OneSession
    <2> SUFFICES ASSUME IInv, NEW a \in Owners, NEW b \in Owners,
                        InSession(a), InSession(b), a # b
                 PROVE  FALSE
      BY DEF OneSession
    <2>1. /\ a \in {held, parked, who} /\ b \in {held, parked, who}
          /\ owner[a].told # "err" /\ owner[b].told # "err"
          /\ owner[a].at # "spawned" /\ owner[b].at # "spawned"
      BY DEF InSession, IInv, Referred
    <2>2. held = Nobody \/ who \in {held, Nobody}
      BY DEF IInv, Shape, TypeOK
    <2> QED BY <2>1, <2>2, NobodyIsNone DEF IInv, SlotEmpty
  <1> QED BY <1>1, InvariantHolds, PTL

(* No owner thread is ever lost: one that runs is held, parked or waited for. *)
THEOREM NoThreadLost ==
  ASSUME "pnm" \notin Kinds PROVE Spec => []Accounted
  <1>1. IInv => Accounted
    BY DEF IInv, Referred, Accounted
  <1> QED BY <1>1, InvariantHolds, PTL

(* The shim never has to refuse a second mode, nor a release.              *)
THEOREM ShimNeverRefuses ==
  ASSUME "pnm" \notin Kinds PROVE Spec => []NeverBusy
  <1>1. IInv /\ OneSession => NeverBusy
    <2> SUFFICES ASSUME IInv, OneSession, active # Nobody PROVE NeverBusy
      BY DEF NeverBusy
    <2>1. active \in Owners /\ InSession(active) /\ owner[active].at # "opening"
      BY DEF IInv, TypeOK, ActiveRuns, InSession
    <2>2. ASSUME NEW o \in Owners, owner[o].at = "opening" PROVE FALSE
      <3>1. InSession(o) /\ o # active
        BY <2>1, <2>2 DEF InSession
      <3> QED BY <2>1, <3>1 DEF OneSession
    <2>3. pc # "releasing"
      BY <2>1, NobodyIsNone DEF IInv, Shape, Referred, InSession
    <2> QED BY <2>2, <2>3 DEF NeverBusy
  <1> QED BY <1>1, InvariantHolds, SessionsNeverOverlap, PTL

(* While the SoapySDR child runs it has the device alone.                  *)
THEOREM ChildIsAlone ==
  ASSUME "pnm" \notin Kinds PROVE Spec => []ExclusiveServer
  <1>1. IInv => ExclusiveServer
    BY NobodyIsNone DEF IInv, ServerAlone, Referred, InSession, ExclusiveServer, Serves, None
  <1> QED BY <1>1, InvariantHolds, PTL

-----------------------------------------------------------------------------
(* The IQ capture: what a packet says, where things are, the chain.        *)

Real(p) == p.stamp # -1

(* What a packet says of its settings is what it was fetched under.        *)
Honest(p) == p.gen = p.conf /\ p.gen <= settings

PacketsHonest ==
  /\ settings = device /\ generation <= settings
  /\ Honest(pending) /\ Honest(got)
  /\ \A i \in 1..Len(packets) : Honest(packets[i]) /\ Real(packets[i])

(* Where the owner and the DSP thread are when a packet is in their hands. *)
InHands ==
  \/ place \in {"holding", "full", "late"}
  \/ place = "serving" /\ back = "late"
MayHold == InHands \/ place \in {"rejected", "closing", "gone"}

Places ==
  /\ InHands => Real(pending)
  /\ Real(pending) => MayHold
  /\ Real(got) <=> dsp = "check"
  /\ closed => dsp \in {"drop", "done"}
  /\ barred => dsp \in {"idle", "drop", "done"}
  /\ place = "arming" => dsp = "arm" \/ barred
  /\ place = "serving" \/ job = NoJob

(* The reconfigure that the DSP thread waits for.                          *)
Waiting  == \E i \in 1..Len(requests) : requests[i].kind = "reconfigure"
Serving  == job.kind = "reconfigure"
HasAnswer == \E a \in answers : a.to.kind = "reconfigure"

OnePlace ==
  /\ Waiting \/ Serving \/ HasAnswer => dsp = "await"
  /\ Waiting => ~Serving /\ ~HasAnswer
  /\ Serving => ~HasAnswer
  /\ \A i \in 1..Len(requests) :
       requests[i].kind = "reconfigure" => requests[i].id = asked
  /\ Serving => job.id = asked
  /\ \A a \in answers : a.to.kind = "reconfigure" =>
       a.to.id = asked /\ (a.ok => a.gen = settings)

Outstanding == ~barred => OnePlace /\ (HasAnswer \/ settings = generation)

(* The chain of packets.                                                   *)
Follows(p, q) == p.gen <= q.gen /\ (p.gen = q.gen /\ q.whole => q.stamp = p.stamp + 1)
Coming == [gen |-> settings, conf |-> device, stamp |-> stamp, whole |-> ~lost]
Plan == [gen |-> generation, conf |-> generation, stamp |-> last, whole |-> TRUE]
AfterPackets == IF Real(pending) THEN pending ELSE Coming
AfterGot == IF packets # <<>> THEN packets[1] ELSE AfterPackets
AfterPlan == IF Real(got) THEN got ELSE AfterGot

Chain ==
  /\ Real(Plan) => Follows(Plan, AfterPlan)
  /\ Real(got) => Follows(got, AfterGot)
  /\ \A i \in 1..(Len(packets) - 1) : Follows(packets[i], packets[i + 1])
  /\ packets # <<>> => Follows(packets[Len(packets)], AfterPackets)
  /\ Real(pending) => Follows(pending, Coming)

Running == ~barred /\ error = "none" /\ ~closed
Linked == Running => Chain

Past ==
  /\ failed => error # "none"
  /\ NoStaleIQ /\ NoFalseGap /\ NothingLate

CaptureInv == CaptureTypeOK /\ PacketsHonest /\ Places /\ Outstanding /\ Linked /\ Past

(* Initially nothing has been fetched, asked or answered.                  *)
LEMMA CaptureInitHolds == CaptureInit => CaptureInv
  <1> SUFFICES ASSUME CaptureInit PROVE CaptureInv
    OBVIOUS
  <1>1. /\ NoPacket \in Packet /\ NoJob \in Job
        /\ ~Real(NoPacket) /\ NoPacket.gen = 0 /\ NoPacket.conf = 0
    <2>1. NoPacket \in Packet /\ NoJob \in Job
      BY DEF NoPacket, Packet, NoJob, Job
    <2>2. NoPacket.stamp = -1 /\ NoPacket.gen = 0 /\ NoPacket.conf = 0
      BY DEF NoPacket
    <2> QED BY <2>1, <2>2 DEF Real
  <1>2. CaptureTypeOK
    <2>1. pending \in Packet /\ got \in Packet /\ job \in Job
      BY <1>1 DEF CaptureInit
    <2>2. /\ packets \in Seq(Packet) /\ Len(packets) <= PacketQueue
          /\ requests \in Seq(Job) /\ Len(requests) <= 1
      BY CaptureAssumption DEF CaptureInit
    <2>3. /\ settings \in Nat /\ device \in Nat /\ stamp \in Nat /\ generation \in Nat
          /\ query \in Nat /\ fetched \in Nat /\ asked \in Nat /\ last \in Int
      BY DEF CaptureInit
    <2>4. /\ answers \subseteq [to : Job, ok : BOOLEAN, gen : Nat]
          /\ taken \subseteq [conf : Nat, as : Nat, late : BOOLEAN]
      BY DEF CaptureInit
    <2>5. /\ stop \in BOOLEAN /\ closed \in BOOLEAN /\ armed \in BOOLEAN /\ barred \in BOOLEAN
          /\ lost \in BOOLEAN /\ failed \in BOOLEAN /\ gap \in BOOLEAN
      BY DEF CaptureInit
    <2> QED BY <2>1, <2>2, <2>3, <2>4, <2>5 DEF CaptureInit, CaptureTypeOK
  <1>3. PacketsHonest /\ Places
    <2>1. ~Real(pending) /\ ~Real(got)
      BY <1>1 DEF CaptureInit, Real
    <2>2. Honest(pending) /\ Honest(got)
      BY <1>1 DEF CaptureInit, Honest
    <2> QED BY <2>1, <2>2 DEF CaptureInit, PacketsHonest, Places, MayHold, InHands
  <1>4. Outstanding
    BY DEF CaptureInit, Outstanding, OnePlace, Waiting, Serving, HasAnswer, NoJob
  <1>5. Linked
    <2>1. ~Real(pending) /\ ~Real(got) /\ ~Real(Plan) /\ packets = <<>>
      BY <1>1 DEF CaptureInit, Real, Plan
    <2>2. 1..(Len(packets) - 1) = {}
      BY <2>1
    <2> QED BY <2>1, <2>2 DEF Linked, Chain
  <1>6. Past
    BY DEF CaptureInit, Past, NoStaleIQ, NoFalseGap, NothingLate
  <1> QED BY <1>2, <1>3, <1>4, <1>5, <1>6 DEF CaptureInv

(* Every step of the three threads keeps the types.                        *)
LEMMA TypeStep ==
  ASSUME CaptureTypeOK, [CaptureNext]_captureVars PROVE CaptureTypeOK'
  <1> USE DEF CaptureTypeOK, own, shared, plan, ddc, reader, past
  <1>1. CASE WaitForArm
    BY <1>1 DEF WaitForArm, Leave
  <1>2. CASE Armed
    <2>1. CASE place' = "top" /\ UNCHANGED <<error, stop, barred>>
      BY <1>2, <2>1 DEF Armed
    <2>2. CASE Leave("vendor") /\ barred' = TRUE /\ stop' = (stop \/ dsp = "arm")
      <3>1. stop' \in BOOLEAN
        BY <2>2
      <3> QED BY <1>2, <2>2, <3>1 DEF Armed, Leave
    <2> QED BY <1>2, <2>1, <2>2 DEF Armed
  <1>3. CASE Serve
    <2>1. job' \in Job /\ requests' \in Seq(Job) /\ Len(requests') <= 1
      BY <1>3 DEF Serve
    <2>2. place' = "serving" /\ back' \in {"waiting", "top", "late"}
      BY <1>3 DEF Serve
    <2> QED BY <1>3, <2>1, <2>2 DEF Serve
  <1>4. CASE ServeGnss
    <2>1. [to |-> job, ok |-> TRUE, gen |-> 0] \in [to : Job, ok : BOOLEAN, gen : Nat]
      OBVIOUS
    <2>2. answers' \subseteq [to : Job, ok : BOOLEAN, gen : Nat]
      BY <1>4, <2>1 DEF ServeGnss
    <2>3. NoJob \in Job
      BY DEF NoJob, Job
    <2> QED BY <1>4, <2>2, <2>3 DEF ServeGnss
  <1>5. CASE ServeReconfigure
    <2>1. /\ settings + 1 \in Nat
          /\ [to |-> job, ok |-> TRUE, gen |-> settings + 1] \in [to : Job, ok : BOOLEAN, gen : Nat]
          /\ [to |-> job, ok |-> FALSE, gen |-> 0] \in [to : Job, ok : BOOLEAN, gen : Nat]
      OBVIOUS
    <2>2. NoJob \in Job
      BY DEF NoJob, Job
    <2>3. CASE /\ settings' = settings + 1 /\ device' = settings + 1 /\ stamp' = 0
               /\ lost' = FALSE /\ place' = back
               /\ answers' = answers \cup {[to |-> job, ok |-> TRUE, gen |-> settings + 1]}
      <3>1. answers' \subseteq [to : Job, ok : BOOLEAN, gen : Nat]
        BY <2>1, <2>3
      <3>2. settings' \in Nat /\ device' \in Nat /\ stamp' \in Nat
            /\ lost' \in BOOLEAN
            /\ place' \in {"waiting", "arming", "top", "fetching", "holding", "full",
                           "late", "serving", "rejected", "closing", "gone"}
        BY <2>1, <2>3
      <3>3. /\ job' \in Job
            /\ UNCHANGED <<back, pending, packets, requests, error, stop, closed, ddc,
                           reader, fetched, asked, taken, failed, gap>>
        BY <1>5, <2>2, <2>3 DEF ServeReconfigure
      <3> QED BY <3>1, <3>2, <3>3
    <2>4. CASE /\ place' = "rejected" /\ UNCHANGED <<settings, device, stamp, lost>>
               /\ answers' = answers \cup {[to |-> job, ok |-> FALSE, gen |-> 0]}
      <3>1. answers' \subseteq [to : Job, ok : BOOLEAN, gen : Nat]
        BY <2>1, <2>4
      <3> QED BY <1>5, <2>2, <2>4, <3>1 DEF ServeReconfigure
    <2> QED BY <1>5, <2>3, <2>4 DEF ServeReconfigure
  <1>6. CASE Closed
    BY <1>6 DEF Closed
  <1>7. CASE Rejected
    BY <1>7 DEF Rejected, Leave
  <1>8. CASE Top
    <2>1. place' \in {"fetching", "closing"} /\ error' = error
      BY <1>8 DEF Top, Leave
    <2> QED BY <1>8, <2>1 DEF Top
  <1>9. CASE Fetched
    <2>1. [gen |-> settings, conf |-> device, stamp |-> stamp, whole |-> ~lost] \in Packet
      BY DEF Packet
    <2>2. pending' \in Packet
      BY <1>9, <2>1 DEF Fetched
    <2>3. fetched' \in Nat /\ stamp' \in Nat
      BY <1>9 DEF Fetched
    <2>4. lost' \in BOOLEAN
      BY <1>9 DEF Fetched
    <2>5. /\ place' \in {"holding", "top", "closing"}
          /\ error' \in {"none", "vendor", "stall", "backlog", "late"}
      BY <1>9 DEF Fetched, Leave
    <2> QED BY <1>9, <2>2, <2>3, <2>4, <2>5 DEF Fetched
  <1>10. CASE Enqueue
    <2>0. NoPacket \in Packet
      BY DEF NoPacket, Packet
    <2>1. packets' \in Seq(Packet) /\ Len(packets') <= PacketQueue
      BY <1>10, CaptureAssumption DEF Enqueue, Leave, Tagged
    <2>2. pending' \in Packet /\ place' \in {"top", "full", "closing"} /\ error' = error
      BY <1>10, <2>0 DEF Enqueue, Leave
    <2> QED BY <1>10, <2>1, <2>2 DEF Enqueue
  <1>11. CASE Full
    BY <1>11 DEF Full, Leave, KeepOnFull
  <1>12. CASE Arm
    <2>1. CASE error # "none"
      BY <1>12, <2>1 DEF Arm
    <2>2. CASE ~(error # "none")
      BY <1>12, <2>2 DEF Arm
    <2> QED BY <2>1, <2>2
  <1>13. CASE ArmTimeout
    BY <1>13 DEF ArmTimeout, CallFails
  <1>14. CASE Next1
    <2>1. CASE error # "none"
      BY <1>14, <2>1 DEF Next1
    <2>2. CASE ~(error # "none")
      BY <1>14, <2>2 DEF Next1
    <2> QED BY <2>1, <2>2
  <1>15. CASE Recv
    <2>1. CASE packets # <<>> /\ got' = Head(packets) /\ packets' = Tail(packets) /\ dsp' = "check"
      <3>1. /\ Head(packets) \in Packet /\ Tail(packets) \in Seq(Packet)
            /\ Len(Tail(packets)) <= PacketQueue
        BY <2>1, CaptureAssumption
      <3> QED BY <1>15, <2>1, <3>1 DEF Recv
    <2>2. CASE dsp' = "empty" /\ UNCHANGED <<got, packets>>
      BY <1>15, <2>2 DEF Recv
    <2> QED BY <1>15, <2>1, <2>2 DEF Recv
  <1>16. CASE RecvTimeout
    BY <1>16 DEF RecvTimeout
  <1>17. CASE CheckPacket
    <2>0. NoPacket \in Packet /\ got \in Packet
      BY DEF NoPacket, Packet
    <2>1. CASE error # "none"
      <3>1. /\ dsp' = "idle" /\ failed' = TRUE /\ got' = NoPacket
            /\ UNCHANGED <<last, taken, gap, barred>>
        BY <1>17, <2>1 DEF CheckPacket
      <3> QED BY <1>17, <2>0, <3>1 DEF CheckPacket
    <2>2. CASE error = "none" /\ got.gen < generation
      BY <1>17, <2>0, <2>2 DEF CheckPacket, Packet
    <2>3. CASE error = "none" /\ ~(got.gen < generation)
      <3>0. got.gen \in Nat /\ got.conf \in Nat /\ got.stamp \in Int /\ got.whole \in BOOLEAN
        BY DEF Packet
      <3>1. CASE last # -1 /\ got.stamp # last + 1
        <4>1. gap' \in BOOLEAN /\ barred' = TRUE /\ last' = last /\ taken' = taken
          BY <1>17, <2>3, <3>0, <3>1 DEF CheckPacket
        <4>2. dsp' = "idle" /\ failed' = failed
          BY <1>17, <2>3, <3>0 DEF CheckPacket
        <4> QED BY <1>17, <2>0, <4>1, <4>2 DEF CheckPacket
      <3>2. CASE ~(last # -1 /\ got.stamp # last + 1)
        <4>1. last' \in Int /\ taken' \subseteq [conf : Nat, as : Nat, late : BOOLEAN]
          BY <1>17, <2>3, <3>0, <3>2 DEF CheckPacket
        <4>2. dsp' = "idle" /\ failed' = failed /\ gap' = gap /\ barred' = barred
          BY <1>17, <2>3, <3>0, <3>2 DEF CheckPacket
        <4> QED BY <1>17, <2>0, <4>1, <4>2 DEF CheckPacket
      <3> QED BY <3>1, <3>2
    <2> QED BY <1>17, <2>1, <2>2, <2>3 DEF CheckPacket
  <1>18. CASE Empty
    <2>1. CASE error # "none"
      BY <1>18, <2>1 DEF Empty
    <2>2. CASE ~(error # "none")
      BY <1>18, <2>2 DEF Empty
    <2> QED BY <2>1, <2>2
  <1>19. CASE BlameWait
    BY <1>19 DEF BlameWait, Blame
  <1>20. CASE Reconfigure
    <2>1. CASE error # "none"
      BY <1>20, <2>1 DEF Reconfigure
    <2>2. CASE ~(error # "none")
      BY <1>20, <2>2 DEF Reconfigure
    <2> QED BY <2>1, <2>2
  <1>21. CASE Admit
    <2>1. CASE place = "gone"
      BY <1>21, <2>1 DEF Admit, CallFails
    <2>2. CASE place # "gone"
      <3>1. Request("reconfigure") \in Job
        BY DEF Request, Job
      <3> QED BY <1>21, <2>2, <3>1 DEF Admit, Slot
    <2> QED BY <2>1, <2>2
  <1>22. CASE Await
    <2>1. answers' \subseteq answers
      BY <1>22 DEF Await
    <2>2. generation' \in Nat /\ last' \in Int
      <3>1. \A a \in Answers(Request("reconfigure")) : a.gen \in Nat
        BY DEF Answers
      <3> QED BY <1>22, <3>1 DEF Await
    <2>3. barred' \in BOOLEAN /\ stop' \in BOOLEAN
      BY <1>22 DEF Await, CallFails
    <2>4. error' \in {error, "late"} /\ dsp' = "idle"
      BY <1>22 DEF Await, CallFails
    <2> QED BY <1>22, <2>1, <2>2, <2>3, <2>4 DEF Await
  <1>23. CASE CallTimeout
    BY <1>23 DEF CallTimeout, CallFails
  <1>24. CASE DropCapture
    BY <1>24 DEF DropCapture, Closes
  <1>25. CASE Dropped
    BY <1>25 DEF Dropped
  <1>26. CASE Park
    BY <1>26 DEF Park
  <1>27. CASE Query
    BY <1>27 DEF Query
  <1>28. CASE QueryAdmit
    <2>1. CASE place = "gone"
      BY <1>28, <2>1 DEF QueryAdmit
    <2>2. CASE place # "gone"
      <3>1. Request("gnss") \in Job
        BY DEF Request, Job
      <3> QED BY <1>28, <2>2, <3>1 DEF QueryAdmit, Slot
    <2> QED BY <2>1, <2>2
  <1>29. CASE QueryAnswer
    BY <1>29 DEF QueryAnswer
  <1>30. CASE QueryTimeout
    BY <1>30 DEF QueryTimeout
  <1>31. CASE UNCHANGED captureVars
    BY <1>31 DEF captureVars
    <1> QED BY <1>1, <1>2, <1>3, <1>4, <1>5, <1>6, <1>7, <1>8, <1>9, <1>10,
         <1>11, <1>12, <1>13, <1>14, <1>15, <1>16, <1>17, <1>18, <1>19, <1>20,
         <1>21, <1>22, <1>23, <1>24, <1>25, <1>26, <1>27, <1>28, <1>29, <1>30,
         <1>31
      DEF CaptureNext, OwnStep, Vendor, DspStep, DspTimeout, DspCall, ReaderStep

(* What typed packets are made of.                                         *)
LEMMA PacketFacts ==
  ASSUME CaptureTypeOK
  PROVE  /\ pending \in Packet /\ got \in Packet
         /\ \A p \in Packet : /\ p.gen \in Nat /\ p.conf \in Nat
                             /\ p.stamp \in Int /\ p.whole \in BOOLEAN
         /\ \A i \in 1..Len(packets) : packets[i] \in Packet
  <1>1. pending \in Packet /\ got \in Packet /\ packets \in Seq(Packet)
    BY DEF CaptureTypeOK
  <1>2. \A p \in Packet : /\ p.gen \in Nat /\ p.conf \in Nat
                          /\ p.stamp \in Int /\ p.whole \in BOOLEAN
    BY DEF Packet
  <1>3. \A i \in 1..Len(packets) : packets[i] \in Packet
    BY <1>1, ElementOfSeq
  <1> QED BY <1>1, <1>2, <1>3

(* A packet's generation is the one it was fetched under, wherever it is;  *)
(* a reconfigure changes what comes next, never a packet that was fetched. *)
LEMMA HonestStep ==
  ASSUME CaptureInv, [CaptureNext]_captureVars PROVE PacketsHonest'
  <1> USE DEF CaptureInv, CaptureTypeOK, own, shared, plan, ddc, reader, past
  <1>0. /\ pending \in Packet /\ got \in Packet
        /\ \A p \in Packet : p.gen \in Nat /\ p.conf \in Nat
        /\ \A i \in 1..Len(packets) : packets[i] \in Packet
    BY PacketFacts
  <1>1. CASE UNCHANGED <<settings, device, generation, pending, got, packets>>
    BY <1>1 DEF PacketsHonest, Honest
  <1>2. CASE ServeReconfigure
    <2>1. UNCHANGED <<generation, pending, got, packets>> /\ settings' = device'
      BY <1>2 DEF ServeReconfigure, PacketsHonest
    <2>2. settings' \in {settings, settings + 1}
      BY <1>2 DEF ServeReconfigure
    <2>3. \A n \in Nat : n <= settings => n <= settings'
      BY <2>2
    <2> QED BY <1>0, <2>1, <2>3 DEF PacketsHonest, Honest
  <1>3. CASE Fetched
    <2>1. UNCHANGED <<settings, device, generation, got, packets>>
      BY <1>3 DEF Fetched
    <2>2. pending' = pending \/ pending' = Coming
      BY <1>3 DEF Fetched, Coming
    <2>3. Coming.gen = settings /\ Coming.conf = device
      BY DEF Coming
    <2> QED BY <2>1, <2>2, <2>3 DEF PacketsHonest, Honest
  <1>4. CASE Enqueue
    <2>1. UNCHANGED <<settings, device, generation, got>>
      BY <1>4 DEF Enqueue
    <2>2. Honest(NoPacket)
      BY DEF Honest, NoPacket
    <2>3. CASE packets' = Append(packets, pending) /\ pending' = NoPacket /\ place = "holding"
      <3>1. Honest(pending) /\ Real(pending)
        BY <2>3 DEF PacketsHonest, Places, InHands
      <3> QED BY <2>1, <2>2, <2>3, <3>1 DEF PacketsHonest, Honest
    <2>4. CASE packets' = packets /\ pending' \in {pending, NoPacket}
      BY <2>1, <2>2, <2>4 DEF PacketsHonest, Honest
    <2> QED BY <1>4, <2>3, <2>4 DEF Enqueue, Tagged
  <1>5. CASE Recv
    <2>1. UNCHANGED <<settings, device, generation, pending>>
      BY <1>5 DEF Recv
    <2>2. CASE packets # <<>> /\ got' = Head(packets) /\ packets' = Tail(packets)
      <3>1. got' = packets[1] /\ 1 \in 1..Len(packets)
        BY <2>2
      <3>2. \A i \in 1..Len(packets') : i + 1 \in 1..Len(packets) /\ packets'[i] = packets[i + 1]
        BY <2>2
      <3> QED BY <2>1, <3>1, <3>2 DEF PacketsHonest, Honest
    <2>3. CASE UNCHANGED <<got, packets>>
      BY <2>1, <2>3 DEF PacketsHonest, Honest
    <2> QED BY <1>5, <2>2, <2>3 DEF Recv
  <1>6. CASE CheckPacket
    <2>1. UNCHANGED <<settings, device, generation, pending, packets>> /\ got' = NoPacket
      BY <1>6 DEF CheckPacket
    <2>2. Honest(NoPacket)
      BY DEF Honest, NoPacket
    <2> QED BY <2>1, <2>2 DEF PacketsHonest, Honest
  <1>7. CASE Await
    <2>1. UNCHANGED <<settings, device, pending, got, packets>>
      BY <1>7 DEF Await
    <2>2. generation' <= settings
      <3>1. CASE UNCHANGED generation
        BY <3>1 DEF PacketsHonest
      <3>2. ASSUME NEW a \in Answers(Request("reconfigure")), a.ok, generation' = a.gen
            PROVE  generation' <= settings
        <4>1. OnePlace
          BY <1>7 DEF Await, Places, Outstanding
        <4>2. a \in answers /\ a.to.kind = "reconfigure"
          BY DEF Answers, Request
        <4>3. a.gen = settings
          BY <3>2, <4>1, <4>2 DEF OnePlace
        <4> QED BY <3>2, <4>3
      <3> QED BY <1>7, <3>1, <3>2 DEF Await
    <2> QED BY <2>1, <2>2 DEF PacketsHonest, Honest
  <1>8. CaptureNext => \/ UNCHANGED <<settings, device, generation, pending, got, packets>>
                       \/ ServeReconfigure \/ Fetched \/ Enqueue \/ Recv \/ CheckPacket \/ Await
    BY DEF CaptureNext, OwnStep, Vendor, DspStep, DspTimeout, DspCall, ReaderStep, WaitForArm,
       Armed, Serve, ServeGnss, Closed, Rejected, Top, Full, Arm, ArmTimeout, Next1,
       RecvTimeout, Empty, BlameWait, Reconfigure, Admit, CallTimeout, DropCapture, Dropped,
       Park, Query, QueryAdmit, QueryAnswer, QueryTimeout
  <1> QED BY <1>1, <1>2, <1>3, <1>4, <1>5, <1>6, <1>7, <1>8 DEF captureVars

(* A packet is in the owner's or the plan's hands only where the code has  *)
(* one there, and a Ddc that is barred makes no more calls.                *)
LEMMA PlacesStep ==
  ASSUME CaptureInv, [CaptureNext]_captureVars PROVE Places'
  <1> USE DEF CaptureInv, Places, MayHold, InHands, Real, own, shared, plan, ddc, reader, past
  <1>1. CASE WaitForArm
    BY <1>1 DEF WaitForArm, Leave
  <1>2. CASE Armed
    BY <1>2 DEF Armed, Leave
  <1>3. CASE Serve
    BY <1>3 DEF Serve
  <1>4. CASE ServeGnss
    <2>1. place' = back /\ job' = NoJob /\ UNCHANGED <<back, pending, got, dsp, barred, closed>>
      BY <1>4 DEF ServeGnss
    <2>2. place = "serving"
      BY <1>4 DEF ServeGnss
    <2>3. back \in {"waiting", "top", "late"}
      BY DEF CaptureTypeOK
    <2> QED BY <2>1, <2>2, <2>3
  <1>5. CASE ServeReconfigure
    <2>1. place' \in {back, "rejected"} /\ job' = NoJob /\ UNCHANGED <<back, pending, got, dsp, barred, closed>>
      BY <1>5 DEF ServeReconfigure
    <2>2. place = "serving"
      BY <1>5 DEF ServeReconfigure
    <2>3. back \in {"waiting", "top", "late"}
      BY DEF CaptureTypeOK
    <2> QED BY <2>1, <2>2, <2>3
  <1>6. CASE Closed
    BY <1>6 DEF Closed
  <1>7. CASE Rejected
    BY <1>7 DEF Rejected, Leave
  <1>8. CASE Top
    BY <1>8 DEF Top, Leave
  <1>9. CASE Fetched
    <2>1. place' \in {"holding", "top", "closing"} /\ UNCHANGED <<back, got, dsp, barred, job, closed>>
      BY <1>9 DEF Fetched, Leave
    <2>2. IF place' = "holding" THEN pending' = Coming ELSE pending' = pending
      BY <1>9 DEF Fetched, Leave, Coming
    <2>3. Real(Coming)
      <3>1. Coming.stamp = stamp
        BY DEF Coming
      <3> QED BY <3>1 DEF CaptureTypeOK
    <2>4. place = "fetching" /\ ~Real(pending)
      BY <1>9 DEF Fetched
    <2> QED BY <2>1, <2>2, <2>3, <2>4
  <1>10. CASE Enqueue
    <2>1. /\ place' \in {"top", "full", "closing"} /\ place = "holding"
          /\ UNCHANGED <<back, got, dsp, barred, job, closed>>
      BY <1>10 DEF Enqueue, Leave
    <2>2. IF place' = "full" THEN pending' = pending ELSE pending' = NoPacket
      BY <1>10 DEF Enqueue, Leave
    <2>3. ~Real(NoPacket)
      BY DEF NoPacket
    <2> QED BY <2>1, <2>2, <2>3
  <1>11. CASE Full
    BY <1>11 DEF Full, Leave, KeepOnFull
  <1>12. CASE Arm
    BY <1>12 DEF Arm
  <1>13. CASE ArmTimeout
    BY <1>13 DEF ArmTimeout, CallFails
  <1>14. CASE Next1
    BY <1>14 DEF Next1
  <1>15. CASE Recv
    <2>1. UNCHANGED <<place, back, pending, barred, job, closed>> /\ dsp = "recv"
      BY <1>15 DEF Recv
    <2>2. CASE packets # <<>> /\ got' = Head(packets) /\ dsp' = "check"
      <3>1. got' = packets[1] /\ 1 \in 1..Len(packets)
        BY <2>2 DEF CaptureTypeOK
      <3>2. Real(got')
        BY <3>1 DEF PacketsHonest
      <3> QED BY <2>1, <2>2, <3>2
    <2>3. CASE dsp' = "empty" /\ UNCHANGED got
      BY <2>1, <2>3
    <2> QED BY <1>15, <2>2, <2>3 DEF Recv
  <1>16. CASE RecvTimeout
    BY <1>16 DEF RecvTimeout
  <1>17. CASE CheckPacket
    <2>1. got' = NoPacket /\ UNCHANGED <<place, back, pending, job, closed>>
      BY <1>17 DEF CheckPacket
    <2>2. dsp' \in {"idle", "recv"} /\ (dsp' = "idle" \/ barred' = barred) /\ dsp = "check"
      BY <1>17 DEF CheckPacket
    <2>3. ~Real(NoPacket)
      BY DEF NoPacket
    <2> QED BY <2>1, <2>2, <2>3
  <1>18. CASE Empty
    BY <1>18 DEF Empty
  <1>19. CASE BlameWait
    BY <1>19 DEF BlameWait, Blame
  <1>20. CASE Reconfigure
    BY <1>20 DEF Reconfigure
  <1>21. CASE Admit
    BY <1>21 DEF Admit, Request, CallFails, Slot
  <1>22. CASE Await
    BY <1>22 DEF Await, Answers, Request, CallFails
  <1>23. CASE CallTimeout
    BY <1>23 DEF CallTimeout, CallFails, Covered, Slot, Answers, Request
  <1>24. CASE DropCapture
    BY <1>24 DEF DropCapture, Closes
  <1>25. CASE Dropped
    BY <1>25 DEF Dropped
  <1>26. CASE Park
    BY <1>26 DEF Park
  <1>27. CASE Query
    BY <1>27 DEF Query
  <1>28. CASE QueryAdmit
    BY <1>28 DEF QueryAdmit, Request, Slot
  <1>29. CASE QueryAnswer
    BY <1>29 DEF QueryAnswer, Answers, Request
  <1>30. CASE QueryTimeout
    BY <1>30 DEF QueryTimeout, Covered, Slot, Answers, Request
  <1>31. CASE UNCHANGED captureVars
    BY <1>31 DEF captureVars
    <1> QED BY <1>1, <1>2, <1>3, <1>4, <1>5, <1>6, <1>7, <1>8, <1>9, <1>10,
         <1>11, <1>12, <1>13, <1>14, <1>15, <1>16, <1>17, <1>18, <1>19, <1>20,
         <1>21, <1>22, <1>23, <1>24, <1>25, <1>26, <1>27, <1>28, <1>29, <1>30,
         <1>31
      DEF CaptureNext, OwnStep, Vendor, DspStep, DspTimeout, DspCall, ReaderStep

(* The reconfigure the DSP thread waits for is in one place, and its       *)
(* answer carries the settings that the owner has by then.                 *)
LEMMA OutstandingStep ==
  ASSUME CaptureInv, [CaptureNext]_captureVars PROVE Outstanding'
  <1> USE DEF CaptureInv, CaptureTypeOK, Places, Outstanding, OnePlace, Waiting, Serving, HasAnswer, own, shared, plan, ddc, reader, past
  <1>1. CASE WaitForArm
    BY <1>1 DEF WaitForArm, Leave
  <1>2. CASE Armed
    BY <1>2 DEF Armed, Leave
  <1>3. CASE Serve
    BY <1>3 DEF Serve
  <1>4. CASE ServeGnss
    <2>1. /\ UNCHANGED <<requests, dsp, asked, barred, settings, generation>>
          /\ job' = NoJob /\ job.kind = "gnss"
      BY <1>4 DEF ServeGnss
    <2>2. answers' = answers \cup {[to |-> job, ok |-> TRUE, gen |-> 0]}
      BY <1>4 DEF ServeGnss
    <2>3. \A a \in answers' : a.to.kind = "reconfigure" => a \in answers
      BY <2>1, <2>2
    <2>4. answers \subseteq answers' /\ ~Serving /\ ~Serving'
      BY <2>1, <2>2 DEF NoJob
    <2> QED BY <2>1, <2>3, <2>4
  <1>5. CASE ServeReconfigure
    <2>1. UNCHANGED <<requests, dsp, asked, barred, generation>> /\ job' = NoJob /\ Serving
      BY <1>5 DEF ServeReconfigure
    <2>2. PICK b : answers' = answers \cup {b} /\ b.to = job /\ (b.ok => b.gen = settings')
      <3>1. CASE /\ settings' = settings + 1
                 /\ answers' = answers \cup {[to |-> job, ok |-> TRUE, gen |-> settings + 1]}
        <4> DEFINE b == [to |-> job, ok |-> TRUE, gen |-> settings + 1]
        <4>1. b.to = job /\ b.gen = settings' /\ answers' = answers \cup {b}
          BY <3>1
        <4> HIDE DEF b
        <4> QED BY <4>1
      <3>2. CASE answers' = answers \cup {[to |-> job, ok |-> FALSE, gen |-> 0]}
        <4> DEFINE b == [to |-> job, ok |-> FALSE, gen |-> 0]
        <4>1. b.to = job /\ ~b.ok /\ answers' = answers \cup {b}
          BY <3>2
        <4> HIDE DEF b
        <4> QED BY <4>1
      <3> QED BY <1>5, <3>1, <3>2 DEF ServeReconfigure
    <2> SUFFICES ASSUME ~barred PROVE OnePlace' /\ HasAnswer'
      BY <2>1
    <2>3. dsp = "await" /\ ~Waiting /\ ~HasAnswer /\ job.id = asked
      BY <2>1
    <2>4. ~Serving'
      BY <2>1 DEF NoJob
    <2>5. HasAnswer'
      BY <2>1, <2>2
    <2>6. \A a \in answers' : a.to.kind = "reconfigure" => a = b
      BY <2>2, <2>3
    <2> QED BY <2>1, <2>2, <2>3, <2>4, <2>5, <2>6
  <1>6. CASE Closed
    BY <1>6 DEF Closed
  <1>7. CASE Rejected
    BY <1>7 DEF Rejected, Leave
  <1>8. CASE Top
    BY <1>8 DEF Top, Leave
  <1>9. CASE Fetched
    BY <1>9 DEF Fetched, Leave
  <1>10. CASE Enqueue
    BY <1>10 DEF Enqueue, Leave, Tagged
  <1>11. CASE Full
    BY <1>11 DEF Full, Leave, KeepOnFull
  <1>12. CASE Arm
    BY <1>12 DEF Arm
  <1>13. CASE ArmTimeout
    BY <1>13 DEF ArmTimeout, CallFails
  <1>14. CASE Next1
    BY <1>14 DEF Next1
  <1>15. CASE Recv
    BY <1>15 DEF Recv
  <1>16. CASE RecvTimeout
    BY <1>16 DEF RecvTimeout
  <1>17. CASE CheckPacket
    BY <1>17 DEF CheckPacket
  <1>18. CASE Empty
    BY <1>18 DEF Empty
  <1>19. CASE BlameWait
    BY <1>19 DEF BlameWait, Blame
  <1>20. CASE Reconfigure
    BY <1>20 DEF Reconfigure
  <1>21. CASE Admit
    BY <1>21 DEF Admit, Request, CallFails, Slot
  <1>22. CASE Await
    <2>1. UNCHANGED <<requests, job, asked, settings>> /\ dsp' = "idle"
      BY ONLY <1>22 DEF Await, CallFails, own, past
    <2> SUFFICES ASSUME ~barred' PROVE OnePlace' /\ settings' = generation'
      OBVIOUS
    <2> DEFINE mine == Answers(Request("reconfigure"))
    <2>0. CallFails => barred'
      BY DEF CallFails
    <2>2. PICK a \in mine :
            /\ answers' = answers \ mine
            /\ IF a.ok THEN generation' = a.gen /\ UNCHANGED barred ELSE barred' = TRUE
      <3> HIDE DEF mine
      <3>1. \/ \E a \in mine :
               /\ answers' = answers \ mine
               /\ IF a.ok THEN generation' = a.gen /\ UNCHANGED barred ELSE barred' = TRUE
            \/ CallFails
        BY ONLY <1>22 DEF Await, mine
      <3> QED BY <2>0, <3>1
    <2>a. a.ok /\ generation' = a.gen /\ ~barred
      BY <2>2
    <2>3. a \in answers /\ a.to.kind = "reconfigure"
      BY DEF Answers, Request
    <2>4. ~Waiting /\ ~Serving /\ a.gen = settings
      BY <2>2, <2>3, <2>a
    <2>5. ~HasAnswer'
      <3>1. ASSUME NEW c \in answers, c.to.kind = "reconfigure" PROVE c \in Answers(Request("reconfigure"))
        <4>1. c.to.id = asked /\ c.to \in Job
          BY <2>a, <3>1
        <4>2. c.to = Request("reconfigure")
          BY <3>1, <4>1 DEF Request, Job
        <4> QED BY <4>2 DEF Answers
      <3> QED BY <2>2, <3>1
    <2> QED BY <2>1, <2>a, <2>2, <2>4, <2>5
  <1>23. CASE CallTimeout
    BY <1>23 DEF CallTimeout, CallFails, Covered, Slot, Answers, Request
  <1>24. CASE DropCapture
    BY <1>24 DEF DropCapture, Closes
  <1>25. CASE Dropped
    BY <1>25 DEF Dropped
  <1>26. CASE Park
    BY <1>26 DEF Park
  <1>27. CASE Query
    BY <1>27 DEF Query
  <1>28. CASE QueryAdmit
    BY <1>28 DEF QueryAdmit, Request, Slot
  <1>29. CASE QueryAnswer
    BY <1>29 DEF QueryAnswer, Answers, Request
  <1>30. CASE QueryTimeout
    BY <1>30 DEF QueryTimeout, Covered, Slot, Answers, Request
  <1>31. CASE UNCHANGED captureVars
    BY <1>31 DEF captureVars
    <1> QED BY <1>1, <1>2, <1>3, <1>4, <1>5, <1>6, <1>7, <1>8, <1>9, <1>10,
         <1>11, <1>12, <1>13, <1>14, <1>15, <1>16, <1>17, <1>18, <1>19, <1>20,
         <1>21, <1>22, <1>23, <1>24, <1>25, <1>26, <1>27, <1>28, <1>29, <1>30,
         <1>31
      DEF CaptureNext, OwnStep, Vendor, DspStep, DspTimeout, DspCall, ReaderStep

(* A later packet of the vendor, or one after lost samples, still follows. *)
LEMMA ExtendsChain ==
  ASSUME CaptureTypeOK, PacketsHonest, Chain, UNCHANGED <<pending, packets, got, generation, last>>,
         \A p : p.gen \in Nat /\ p.gen <= settings /\ Follows(p, Coming) => Follows(p, Coming')
  PROVE  Chain'
  <1>0. /\ pending.gen \in Nat /\ got.gen \in Nat /\ generation \in Nat
        /\ \A i \in 1..Len(packets) : packets[i].gen \in Nat
    BY PacketFacts DEF CaptureTypeOK
  <1>1. /\ Plan.gen \in Nat /\ Plan.gen <= settings /\ pending.gen <= settings /\ got.gen <= settings
        /\ \A i \in 1..Len(packets) : packets[i].gen <= settings
    BY <1>0 DEF Plan, PacketsHonest, Honest
  <1>2. Plan' = Plan /\ packets \in Seq(Packet)
    BY DEF Plan, CaptureTypeOK
  <1> DEFINE Ahead(p) == p.gen \in Nat /\ p.gen <= settings
  <1>3. \A p : Ahead(p) /\ Follows(p, AfterPackets) => Follows(p, AfterPackets')
    BY DEF AfterPackets, Real
  <1>4. \A p : Ahead(p) /\ Follows(p, AfterGot) => Follows(p, AfterGot')
    BY <1>3 DEF AfterGot
  <1>5. \A p : Ahead(p) /\ Follows(p, AfterPlan) => Follows(p, AfterPlan')
    BY <1>4 DEF AfterPlan, Real
  <1>6. packets # <<>> => Len(packets) \in 1..Len(packets)
    BY <1>2
  <1>7. packets # <<>> => Ahead(packets[Len(packets)])
    BY <1>0, <1>1, <1>6
  <1>8. Ahead(Plan) /\ Ahead(got) /\ Ahead(pending)
    BY <1>0, <1>1
  <1>9. Real(Plan') => Follows(Plan', AfterPlan')
    BY <1>2, <1>5, <1>8 DEF Chain
  <1>10. Real(got') => Follows(got', AfterGot')
    BY <1>4, <1>8 DEF Chain
  <1>11. packets' # <<>> => Follows(packets'[Len(packets')], AfterPackets')
    BY <1>3, <1>7 DEF Chain
  <1>12. Real(pending') => Follows(pending', Coming')
    BY <1>8 DEF Chain
  <1>13. \A i \in 1..(Len(packets') - 1) : Follows(packets'[i], packets'[i + 1])
    BY DEF Chain
  <1> QED BY <1>9, <1>10, <1>11, <1>12, <1>13 DEF Chain

(* Fetching, queueing, receiving and checking only move the packets along  *)
(* the chain; a reconfigure starts a later generation at its far end.      *)
LEMMA LinkedStep ==
  ASSUME CaptureInv, [CaptureNext]_captureVars PROVE Linked'
  <1> USE DEF own, shared, plan, ddc, reader, past
  <1> SUFFICES ASSUME Running' PROVE Chain'
    BY DEF Linked
  <1>0. Running /\ Chain
    <2>1. CaptureNext => Running
      BY DEF Running, CaptureNext, OwnStep, Vendor, DspStep, DspTimeout, DspCall,
       ReaderStep, WaitForArm,
       Armed, Serve, ServeGnss, Closed, Rejected, Top, Full, Arm, ArmTimeout, Next1,
       RecvTimeout, Empty, BlameWait, Reconfigure, Admit, CallTimeout, DropCapture, Dropped,
       Park, Query, QueryAdmit, QueryAnswer, QueryTimeout, Leave, CallFails, Closes, Blame,
       ServeReconfigure, Fetched, Enqueue, Recv, CheckPacket, Await
    <2>2. UNCHANGED captureVars => Running
      BY DEF captureVars, Running
    <2> QED BY <2>1, <2>2 DEF CaptureInv, Linked
  <1>a. CaptureTypeOK /\ PacketsHonest /\ Places /\ Outstanding
    BY DEF CaptureInv
  <1>b. packets \in Seq(Packet) /\ Len(packets) \in Nat
    BY <1>a DEF CaptureTypeOK
  <1>1. CASE UNCHANGED <<settings, device, stamp, lost, pending, packets, got, generation, last>>
    BY <1>0, <1>1 DEF Chain, Plan, AfterPlan, AfterGot, AfterPackets, Coming, Real, Follows
  <1>2. CASE ServeReconfigure
    <2>1. UNCHANGED <<pending, packets, got, generation, last>>
      BY <1>2 DEF ServeReconfigure
    <2>2. Coming' = Coming \/ Coming'.gen = settings + 1
      BY <1>2 DEF ServeReconfigure, Coming
    <2>3. ASSUME NEW p, p.gen \in Nat, p.gen <= settings, Follows(p, Coming)
          PROVE  Follows(p, Coming')
      <3>1. settings \in Nat
        BY <1>a DEF CaptureTypeOK
      <3> QED BY <2>2, <2>3, <3>1 DEF Follows
    <2> QED BY <1>0, <1>a, <2>1, <2>3, ExtendsChain
  <1>3. CASE Fetched
    <2>1. UNCHANGED <<settings, packets, got, generation, last>> /\ ~Real(pending)
      BY <1>3, <1>a DEF Fetched, Places, MayHold, InHands
    <2>2. stamp \in Nat /\ settings \in Nat
      BY <1>a DEF CaptureTypeOK
    <2>3. CASE pending' = Coming /\ stamp' = stamp + 1 /\ lost' = FALSE
      <3>1. Coming'.gen = Coming.gen /\ Coming'.stamp = Coming.stamp + 1
        BY <2>1, <2>3 DEF Coming
      <3>2. Coming.stamp = stamp /\ Coming.gen = settings
        BY DEF Coming
      <3>3. Real(pending') /\ Follows(pending', Coming')
        BY <2>2, <2>3, <3>1, <3>2 DEF Real, Follows
      <3>4. AfterPackets' = AfterPackets
        BY <2>1, <2>3, <3>3 DEF AfterPackets
      <3>5. AfterGot' = AfterGot /\ AfterPlan' = AfterPlan /\ Plan' = Plan
        BY <2>1, <3>4 DEF AfterGot, AfterPlan, Plan, Real
      <3> QED BY <1>0, <2>1, <3>3, <3>4, <3>5 DEF Chain
    <2>4. CASE pending' = pending /\ stamp' = stamp /\ lost' = lost
      <3>1. UNCHANGED <<settings, device, stamp, lost, pending, packets, got, generation, last>>
        BY <1>3, <2>1, <2>4 DEF Fetched
      <3> QED BY <1>1, <3>1
    <2>5. CASE pending' = pending /\ stamp' = stamp + 1 /\ lost' = TRUE
      <3>1. Coming'.gen = Coming.gen /\ ~Coming'.whole
        BY <2>1, <2>5 DEF Coming
      <3>2. \A p : p.gen \in Nat /\ p.gen <= settings /\ Follows(p, Coming) => Follows(p, Coming')
        BY <3>1 DEF Follows
      <3>3. UNCHANGED <<pending, packets, got, generation, last>>
        BY <2>1, <2>5
      <3> QED BY <1>0, <1>a, <3>2, <3>3, ExtendsChain
    <2> QED BY <1>3, <2>3, <2>4, <2>5 DEF Fetched, Coming
  <1>4. CASE Enqueue
    <2>1. UNCHANGED <<settings, device, stamp, lost, got, generation, last>> /\ Plan' = Plan /\ Coming' = Coming
      BY <1>4 DEF Enqueue, Plan, Coming
    <2>2. CASE packets' = Append(packets, pending) /\ pending' = NoPacket
      <3>1. Real(pending) /\ ~Real(pending') /\ pending \in Packet
        BY <1>4, <1>a, <2>2 DEF Enqueue, Places, InHands, NoPacket, Real, CaptureTypeOK
      <3>2. AfterPackets = pending /\ AfterPackets' = Coming
        BY <2>1, <3>1 DEF AfterPackets
      <3>3. /\ Len(packets') = Len(packets) + 1 /\ packets'[Len(packets) + 1] = pending
            /\ \A i \in 1..Len(packets) : packets'[i] = packets[i]
        BY <1>b, <2>2, <3>1
      <3>4. AfterGot' = AfterGot
        <4>1. CASE packets = <<>>
          BY <1>b, <2>2, <3>2, <3>3, <4>1 DEF AfterGot
        <4>2. CASE packets # <<>>
          <5>1. 1 \in 1..Len(packets) /\ packets' # <<>>
            BY <1>b, <2>2, <3>1, <4>2
          <5> QED BY <3>3, <4>2, <5>1 DEF AfterGot
        <4> QED BY <4>1, <4>2
      <3>5. AfterPlan' = AfterPlan
        BY <2>1, <3>4 DEF AfterPlan, Real
      <3>6. Follows(pending, Coming)
        BY <1>0, <3>1 DEF Chain
      <3>7. ASSUME NEW i \in 1..(Len(packets') - 1) PROVE Follows(packets'[i], packets'[i + 1])
        <4>1. CASE i = Len(packets)
          <5>1. packets # <<>> /\ packets'[i] = packets[i]
            BY <1>b, <3>3, <4>1
          <5>2. Follows(packets[i], pending)
            BY <1>0, <3>2, <4>1, <5>1 DEF Chain
          <5> QED BY <3>3, <4>1, <5>1, <5>2
        <4>2. CASE i \in 1..(Len(packets) - 1)
          BY <1>0, <1>b, <3>3, <4>2 DEF Chain
        <4> QED BY <1>b, <3>3, <4>1, <4>2
      <3>8. packets' # <<>> => Follows(packets'[Len(packets')], AfterPackets')
        BY <3>2, <3>3, <3>6
      <3> QED BY <1>0, <2>1, <3>1, <3>4, <3>5, <3>7, <3>8 DEF Chain
    <2>3. CASE packets' = packets /\ pending' = pending
      BY <1>1, <2>1, <2>3
    <2>4. CASE closed
      BY <1>0, <2>4 DEF Running
    <2> QED BY <1>4, <2>2, <2>3, <2>4 DEF Enqueue, Tagged
  <1>5. CASE Recv
    <2>1. UNCHANGED <<settings, device, stamp, lost, pending, generation, last>>
      BY <1>5 DEF Recv
    <2>2. /\ Plan' = Plan /\ Coming' = Coming /\ AfterPackets' = AfterPackets
          /\ ~Real(got)
      BY <1>5, <1>a, <2>1 DEF Recv, Places, Plan, Coming, AfterPackets, Real
    <2>3. CASE packets # <<>> /\ got' = Head(packets) /\ packets' = Tail(packets)
      <3>1. /\ got' = packets[1] /\ 1 \in 1..Len(packets) /\ Len(packets') = Len(packets) - 1
            /\ \A i \in 1..Len(packets') : i + 1 \in 1..Len(packets) /\ packets'[i] = packets[i + 1]
            /\ packets' # <<>> <=> Len(packets) > 1
        <4>1. /\ got' = packets[1] /\ 1 \in 1..Len(packets)
              /\ packets' \in Seq(Packet) /\ Len(packets') = Len(packets) - 1
          BY <1>b, <2>3
        <4>2. \A i \in 1..Len(packets') : i + 1 \in 1..Len(packets) /\ packets'[i] = packets[i + 1]
          BY <1>b, <2>3
        <4>3. packets' # <<>> <=> Len(packets') > 0
          BY <4>1
        <4> QED BY <1>b, <4>1, <4>2, <4>3
      <3>2. Real(got')
        BY <1>a, <3>1 DEF PacketsHonest
      <3>3. AfterPlan = got' /\ AfterPlan' = got'
        BY <2>2, <2>3, <3>1, <3>2 DEF AfterPlan, AfterGot
      <3>4. Follows(got', AfterGot')
        <4>1. CASE packets' = <<>>
          <5>1. AfterGot' = AfterPackets /\ got' = packets[Len(packets)]
            BY <1>b, <2>2, <3>1, <4>1 DEF AfterGot
          <5> QED BY <1>0, <2>3, <5>1 DEF Chain
        <4>2. CASE packets' # <<>>
          <5>1. AfterGot' = packets[2] /\ 1 \in 1..(Len(packets) - 1)
            BY <1>b, <3>1, <4>2 DEF AfterGot
          <5>2. Follows(packets[1], packets[1 + 1])
            BY <1>0, <5>1 DEF Chain
          <5> QED BY <3>1, <5>1, <5>2
        <4> QED BY <4>1, <4>2
      <3>5. ASSUME NEW i \in 1..(Len(packets') - 1) PROVE Follows(packets'[i], packets'[i + 1])
        <4>1. i + 1 \in 1..(Len(packets) - 1) /\ i \in 1..Len(packets') /\ i + 1 \in 1..Len(packets')
          BY <1>b, <3>1
        <4>2. Follows(packets[i + 1], packets[(i + 1) + 1])
          BY <1>0, <4>1 DEF Chain
        <4> QED BY <3>1, <4>1, <4>2
      <3>6. packets' # <<>> => Follows(packets'[Len(packets')], AfterPackets')
        <4> SUFFICES ASSUME packets' # <<>> PROVE Follows(packets'[Len(packets')], AfterPackets')
          OBVIOUS
        <4>1. Len(packets') \in 1..Len(packets') /\ Len(packets') + 1 = Len(packets)
          BY <1>b, <3>1
        <4>2. packets'[Len(packets')] = packets[Len(packets)]
          BY <3>1, <4>1
        <4> QED BY <1>0, <2>2, <2>3, <4>2 DEF Chain
      <3>7. Real(Plan') => Follows(Plan', AfterPlan')
        BY <1>0, <2>2, <3>3 DEF Chain
      <3>8. Real(pending') => Follows(pending', Coming')
        BY <1>0, <2>1, <2>2 DEF Chain, Real
      <3> QED BY <3>4, <3>5, <3>6, <3>7, <3>8 DEF Chain
    <2>4. CASE UNCHANGED <<got, packets>>
      BY <1>1, <2>1, <2>4
    <2> QED BY <1>5, <2>3, <2>4 DEF Recv
  <1>6. CASE CheckPacket
    <2>1. UNCHANGED <<settings, device, stamp, lost, pending, packets, generation>> /\ got' = NoPacket
      BY <1>6 DEF CheckPacket
    <2>2. /\ ~Real(got') /\ AfterGot' = AfterGot /\ AfterPlan' = AfterGot
          /\ AfterPackets' = AfterPackets /\ Coming' = Coming
      BY <2>1 DEF AfterPlan, AfterGot, AfterPackets, Coming, Real, NoPacket
    <2>3. got.gen \in Nat /\ generation \in Nat /\ settings \in Nat /\ got.gen <= settings
      BY <1>a, PacketFacts DEF CaptureTypeOK, PacketsHonest, Honest
    <2>4. Real(Plan') => Follows(Plan', AfterGot)
      <3>1. CASE got.gen < generation
        <4>1. Plan' = Plan /\ Plan.gen = generation
          <5>1. last' = last
            BY <1>6, <2>3, <3>1 DEF CheckPacket
          <5> QED BY <2>1, <5>1 DEF Plan
        <4>2. CASE Real(got)
          BY <1>0, <2>3, <3>1, <4>1, <4>2 DEF Chain, AfterPlan, Follows
        <4>3. CASE ~Real(got)
          BY <1>0, <4>1, <4>3 DEF Chain, AfterPlan
        <4> QED BY <4>2, <4>3
      <3>2. CASE ~(got.gen < generation)
        <4>1. got.gen = generation
          <5>1. settings = generation
            BY <1>0, <1>6, <1>a DEF Running, Outstanding, OnePlace, CheckPacket
          <5> QED BY <2>3, <3>2, <5>1
        <4>2. last' = got.stamp
          BY <1>0, <1>6, <2>3, <3>2 DEF CheckPacket, Running
        <4>3. Plan'.gen = got.gen /\ Plan'.stamp = got.stamp
          BY <2>1, <4>1, <4>2 DEF Plan
        <4>4. Real(Plan') => Follows(got, AfterGot)
          BY <1>0, <4>3 DEF Chain, Real
        <4> QED BY <4>3, <4>4 DEF Follows
      <3> QED BY <3>1, <3>2
    <2> QED BY <1>0, <2>1, <2>2, <2>4 DEF Chain, Real
  <1>7. CASE Await
    <2>1. UNCHANGED <<settings, device, stamp, lost, pending, packets, got>>
      BY <1>7 DEF Await
    <2>2. AfterPlan' = AfterPlan /\ AfterGot' = AfterGot /\ AfterPackets' = AfterPackets /\ Coming' = Coming
      BY <2>1 DEF AfterPlan, AfterGot, AfterPackets, Coming, Real
    <2>3. last' = -1
      BY <1>7 DEF Await, Running, CallFails
    <2>4. ~Real(Plan')
      BY <2>3 DEF Plan, Real
    <2> QED BY <1>0, <2>1, <2>2, <2>4 DEF Chain, Real
  <1>8. CaptureNext =>
         \/ UNCHANGED <<settings, device, stamp, lost, pending, packets, got, generation, last>>
         \/ ServeReconfigure \/ Fetched \/ Enqueue \/ Recv \/ CheckPacket \/ Await
    BY DEF CaptureNext, OwnStep, Vendor, DspStep, DspTimeout, DspCall, ReaderStep, WaitForArm,
       Armed, Serve, ServeGnss, Closed, Rejected, Top, Full, Arm, ArmTimeout, Next1,
       RecvTimeout, Empty, BlameWait, Reconfigure, Admit, CallTimeout, DropCapture, Dropped,
       Park, Query, QueryAdmit, QueryAnswer, QueryTimeout
  <1> QED BY <1>1, <1>2, <1>3, <1>4, <1>5, <1>6, <1>7, <1>8 DEF captureVars

(* A packet that is accepted is of the plan's settings and follows the last*)
(* one, and a next that failed has left an error that nothing clears.      *)
LEMMA PastStep ==
  ASSUME CaptureInv, [CaptureNext]_captureVars PROVE Past'
  <1> USE DEF CaptureInv, CaptureTypeOK, Past, NoStaleIQ, NoFalseGap, NothingLate, own, shared, plan, ddc, reader, past
  <1>1. CASE WaitForArm
    BY <1>1 DEF WaitForArm, Leave
  <1>2. CASE Armed
    BY <1>2 DEF Armed, Leave
  <1>3. CASE Serve
    BY <1>3 DEF Serve
  <1>4. CASE ServeGnss
    BY <1>4 DEF ServeGnss
  <1>5. CASE ServeReconfigure
    BY <1>5 DEF ServeReconfigure
  <1>6. CASE Closed
    BY <1>6 DEF Closed
  <1>7. CASE Rejected
    BY <1>7 DEF Rejected, Leave
  <1>8. CASE Top
    BY <1>8 DEF Top, Leave
  <1>9. CASE Fetched
    BY <1>9 DEF Fetched, Leave
  <1>10. CASE Enqueue
    BY <1>10 DEF Enqueue, Leave, Tagged
  <1>11. CASE Full
    BY <1>11 DEF Full, Leave, KeepOnFull
  <1>12. CASE Arm
    BY <1>12 DEF Arm
  <1>13. CASE ArmTimeout
    BY <1>13 DEF ArmTimeout, CallFails
  <1>14. CASE Next1
    BY <1>14 DEF Next1
  <1>15. CASE Recv
    BY <1>15 DEF Recv
  <1>16. CASE RecvTimeout
    BY <1>16 DEF RecvTimeout
  <1>17. CASE CheckPacket
    <2>1. error' = error /\ dsp = "check"
      BY <1>17 DEF CheckPacket
    <2>2. failed' => error' # "none"
      BY <1>17, <2>1 DEF CheckPacket
    <2>3. CASE UNCHANGED <<taken, gap>>
      BY <2>2, <2>3
    <2>4. CASE error = "none" /\ ~(got.gen < generation) /\ ~UNCHANGED <<taken, gap>>
      <3>1. ~barred /\ ~closed /\ ~failed /\ settings = generation
        BY <2>1, <2>4 DEF Places, Outstanding, OnePlace
      <3>2. got.gen = generation /\ got.conf = generation
        <4>1. Honest(got) /\ got.gen \in Nat
          BY PacketFacts DEF PacketsHonest
        <4> QED BY <2>4, <3>1, <4>1 DEF Honest
      <3>3. CASE last # -1 /\ got.stamp # last + 1
        <4>1. taken' = taken /\ gap' = (gap \/ got.whole)
          BY <1>17, <2>4, <3>2, <3>3 DEF CheckPacket
        <4>2. Follows(Plan, got)
          <5>1. Chain
            BY <2>4, <3>1 DEF Linked, Running
          <5>2. Real(Plan) /\ Real(got)
            BY <2>1, <3>3 DEF Plan, Real, Places
          <5> QED BY <5>1, <5>2 DEF Chain, AfterPlan
        <4>3. Plan.gen = generation /\ Plan.stamp = last
          BY DEF Plan
        <4>4. ~got.whole
          BY <3>2, <3>3, <4>2, <4>3 DEF Follows
        <4>5. gap' = FALSE
          BY <4>1, <4>4
        <4> QED BY <2>2, <4>1, <4>5
      <3>4. CASE ~(last # -1 /\ got.stamp # last + 1)
        <4>1. gap' = gap
          BY <1>17, <2>4, <3>2, <3>4 DEF CheckPacket
        <4>2. taken' = taken \cup {[conf |-> got.conf, as |-> generation, late |-> failed]}
          BY <1>17, <2>4, <3>2, <3>4 DEF CheckPacket
        <4> QED BY <2>2, <3>1, <3>2, <4>1, <4>2
      <3> QED BY <3>3, <3>4
    <2>5. got.gen \in Nat /\ generation \in Nat
      BY PacketFacts
    <2>6. error # "none" \/ got.gen < generation => UNCHANGED <<taken, gap>>
      BY <1>17, <2>5 DEF CheckPacket
    <2> QED BY <2>1, <2>3, <2>4, <2>6
  <1>18. CASE Empty
    BY <1>18 DEF Empty
  <1>19. CASE BlameWait
    BY <1>19 DEF BlameWait, Blame
  <1>20. CASE Reconfigure
    BY <1>20 DEF Reconfigure
  <1>21. CASE Admit
    BY <1>21 DEF Admit, Request, CallFails, Slot
  <1>22. CASE Await
    BY <1>22 DEF Await, Answers, Request, CallFails
  <1>23. CASE CallTimeout
    BY <1>23 DEF CallTimeout, CallFails, Covered, Slot, Answers, Request
  <1>24. CASE DropCapture
    BY <1>24 DEF DropCapture, Closes
  <1>25. CASE Dropped
    BY <1>25 DEF Dropped
  <1>26. CASE Park
    BY <1>26 DEF Park
  <1>27. CASE Query
    BY <1>27 DEF Query
  <1>28. CASE QueryAdmit
    BY <1>28 DEF QueryAdmit, Request, Slot
  <1>29. CASE QueryAnswer
    BY <1>29 DEF QueryAnswer, Answers, Request
  <1>30. CASE QueryTimeout
    BY <1>30 DEF QueryTimeout, Covered, Slot, Answers, Request
  <1>31. CASE UNCHANGED captureVars
    BY <1>31 DEF captureVars
    <1> QED BY <1>1, <1>2, <1>3, <1>4, <1>5, <1>6, <1>7, <1>8, <1>9, <1>10,
         <1>11, <1>12, <1>13, <1>14, <1>15, <1>16, <1>17, <1>18, <1>19, <1>20,
         <1>21, <1>22, <1>23, <1>24, <1>25, <1>26, <1>27, <1>28, <1>29, <1>30,
         <1>31
      DEF CaptureNext, OwnStep, Vendor, DspStep, DspTimeout, DspCall, ReaderStep

-----------------------------------------------------------------------------
(* The conjuncts together are inductive.                                   *)
LEMMA IInvHolds == CaptureSpec => []CaptureInv
  <1>1. CaptureInv /\ [CaptureNext]_captureVars => CaptureInv'
    BY TypeStep, HonestStep, PlacesStep, OutstandingStep, LinkedStep, PastStep DEF CaptureInv
  <1> QED BY CaptureInitHolds, <1>1, PTL DEF CaptureSpec

(* Every variable of the capture keeps its type and the channels keep      *)
(* their capacities, for every capacity of the packet channel.             *)
THEOREM CaptureTyped == CaptureSpec => []CaptureTypeOK
  BY IInvHolds, PTL DEF CaptureInv

(* The DSP never takes samples that were fetched under other settings than *)
(* its plan's, whatever was queued or held while it reconfigured.          *)
THEOREM NeverStale == CaptureSpec => []NoStaleIQ
  BY IInvHolds, PTL DEF CaptureInv, Past

(* A discontinuity the DSP finds is one that the vendor made: the threads, *)
(* the full queue and the reconfigurations lose no packet on their own.    *)
THEOREM NeverFalseGap == CaptureSpec => []NoFalseGap
  BY IInvHolds, PTL DEF CaptureInv, Past

(* No packet is taken after a next that failed.                            *)
THEOREM FailureStays == CaptureSpec => []FailureFinal
  BY IInvHolds, PTL DEF CaptureInv, Past, FailureFinal

(* While the capture runs, the packets from the last stamp taken to the    *)
(* vendor's next one are a chain without a gap of the code's own making.   *)
THEOREM ChainUnbroken == CaptureSpec => [](Running => Chain)
  BY IInvHolds, PTL DEF CaptureInv, Linked
=============================================================================
