---------------------------- MODULE IqsCapture ----------------------------
(***************************************************************************)
(* The IQ capture of backend/src/hardware_iqs.rs: an owner thread makes    *)
(* every vendor call, queues packets to the DSP thread over a bounded      *)
(* channel and serves requests between packets; the DSP thread (Ddc of     *)
(* websad.rs) takes packets, reconfigures the capture and drops it; a      *)
(* status thread asks for GNSS over the same request channel.              *)
(*                                                                         *)
(* A vendor call may take any time, or never return.  The deadlines are    *)
(* long against the owner's own steps, so a wait runs out only while the   *)
(* owner is inside the vendor library.  Stamps count packets; a packet     *)
(* carries as history the settings it was really fetched under.            *)
(***************************************************************************)
EXTENDS Integers, Sequences

CONSTANTS
  PacketQueue,      \* capacity of the packet channel
  MaxFetch,         \* bound: packets fetched
  MaxReconfigure,   \* bound: reconfigurations asked for
  MaxGnss           \* bound: GNSS queries

ASSUME CaptureAssumption ==
  /\ PacketQueue \in Nat \ {0}
  /\ MaxFetch \in Nat /\ MaxReconfigure \in Nat /\ MaxGnss \in Nat

VARIABLES
  \* the owner thread
  place,      \* waiting, arming, top, fetching, holding, full, late, serving,
              \* rejected, closing, gone
  back,       \* where serving returns to
  settings,   \* Settings::generation
  device,     \* the generation the vendor really streams
  stamp,      \* stamp of the next packet of the vendor
  pending,    \* the packet being queued
  job,        \* the request being served
  \* shared
  packets, requests, answers, error, stop, closed,
  \* the DSP thread
  dsp,        \* idle, arm, recv, check, empty, blame, admit, await, drop, done
  armed,      \* arm was called
  got,        \* the packet under inspection
  generation, \* Ddc::generation
  last,       \* Ddc::last_stamp, -1 if none
  barred,     \* the Ddc makes no more calls but the drop
  \* the status thread
  status,     \* idle, admit, await
  query,      \* number of its query
  \* bounds and history
  fetched, asked,
  taken,      \* what the DSP accepted: the settings a packet was fetched
              \* under, its own generation, and whether a next had failed
  lost,       \* the vendor lost samples in its current stream
  failed,     \* a next of the DSP thread returned an error
  gap         \* the DSP found a discontinuity no lost sample explains

own    == <<place, back, settings, device, stamp, pending, job>>
shared == <<packets, requests, answers, error, stop, closed>>
plan   == <<armed, got, generation, last>>
ddc    == <<dsp, plan, barred>>
reader == <<status, query>>
past   == <<fetched, asked, taken, lost, failed, gap>>
captureVars == <<own, shared, ddc, reader, past>>

NoPacket == [gen |-> 0, conf |-> 0, stamp |-> -1, whole |-> TRUE]
NoJob == [kind |-> "none", id |-> 0]

(* A packet keeps the generation it was fetched under while it waits for   *)
(* room.  The fault tags it when it is queued.                             *)
TaggedLate(p) == [p EXCEPT !.gen = settings]
Tagged(p) == p

(* A full queue keeps the packet in the owner's hands.  The fault drops it.*)
DropOnFull == "top"
KeepOnFull == "holding"

(* next stores the timeout that it reports.  The fault only reports it.    *)
BlameForgotten == error
Blame == "late"

(* Drop closes the packet channel, so that a full queue does not hold the  *)
(* owner, before it waits for the owner.  The fault waits first.           *)
ClosesLater == closed
Closes == TRUE

(* The request channel holds one request.                                  *)
Slot == Len(requests) < 1

(* The deadline of a call covers its admission and its reply.              *)
Covered(wait) == wait \in {"admit", "await"}

InVendor == place \in {"arming", "fetching", "serving", "closing"}

CaptureInit ==
  /\ place = "waiting" /\ back = "waiting" /\ settings = 0 /\ device = 0
  /\ stamp = 0 /\ pending = NoPacket /\ job = NoJob
  /\ packets = <<>> /\ requests = <<>> /\ answers = {} /\ error = "none"
  /\ stop = FALSE /\ closed = FALSE
  /\ dsp = "idle" /\ armed = FALSE /\ got = NoPacket /\ generation = 0
  /\ last = -1  /\ barred = FALSE /\ status = "idle" /\ query = 0
  /\ fetched = 0 /\ asked = 0 /\ taken = {} /\ lost = FALSE
  /\ failed = FALSE /\ gap = FALSE

-----------------------------------------------------------------------------
(* The owner.  Leaving its closure closes the device and only then the     *)
(* channels: requests that were not served lose their replies.             *)
Leave(e) == place' = "closing" /\ error' = e

Closed ==
  /\ place = "closing" /\ place' = "gone" /\ requests' = <<>>
  /\ UNCHANGED <<back, settings, device, stamp, pending, job, packets, answers,
                 error, stop, closed, ddc, reader, past>>

WaitForArm ==
  /\ place = "waiting"
  /\ \/ stop /\ Leave(error)
     \/ ~stop /\ dsp = "arm" /\ place' = "arming" /\ UNCHANGED error
  /\ UNCHANGED <<back, settings, device, stamp, pending, job, packets, requests,
                 answers, stop, closed, ddc, reader, past>>

Armed ==
  /\ place = "arming"
  /\ dsp' = IF dsp = "arm" THEN "idle" ELSE dsp
  /\ \/ place' = "top" /\ UNCHANGED <<error, stop, barred>>
     \/ /\ Leave("vendor") /\ barred' = TRUE
        /\ stop' = (stop \/ dsp = "arm")
  /\ UNCHANGED <<back, settings, device, stamp, pending, job, packets, requests,
                 answers, closed, plan, reader, past>>

(* Requests are served before the arm, between packets and while the queue *)
(* is full.                                                                *)
Serve ==
  /\ place \in {"waiting", "top", "full"} /\ requests # <<>>
  /\ place # "full" => ~stop
  /\ place' = "serving" /\ back' = IF place = "full" THEN "late" ELSE place
  /\ job' = Head(requests) /\ requests' = Tail(requests)
  /\ UNCHANGED <<settings, device, stamp, pending, packets, answers, error, stop,
                 closed, ddc, reader, past>>

ServeGnss ==
  /\ place = "serving" /\ job.kind = "gnss"
  /\ place' = back /\ job' = NoJob
  /\ answers' = answers \cup {[to |-> job, ok |-> TRUE, gen |-> 0]}
  /\ UNCHANGED <<back, settings, device, stamp, pending, packets, requests, error,
                 stop, closed, ddc, reader, past>>

(* The vendor takes the new configuration and starts a new timeline, or    *)
(* rejects it, which ends the owner once the reply is sent.                *)
ServeReconfigure ==
  /\ place = "serving" /\ job.kind = "reconfigure"
  /\ \/ /\ settings' = settings + 1 /\ device' = settings + 1 /\ stamp' = 0
        /\ lost' = FALSE
        /\ answers' = answers \cup
             {[to |-> job, ok |-> TRUE, gen |-> settings + 1]}
        /\ place' = back /\ job' = NoJob
     \/ /\ answers' = answers \cup {[to |-> job, ok |-> FALSE, gen |-> 0]}
        /\ place' = "rejected" /\ job' = NoJob
        /\ UNCHANGED <<settings, device, stamp, lost>>
  /\ UNCHANGED <<back, pending, packets, requests, error, stop, closed, ddc,
                 reader, fetched, asked, taken, failed, gap>>

Rejected ==
  /\ place = "rejected" /\ Leave("vendor")
  /\ UNCHANGED <<back, settings, device, stamp, pending, job, packets, requests,
                 answers, stop, closed, ddc, reader, past>>

Top ==
  /\ place = "top"
  /\ \/ stop /\ Leave(error)
     \/ ~stop /\ requests = <<>> /\ place' = "fetching" /\ UNCHANGED error
  /\ UNCHANGED <<back, settings, device, stamp, pending, job, packets, requests,
                 answers, stop, closed, ddc, reader, past>>

(* A packet; a transient status, with samples lost or not; too many of     *)
(* them, or for too long; any other error.                                 *)
Fetched ==
  /\ place = "fetching"
  /\ \/ /\ fetched < MaxFetch /\ fetched' = fetched + 1
        /\ pending' = [gen |-> settings, conf |-> device, stamp |-> stamp,
                    whole |-> ~lost]
        /\ stamp' = stamp + 1 /\ place' = "holding" /\ lost' = FALSE
        /\ UNCHANGED error
     \/ /\ place' = "top" /\ UNCHANGED <<error, pending, fetched>>
        /\ \/ UNCHANGED <<stamp, lost>>
           \/ fetched < MaxFetch /\ ~lost /\ stamp' = stamp + 1 /\ lost' = TRUE
     \/ /\ Leave("stall") \/ Leave("vendor")
        /\ UNCHANGED <<stamp, lost, pending, fetched>>
  /\ UNCHANGED <<back, settings, device, job, packets, requests, answers, stop,
                 closed, ddc, reader, asked, taken, failed, gap>>

(* One try_send of the packet.                                             *)
Enqueue ==
  /\ place = "holding"
  /\ \/ /\ ~closed /\ Len(packets) < PacketQueue
        /\ packets' = Append(packets, Tagged(pending)) /\ place' = "top"
        /\ pending' = NoPacket /\ UNCHANGED error
     \/ /\ ~closed /\ Len(packets) >= PacketQueue
        /\ place' = "full" /\ UNCHANGED <<packets, pending, error>>
     \/ closed /\ Leave(error) /\ pending' = NoPacket /\ UNCHANGED packets
  /\ UNCHANGED <<back, settings, device, stamp, job, requests, answers, stop,
                 closed, ddc, reader, past>>

(* It found no room: a waiting request is served (Serve), and the packet   *)
(* is tried again, unless it has waited for two seconds.                   *)
Full ==
  /\ (place = "full" /\ requests = <<>>) \/ place = "late"
  /\ \/ place' = KeepOnFull /\ UNCHANGED error
     \/ Leave("backlog")
  /\ UNCHANGED <<back, settings, device, stamp, pending, job, packets, requests,
                 answers, stop, closed, ddc, reader, past>>

OwnStep == WaitForArm \/ Serve \/ Rejected \/ Top \/ Enqueue \/ Full
Vendor  == Armed \/ ServeGnss \/ ServeReconfigure \/ Fetched \/ Closed

-----------------------------------------------------------------------------
(* The DSP thread.  A wait that runs out, or a closed channel, stops the   *)
(* owner and becomes the error of the capture.                             *)

CallFails ==
  /\ stop' = TRUE /\ error' = "late"
  /\ dsp' = "idle" /\ barred' = TRUE

Arm ==
  /\ dsp = "idle" /\ ~barred /\ ~armed
  /\ IF error # "none" THEN barred' = TRUE /\ UNCHANGED <<dsp, armed>>
     ELSE dsp' = "arm" /\ armed' = TRUE /\ UNCHANGED barred
  /\ UNCHANGED <<own, shared, got, generation, last, reader, past>>

ArmTimeout ==
  /\ dsp = "arm" /\ InVendor /\ CallFails
  /\ UNCHANGED <<own, packets, requests, answers, closed, plan,
                 reader, past>>

(* next looks at the error before and after it waits for a packet.         *)
Next1 ==
  /\ dsp = "idle" /\ ~barred /\ armed
  /\ IF error # "none" THEN failed' = TRUE /\ UNCHANGED dsp
     ELSE dsp' = "recv" /\ UNCHANGED failed
  /\ UNCHANGED <<own, shared, plan, barred, reader, fetched,
                 asked, taken, lost, gap>>

Recv ==
  /\ dsp = "recv"
  /\ \/ /\ packets # <<>> /\ got' = Head(packets) /\ packets' = Tail(packets)
        /\ dsp' = "check"
     \/ /\ packets = <<>> /\ place = "gone"
        /\ dsp' = "empty" /\ UNCHANGED <<got, packets>>
  /\ UNCHANGED <<own, requests, answers, error, stop, closed, armed, generation,
                 last, barred, reader, past>>

RecvTimeout ==
  /\ dsp = "recv" /\ packets = <<>> /\ InVendor
  /\ dsp' = "empty"
  /\ UNCHANGED <<own, shared, plan, barred, reader, past>>

(* Ddc::packet: packets of an older generation are skipped; a stamp that   *)
(* does not follow the last one is an error and ends the pipeline.         *)
CheckPacket ==
  /\ dsp = "check" /\ got' = NoPacket
  /\ \/ /\ error # "none"
        /\ dsp' = "idle" /\ failed' = TRUE
        /\ UNCHANGED <<last, taken, gap, barred>>
     \/ /\ error = "none" /\ got.gen < generation
        /\ dsp' = "recv" /\ UNCHANGED <<last, taken, gap, barred, failed>>
     \/ /\ error = "none" /\ got.gen >= generation
        /\ dsp' = "idle" /\ UNCHANGED failed
        /\ IF last # -1 /\ got.stamp # last + 1
           THEN /\ gap' = (gap \/ got.whole) /\ barred' = TRUE
                /\ UNCHANGED <<last, taken>>
           ELSE /\ last' = got.stamp
                /\ taken' = taken \cup
                     {[conf |-> got.conf, as |-> generation, late |-> failed]}
                /\ UNCHANGED <<gap, barred>>
  /\ UNCHANGED <<own, shared, armed, generation, reader, fetched, asked, lost>>

(* Without a packet: the stored error if there is one by now; otherwise    *)
(* this wait's own, stored in another locked section.                      *)
Empty ==
  /\ dsp = "empty"
  /\ IF error # "none" THEN dsp' = "idle" /\ failed' = TRUE
     ELSE dsp' = "blame" /\ UNCHANGED failed
  /\ UNCHANGED <<own, shared, plan, barred, reader, fetched,
                 asked, taken, lost, gap>>

BlameWait ==
  /\ dsp = "blame" /\ dsp' = "idle"
  /\ stop' = TRUE /\ error' = Blame /\ failed' = TRUE
  /\ UNCHANGED <<own, packets, requests, answers, closed, plan,
                 barred, reader, fetched, asked, taken, lost, gap>>

(* reconfigure: admission to the request channel, then the reply.          *)
Reconfigure ==
  /\ dsp = "idle" /\ ~barred /\ asked < MaxReconfigure /\ asked' = asked + 1
  /\ IF error # "none" THEN barred' = TRUE /\ UNCHANGED dsp
     ELSE dsp' = "admit" /\ UNCHANGED barred
  /\ UNCHANGED <<own, shared, plan, reader, fetched, taken,
                 lost, failed, gap>>

Request(kind) == [kind |-> kind, id |-> IF kind = "gnss" THEN query ELSE asked]
Answers(r) == {a \in answers : a.to = r}

Admit ==
  /\ dsp = "admit"
  /\ \/ /\ place = "gone" /\ CallFails /\ UNCHANGED requests
     \/ /\ place # "gone" /\ Slot
        /\ requests' = Append(requests, Request("reconfigure")) /\ dsp' = "await"
        /\ UNCHANGED <<stop, error, barred>>
  /\ UNCHANGED <<own, packets, answers, closed, plan, reader, past>>

Await ==
  /\ dsp = "await"
  /\ LET answer == Answers(Request("reconfigure")) IN
     \/ \E a \in answer :
          /\ answers' = answers \ answer /\ dsp' = "idle"
          /\ IF a.ok THEN generation' = a.gen /\ last' = -1 /\ UNCHANGED barred
                     ELSE barred' = TRUE /\ UNCHANGED <<generation, last>>
          /\ UNCHANGED <<stop, error>>
     \/ /\ answer = {} /\ place = "gone" /\ CallFails
        /\ UNCHANGED <<answers, generation, last>>
  /\ UNCHANGED <<own, packets, requests, closed, armed, got, reader, past>>

CallTimeout ==
  /\ InVendor /\ CallFails
  /\ Covered(dsp)
  /\ \/ dsp = "admit" /\ ~Slot
     \/ dsp = "await" /\ Answers(Request("reconfigure")) = {}
  /\ UNCHANGED <<own, packets, requests, answers, closed, plan,
                 reader, past>>

(* Drop: the owner is joined, or left in the vendor library.               *)
DropCapture ==
  /\ dsp = "idle" /\ dsp' = "drop"
  /\ stop' = TRUE /\ closed' = Closes
  /\ UNCHANGED <<own, packets, requests, answers, error, plan,
                 barred, reader, past>>

Dropped ==
  /\ dsp = "drop" /\ place = "gone" /\ dsp' = "done"
  /\ UNCHANGED <<own, shared, plan, barred, reader, past>>

Park ==
  /\ dsp = "drop" /\ InVendor /\ dsp' = "done"
  /\ UNCHANGED <<own, shared, plan, barred, reader, fetched,
                 asked, taken, lost, failed, gap>>

DspStep == Recv \/ CheckPacket \/ Empty \/ BlameWait \/ Admit \/ Await \/ Dropped
DspTimeout == ArmTimeout \/ RecvTimeout \/ CallTimeout \/ Park
DspCall == Arm \/ Next1 \/ Reconfigure \/ DropCapture

-----------------------------------------------------------------------------
(* The status thread: CaptureGnss::gnss.  Its failures are its own.        *)
Query ==
  /\ status = "idle" /\ query < MaxGnss /\ error = "none"
  /\ status' = "admit" /\ query' = query + 1
  /\ UNCHANGED <<own, shared, ddc, past>>

QueryAdmit ==
  /\ status = "admit"
  /\ \/ place = "gone" /\ status' = "idle" /\ UNCHANGED requests
     \/ /\ place # "gone" /\ Slot
        /\ requests' = Append(requests, Request("gnss")) /\ status' = "await"
  /\ UNCHANGED <<own, packets, answers, error, stop, closed, ddc, query, past>>

QueryAnswer ==
  /\ status = "await"
  /\ LET answer == Answers(Request("gnss"))
     IN answer # {} \/ place = "gone"
  /\ answers' = {a \in answers : a.to.kind # "gnss"} /\ status' = "idle"
  /\ UNCHANGED <<own, packets, requests, error, stop, closed, ddc, query, past>>

QueryTimeout ==
  /\ InVendor /\ status' = "idle"
  /\ Covered(status)
  /\ \/ status = "admit" /\ ~Slot
     \/ status = "await" /\ Answers(Request("gnss")) = {}
  /\ UNCHANGED <<own, shared, ddc, query, past>>

ReaderStep == QueryAdmit \/ QueryAnswer

CaptureNext == OwnStep \/ Vendor \/ DspStep \/ DspTimeout \/ DspCall
               \/ Query \/ ReaderStep \/ QueryTimeout

CaptureSpec == CaptureInit /\ [][CaptureNext]_captureVars
FairCaptureSpec ==
  /\ CaptureSpec
  /\ WF_captureVars(OwnStep) /\ WF_captureVars(DspStep) /\ SF_captureVars(DspTimeout)
  /\ WF_captureVars(ReaderStep) /\ SF_captureVars(QueryTimeout)

-----------------------------------------------------------------------------
Packet == [gen : Nat, conf : Nat, stamp : Int, whole : BOOLEAN]
Job == [kind : {"none", "gnss", "reconfigure"}, id : Nat]

CaptureTypeOK ==
  /\ place \in {"waiting", "arming", "top", "fetching", "holding", "full",
                "late", "serving", "rejected", "closing", "gone"}
  /\ back \in {"waiting", "top", "late"}
  /\ settings \in Nat /\ device \in Nat /\ stamp \in Nat
  /\ pending \in Packet /\ job \in Job
  /\ packets \in Seq(Packet) /\ Len(packets) <= PacketQueue
  /\ requests \in Seq(Job) /\ Len(requests) <= 1
  /\ answers \subseteq [to : Job, ok : BOOLEAN, gen : Nat]
  /\ error \in {"none", "vendor", "stall", "backlog", "late"}
  /\ stop \in BOOLEAN /\ closed \in BOOLEAN
  /\ armed \in BOOLEAN
  /\ dsp \in {"arm", "idle", "recv", "check", "empty", "blame",
              "admit", "await", "drop", "done"}
  /\ got \in Packet /\ generation \in Nat /\ last \in Int /\ barred \in BOOLEAN
  /\ status \in {"idle", "admit", "await"} /\ query \in Nat
  /\ fetched \in Nat /\ asked \in Nat /\ lost \in BOOLEAN /\ failed \in BOOLEAN
  /\ taken \subseteq [conf : Nat, as : Nat, late : BOOLEAN]
  /\ gap \in BOOLEAN

(* The DSP never takes samples that were fetched under other settings than *)
(* the ones its plan is for, however long they waited in the owner's hands *)
(* or in the queue while the capture was reconfigured.                     *)
NoStaleIQ == \A t \in taken : t.conf = t.as

(* The capture itself never breaks the stamps: a discontinuity the DSP     *)
(* finds is one the vendor made, not a packet lost between the threads.    *)
NoFalseGap == ~gap

(* A next that failed is final: no packet is taken after it, although the  *)
(* queue still holds some and the owner may come back.                     *)
NothingLate == \A t \in taken : ~t.late
FailureFinal == CaptureTypeOK /\ NothingLate

(* Every call of the DSP thread returns, the drop included: a full queue   *)
(* does not keep a request from being served nor the owner from ending.    *)
Resting == {"idle", "done"}
CaptureReturns == dsp \notin Resting ~> dsp \in Resting

(* A GNSS query returns, whatever happens to the capture meanwhile.        *)
QueryReturns == status # "idle" ~> status = "idle"

(* Nobody waits for the owner for ever: neither the DSP thread nor the     *)
(* GNSS reader.                                                            *)
Returns == CaptureReturns /\ QueryReturns

(* docs/en/API.md:280: "A sustained SDK stall ends capture with its        *)
(* original cause".                                                        *)
StallKept == [][error = "stall" => error' = "stall"]_captureVars
=============================================================================
