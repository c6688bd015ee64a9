------------------------- MODULE ImageRequestProofs -------------------------
(***************************************************************************)
(* Proofs about ImageRequest, for every number of workers and requests,    *)
(* of retries, every trim period and every set of faults.                  *)
(***************************************************************************)
EXTENDS ImageRequest, FiniteSetTheorems, TLAPS

-----------------------------------------------------------------------------
(* The inductive invariant *)

Labels == {"idle", "trans", "base64", "fetch", "decode", "predict", "predicting"}
          \cup Answering

\* The last piece of the image arrived to its end.
LastWhole(data) == data # <<>> /\ data[Len(data)] = "whole"

HasSource(j) == j.base64 \/ j.url

\* What the stages have established about a request that has come to a place:
\* it has a source, an image, an image that decoded, a label.
JobOK(label, j) ==
  /\ label = "base64" => j.base64
  /\ label \in {"decode", "predict", "predicting"} => HasSource(j) /\ LastWhole(j.data)
  /\ label \in {"predict", "predicting"} /\ j.data = <<"whole">> =>
       j.img \in Pictures /\ j.pic = j.img
  /\ label \in Answering /\ j.code = "E_OK" =>
       /\ HasSource(j)
       /\ LastWhole(j.data)
       /\ j.data = <<"whole">> =>
            j.img \in Pictures /\ j.nudity = (IF j.img = "nude" THEN 1 ELSE 0)

JobsInv == \A w \in Workers : JobOK(pc[w], job[w])

\* Who is in predict has the lock and finds its own image there.
ModelInv == \A w \in Workers : pc[w] = "predicting" => model_lock = w /\ input = job[w].pic

\* Every request has a number of its own.
Busy == {w \in Workers : pc[w] # "idle"}
IdsInv ==
  /\ \A w \in Busy : job[w].id \in 1..received
  /\ \A v, w \in Busy : job[v].id = job[w].id => v = w
  /\ \A r \in replies : r.id \in 1..received
  /\ \A r \in replies, w \in Busy : r.id # job[w].id

\* Messages: one for a request, from SendDataFlow on, with its code.
Reported == {w \in Workers : pc[w] \in {"trim", "reset"}}
SentInv ==
  /\ \A m \in sent : env # "LOCAL" /\ m.id \in 1..received
                     /\ (m.code = "E_OK" => m.source # "none")
  /\ \A m, n \in sent : m.id = n.id => m = n
  /\ \A m \in sent, w \in Busy : m.id = job[w].id => w \in Reported /\ m.code = job[w].code
  /\ \A m \in sent, r \in replies : m.id = r.id => m.code = r.code /\ r.code # "500"
  /\ env # "LOCAL" =>
       /\ \A w \in Reported : \E m \in sent : m.id = job[w].id
       /\ \A r \in replies : r.code = "500" \/ \E m \in sent : m.id = r.id

Message == [id : 1..MaxRequests, source : {"base64", "url", "none"}, code : Codes,
            queued : BOOLEAN]
Answer == [id : 1..MaxRequests, code : Codes \cup {"500"}]

\* TypeOK in parts.
WorkersType == pc \in [Workers -> Labels] /\ job \in [Workers -> Job]
SharedType ==
  /\ env \in {"LOCAL", "PROD"}
  /\ received \in 0..MaxRequests
  /\ model_lock \in Workers \cup {Nobody}
  /\ input \in Images \cup {"garbled"}
  /\ sent \subseteq Message
  /\ replies \subseteq Answer
  /\ trim_count \in Nat

IInv ==
  /\ WorkersType
  /\ SharedType
  /\ JobsInv
  /\ ModelInv
  /\ IdsInv
  /\ SentInv
  /\ TrimNotSkipped

-----------------------------------------------------------------------------
(* Jobs *)

\* The fields of a job.
LEMMA JobFields ==
  ASSUME NEW j \in Job
  PROVE  /\ j.id \in 0..MaxRequests /\ j.raises \in BOOLEAN
         /\ j.base64 \in BOOLEAN /\ j.url \in BOOLEAN
         /\ j.img \in Images /\ j.data \in Seq(Pieces) /\ j.tries \in 0..RetryCount - 1
         /\ j.pic \in Images \cup {"garbled"} /\ j.nudity \in {0, 1} /\ j.code \in Codes
BY DEF Job

\* The state of a free worker, and that of one with a new request.
LEMMA FreshJob ==
  ASSUME NEW id \in 0..MaxRequests, NEW raises \in BOOLEAN, NEW base64 \in BOOLEAN,
         NEW url \in BOOLEAN, NEW code \in Codes
  PROVE  [NoJob EXCEPT !.id = id, !.raises = raises, !.base64 = base64, !.url = url, !.code = code] \in Job
<1>1. <<>> \in Seq(Pieces) /\ 0 \in 0..RetryCount - 1
  BY NumbersAssumption
<1> QED
  BY <1>1 DEF NoJob, Job, Images, Pictures

\* A free worker's job is one.
LEMMA NoJobType == NoJob \in Job
<1>1. <<>> \in Seq(Pieces) /\ 0 \in 0..RetryCount - 1
  BY NumbersAssumption
<1>2. ASSUME NEW b \in BOOLEAN
      PROVE  [id |-> 0, raises |-> b, base64 |-> b, url |-> b, img |-> "junk", data |-> <<>>, tries |-> 0,
              pic |-> "junk", nudity |-> 0, code |-> "E_OK"] \in Job
  BY <1>1, NumbersAssumption DEF Job, Images, Pictures, Codes
<1>3. FALSE \in BOOLEAN
  BY Zenon
<1> QED
  BY <1>2, <1>3, Zenon DEF NoJob

\* The changes that the stages make.
LEMMA JobChange ==
  ASSUME NEW j \in Job, NEW url \in BOOLEAN, NEW data \in Seq(Pieces),
         NEW tries \in 0..RetryCount - 1, NEW code \in Codes, NEW img \in Images,
         NEW pic \in Images \cup {"garbled"}, NEW nudity \in {0, 1}
  PROVE  /\ [j EXCEPT !.url = url] \in Job
         /\ [j EXCEPT !.data = data] \in Job
         /\ [j EXCEPT !.data = data, !.tries = tries] \in Job
         /\ [j EXCEPT !.code = code] \in Job
         /\ [j EXCEPT !.img = img, !.pic = pic, !.code = code] \in Job
         /\ [j EXCEPT !.nudity = nudity, !.code = code] \in Job
BY DEF Job

\* A piece more at the end.
LEMMA Appended ==
  ASSUME NEW data \in Seq(Pieces), NEW piece \in {<<>>, <<"part">>, <<"whole">>}
  PROVE  /\ data \o piece \in Seq(Pieces)
         /\ LastWhole(data \o <<"whole">>)
<1>1. piece \in Seq(Pieces)
  <2>1. <<>> \in Seq(Pieces) /\ <<"part">> \in Seq(Pieces) /\ <<"whole">> \in Seq(Pieces)
    BY DEF Pieces
  <2> QED
    BY <2>1, Zenon
<1>2. data \o piece \in Seq(Pieces)
  BY <1>1
<1>3. Len(data \o <<"whole">>) = Len(data) + 1 /\ (data \o <<"whole">>)[Len(data) + 1] = "whole"
  OBVIOUS
<1>4. data \o <<"whole">> # <<>>
  BY <1>3
<1> QED
  BY <1>2, <1>3, <1>4 DEF LastWhole

-----------------------------------------------------------------------------
(* What kinds of steps there are *)

\* A worker moves on with its request; the others stay where they are.
LEMMA SetEffect ==
  ASSUME IInv, NEW w \in Workers, NEW j \in Job, NEW label \in Labels, Set(w, j, label),
         JobOK(label, j)
  PROVE  /\ WorkersType' /\ JobsInv'
         /\ pc'[w] = label /\ job'[w] = j
         /\ \A q \in Workers : q # w => pc'[q] = pc[q] /\ job'[q] = job[q]
<1>1. WorkersType' /\ pc'[w] = label /\ job'[w] = j
  BY DEF IInv, WorkersType, Set
<1>2. \A q \in Workers : q # w => pc'[q] = pc[q] /\ job'[q] = job[q]
  BY DEF IInv, WorkersType, Set
<1>3. JobsInv'
  BY <1>1, <1>2 DEF IInv, JobsInv
<1> QED
  BY <1>1, <1>2, <1>3

\* A request goes on, before its response is composed: no message or answer.
LEMMA QuietStep ==
  ASSUME IInv, NEW w \in Workers, NEW j \in Job, NEW label \in Labels, Set(w, j, label),
         JobOK(label, j), j.id = job[w].id,
         pc[w] \notin {"idle", "trim", "reset"}, label \notin {"idle", "trim", "reset"},
         UNCHANGED <<env, received, sent, replies, trim_count>>
  PROVE  WorkersType' /\ JobsInv' /\ IdsInv' /\ SentInv' /\ TrimNotSkipped'
<1>1. /\ WorkersType' /\ JobsInv'
      /\ pc'[w] = label /\ job'[w] = j
      /\ \A q \in Workers : q # w => pc'[q] = pc[q] /\ job'[q] = job[q]
  BY SetEffect
<1>2. Busy' = Busy /\ Reported' = Reported /\ w \in Busy /\ w \notin Reported
  BY <1>1 DEF Busy, Reported
<1>3. \A q \in Workers : job'[q].id = job[q].id
  BY <1>1
<1>4. \A q \in Reported : job'[q] = job[q]
  BY <1>1, <1>2 DEF Reported
<1>5. IdsInv'
  BY <1>2, <1>3 DEF IInv, IdsInv, Busy
<1>6. SentInv'
  <2>1. \A m \in sent, q \in Busy : m.id = job'[q].id => q \in Reported /\ m.code = job'[q].code
    BY <1>2, <1>3, <1>4 DEF IInv, SentInv, Busy
  <2>2. env # "LOCAL" => \A q \in Reported : \E m \in sent : m.id = job'[q].id
    BY <1>4 DEF IInv, SentInv
  <2> QED
    BY <1>2, <2>1, <2>2 DEF IInv, SentInv
<1>7. TrimNotSkipped'
  BY <1>1 DEF IInv, TrimNotSkipped
<1> QED
  BY <1>1, <1>5, <1>6, <1>7

\* A quiet step that leaves the classifier alone.
LEMMA StageStep ==
  ASSUME IInv, NEW w \in Workers, NEW j \in Job, NEW label \in Labels, Set(w, j, label),
         JobOK(label, j), j.id = job[w].id, pc[w] \notin {"idle", "trim", "reset"},
         label \notin {"idle", "trim", "reset", "predicting"},
         UNCHANGED <<env, received, shared>>
  PROVE  IInv'
<1>1. WorkersType' /\ JobsInv' /\ IdsInv' /\ SentInv' /\ TrimNotSkipped'
  BY QuietStep DEF shared
<1>2. /\ pc'[w] = label
      /\ \A q \in Workers : q # w => pc'[q] = pc[q] /\ job'[q] = job[q]
  BY SetEffect
<1>3. ModelInv'
  BY <1>2 DEF IInv, ModelInv, shared
<1>4. SharedType'
  BY DEF IInv, SharedType, shared
<1> QED
  BY <1>1, <1>3, <1>4 DEF IInv

\* The worker answers and is free; the message, if there is one, agrees.
LEMMA ReplyStep ==
  ASSUME IInv, NEW w \in Workers, NEW code \in Codes \cup {"500"}, Reply(w, code),
         \/ pc[w] \in {"trim", "reset"} /\ code = job[w].code
         \/ pc[w] \notin {"idle", "trim", "reset", "predicting"} /\ code = "500",
         UNCHANGED <<env, received, model_lock, input, sent>>
  PROVE  WorkersType' /\ JobsInv' /\ ModelInv' /\ IdsInv' /\ SentInv' /\ replies' \subseteq Answer
<1> DEFINE new == [id |-> job[w].id, code |-> code]
<1>1. JobOK("idle", NoJob)
  BY DEF JobOK, Answering
<1>2. /\ WorkersType' /\ JobsInv'
      /\ pc'[w] = "idle"
      /\ \A q \in Workers : q # w => pc'[q] = pc[q] /\ job'[q] = job[q]
  BY <1>1, SetEffect, NoJobType DEF Reply, Labels
<1>3. w \in Busy /\ Busy' = Busy \ {w} /\ Reported' = Reported \ {w}
  BY <1>2 DEF Busy, Reported
<1>4. /\ replies' = replies \cup {new}
      /\ new.id = job[w].id /\ new.code = code
  BY DEF Reply
<1>5. \A q \in Busy' : q \in Busy /\ q # w /\ job'[q] = job[q]
  BY <1>2, <1>3 DEF Busy
<1> HIDE DEF new
<1>6. IdsInv'
  BY <1>3, <1>4, <1>5 DEF IInv, IdsInv
<1>7. job[w].id \in 1..received /\ job[w].code \in Codes
  BY <1>3, JobFields DEF IInv, WorkersType, IdsInv
<1>8. replies' \subseteq Answer
  <2>1. job[w].id \in 1..MaxRequests
    BY <1>7, NumbersAssumption DEF IInv, SharedType
  <2> QED
    BY <1>4, <2>1 DEF IInv, SharedType, Answer, new
<1>9. SentInv'
  <2>1. \A m \in sent : m.id = new.id => m.code = new.code /\ new.code # "500"
    <3>1. CASE pc[w] \in {"trim", "reset"} /\ code = job[w].code
      BY <1>3, <1>4, <1>7, <3>1 DEF IInv, SentInv, Codes
    <3>2. CASE pc[w] \notin {"trim", "reset"}
      BY <1>3, <1>4, <3>2 DEF IInv, SentInv, Reported
    <3> QED
      BY <3>1, <3>2
  <2>2. env # "LOCAL" => new.code = "500" \/ \E m \in sent : m.id = new.id
    BY <1>4 DEF IInv, SentInv, Reported
  <2>3. \A m \in sent, q \in Busy' : m.id = job'[q].id => q \in Reported' /\ m.code = job'[q].code
    BY <1>3, <1>5 DEF IInv, SentInv
  <2>4. env # "LOCAL" => \A q \in Reported' : \E m \in sent : m.id = job'[q].id
    <3>1. \A q \in Reported' : q \in Reported /\ job'[q] = job[q]
      BY <1>2, <1>3 DEF Reported
    <3> QED
      BY <3>1 DEF IInv, SentInv
  <2> QED
    BY <1>4, <2>1, <2>2, <2>3, <2>4 DEF IInv, SentInv
<1>10. ModelInv'
  BY <1>2 DEF IInv, ModelInv
<1> QED
  BY <1>2, <1>6, <1>8, <1>9, <1>10

\* An exception leaves HandleRequest.
LEMMA RaiseStep ==
  ASSUME IInv, NEW w \in Workers, pc[w] \in {"trans", "decode", "flow"}, Raise(w),
         UNCHANGED <<env, received>>
  PROVE  IInv'
<1>1. WorkersType' /\ JobsInv' /\ ModelInv' /\ IdsInv' /\ SentInv' /\ replies' \subseteq Answer
  BY ReplyStep DEF Raise
<1>2. SharedType'
  BY <1>1 DEF IInv, SharedType, Raise
<1>3. TrimNotSkipped'
  BY DEF IInv, WorkersType, TrimNotSkipped, Raise, Reply, Set
<1> QED
  BY <1>1, <1>2, <1>3 DEF IInv

-----------------------------------------------------------------------------
(* Every step keeps the invariant *)

\* All workers are free.
LEMMA InitIInv == Init => IInv
<1> SUFFICES ASSUME Init PROVE IInv
  OBVIOUS
<1> USE NumbersAssumption DEF Init
<1>1. WorkersType
  BY NoJobType DEF WorkersType, Labels
<1>2. SharedType
  BY DEF SharedType, Images
<1>3. JobsInv /\ ModelInv
  BY DEF JobsInv, JobOK, ModelInv, Answering
<1>4. Busy = {} /\ Reported = {}
  BY DEF Busy, Reported
<1>5. IdsInv /\ SentInv
  BY <1>4 DEF IdsInv, SentInv
<1>6. TrimNotSkipped
  BY DEF TrimNotSkipped
<1> QED
  BY <1>1, <1>2, <1>3, <1>5, <1>6 DEF IInv

\* The verdict on a body is one of the error codes.
LEMMA VerdictType == ASSUME NEW b \in Body PROVE Verdict(b) \in Codes
<1>1. b.json \in {"illegal", "raises", "late", "array", "object"}
  BY DEF Body
<1>2. ParseRequestBody(b) \in Codes
  BY <1>1 DEF ParseRequestBody, Codes
<1>3. VerifyImageParam(b) \in Codes
  <2>1. CASE b.image_base64 = "number"
    BY <2>1 DEF VerifyImageParam, Codes
  <2>2. CASE b.image_base64 = "text"
    BY <2>2 DEF VerifyImageParam, Codes
  <2>3. CASE b.image_base64 \notin {"number", "text"}
    BY <2>3 DEF VerifyImageParam, Codes
  <2> QED
    BY <2>1, <2>2, <2>3
<1> QED
  BY <1>2, <1>3 DEF Verdict

\* A request arrives, with a number that nobody has.
LEMMA ReceiveInv == ASSUME IInv, NEW w \in Workers, NEW b \in Body, Receive(w, b) PROVE IInv'
<1> DEFINE base64 == Verdict(b) = "E_OK" /\ b.image_base64 = "text"
           url == Verdict(b) = "E_OK" /\ ~base64
           label == IF Verdict(b) # "E_OK" THEN "flow" ELSE IF base64 THEN "base64" ELSE "trans"
           raises == b.json = "raises"
           j == [NoJob EXCEPT !.id = received + 1, !.raises = raises, !.base64 = base64,
                              !.url = url, !.code = Verdict(b)]
<1>1. pc[w] = "idle" /\ Set(w, j, label) /\ received' = received + 1 /\ UNCHANGED <<env, shared>>
  BY DEF Receive
<1>2. received + 1 \in 1..MaxRequests
  BY NumbersAssumption DEF IInv, SharedType, Receive
<1>3. base64 \in BOOLEAN /\ url \in BOOLEAN /\ raises \in BOOLEAN
  BY Zenon
<1>4. j \in Job
  <2> HIDE DEF base64, url, raises
  <2>1. received + 1 \in 0..MaxRequests /\ Verdict(b) \in Codes
    BY <1>2, VerdictType
  <2> QED
    BY <1>3, <2>1, FreshJob, Zenon
<1>5. j.id = received + 1 /\ j.base64 = base64 /\ j.code = Verdict(b)
  <2> HIDE DEF base64, url, raises
  <2> QED
    BY DEF NoJob
<1>6. label \in {"flow", "base64", "trans"}
  OBVIOUS
<1>7. JobOK(label, j)
  <2>1. label = "base64" => j.base64
    BY <1>5
  <2>2. label = "flow" => j.code # "E_OK"
    BY <1>5
  <2> HIDE DEF j, label
  <2> QED
    BY <1>6, <2>1, <2>2 DEF JobOK, Answering
<1> HIDE DEF j, label, base64, url, raises
<1>8. /\ WorkersType' /\ JobsInv'
      /\ pc'[w] = label /\ job'[w] = j
      /\ \A q \in Workers : q # w => pc'[q] = pc[q] /\ job'[q] = job[q]
  BY <1>1, <1>4, <1>6, <1>7, SetEffect DEF Labels, Answering
<1>9. Busy' = Busy \cup {w} /\ Reported' = Reported /\ w \notin Busy /\ w \notin Reported
  BY <1>1, <1>6, <1>8 DEF Busy, Reported
<1>10. \A q \in Busy : q # w /\ job'[q] = job[q]
  BY <1>8, <1>9 DEF Busy
<1>11. IdsInv'
  BY <1>1, <1>2, <1>5, <1>8, <1>9, <1>10 DEF IInv, SharedType, IdsInv, shared
<1>12. SentInv'
  <2>1. \A m \in sent : m.id # j.id /\ m.id \in 1..received + 1
    BY <1>2, <1>5 DEF IInv, SharedType, SentInv
  <2>2. \A m \in sent, q \in Busy' : m.id = job'[q].id => q \in Reported' /\ m.code = job'[q].code
    BY <1>8, <1>9, <1>10, <2>1 DEF IInv, SentInv
  <2>3. env # "LOCAL" => \A q \in Reported' : \E m \in sent : m.id = job'[q].id
    <3>1. \A q \in Reported : job'[q] = job[q]
      BY <1>8, <1>9 DEF Reported
    <3> QED
      BY <1>9, <3>1 DEF IInv, SentInv
  <2> QED
    BY <1>1, <2>1, <2>2, <2>3 DEF IInv, SentInv, shared
<1>13. SharedType'
  BY <1>1, <1>2 DEF IInv, SharedType, shared
<1>14. ModelInv'
  BY <1>1, <1>6, <1>8 DEF IInv, ModelInv, shared
<1>15. TrimNotSkipped'
  BY <1>1, <1>8 DEF IInv, TrimNotSkipped, shared
<1> QED
  BY <1>8, <1>11, <1>12, <1>13, <1>14, <1>15 DEF IInv

\* A request that fails needs nothing more to be shown about it.
LEMMA FailStep ==
  ASSUME IInv, NEW w \in Workers, pc[w] \notin {"idle", "trim", "reset"},
         NEW code \in Codes, code # "E_OK", Fail(w, code), UNCHANGED <<env, received, shared>>
  PROVE  IInv'
<1> DEFINE j == [job[w] EXCEPT !.code = code]
<1>1. job[w] \in Job
  BY DEF IInv, WorkersType
<1>2. j \in Job
  BY <1>1 DEF Job
<1>3. j.id = job[w].id /\ j.code = code
  BY <1>1 DEF Job
<1>4. Set(w, j, "flow")
  BY DEF Fail
<1> HIDE DEF j
<1>5. JobOK("flow", j)
  BY <1>3 DEF JobOK, Answering
<1> QED
  BY <1>2, <1>3, <1>4, <1>5, StageStep DEF Labels, Answering

\* The inner URL.
LEMMA TransInv == ASSUME IInv, NEW w \in Workers, TransSingleURL(w) PROVE IInv'
<1>1. ASSUME NEW u \in Trans2InnerUrl, Set(w, [job[w] EXCEPT !.url = u], "fetch"),
             UNCHANGED shared
      PROVE  IInv'
  <2> DEFINE j == [job[w] EXCEPT !.url = u]
  <2>1. job[w] \in Job
    BY DEF IInv, WorkersType
  <2>2. u \in BOOLEAN
    BY Zenon DEF Trans2InnerUrl
  <2>3. j \in Job /\ j.id = job[w].id
    BY <2>1, <2>2 DEF Job
  <2> HIDE DEF j
  <2>4. JobOK("fetch", j)
    BY DEF JobOK, Answering
  <2> QED
    BY <1>1, <2>3, <2>4, StageStep DEF TransSingleURL, Labels, j
<1>2. CASE Raise(w)
  BY <1>2, RaiseStep DEF TransSingleURL
<1> QED
  BY <1>1, <1>2 DEF TransSingleURL

\* An image in the request itself.
LEMMA Base64Inv == ASSUME IInv, NEW w \in Workers, Base64Data(w) PROVE IInv'
<1>1. CASE Set(w, [job[w] EXCEPT !.data = <<"whole">>], "decode")
  <2> DEFINE j == [job[w] EXCEPT !.data = <<"whole">>]
  <2>1. job[w] \in Job /\ job[w].base64
    BY DEF IInv, WorkersType, JobsInv, JobOK, Base64Data
  <2>2. <<"whole">> \in Seq(Pieces) /\ LastWhole(<<"whole">>)
    BY DEF Pieces, LastWhole
  <2>3. j \in Job /\ j.id = job[w].id /\ j.data = <<"whole">> /\ j.base64 = job[w].base64
    BY <2>1, <2>2 DEF Job
  <2>4. Set(w, j, "decode")
    BY <1>1
  <2> HIDE DEF j
  <2>5. JobOK("decode", j)
    BY <2>1, <2>2, <2>3 DEF JobOK, HasSource, Answering
  <2> QED
    BY <2>3, <2>4, <2>5, StageStep DEF Base64Data, Labels
<1>2. CASE Fail(w, "E_IMAGE_BASE64_DECODE")
  BY <1>2, FailStep DEF Base64Data, Codes
<1> QED
  BY <1>1, <1>2 DEF Base64Data

\* A download that succeeds, possibly after pieces of failed ones.
LEMMA AttemptOk ==
  ASSUME IInv, NEW w \in Workers, pc[w] = "fetch", job[w].url, Attempt(w, TRUE, <<"whole">>),
         UNCHANGED <<env, received, shared>>
  PROVE  IInv'
<1> DEFINE data == job[w].data \o <<"whole">>
           j == [job[w] EXCEPT !.data = data, !.tries = 0]
<1>1. job[w] \in Job
  BY DEF IInv, WorkersType
<1>2. data \in Seq(Pieces) /\ LastWhole(data)
  BY <1>1, JobFields, Appended
<1>3. Set(w, j, "decode")
  BY DEF Attempt
<1>4. 0 \in 0..RetryCount - 1
  BY NumbersAssumption
<1> HIDE DEF data
<1>5. j \in Job /\ j.id = job[w].id /\ j.data = data /\ j.url = job[w].url
  BY <1>1, <1>2, <1>4 DEF Job
<1> HIDE DEF j
<1>6. JobOK("decode", j)
  BY <1>2, <1>5 DEF JobOK, HasSource, Answering
<1> QED
  BY <1>3, <1>5, <1>6, StageStep DEF Labels

\* One that fails, with what it leaves behind: the next attempt, or the end.
LEMMA AttemptFailed ==
  ASSUME IInv, NEW w \in Workers, pc[w] = "fetch", NEW piece \in Leavings,
         Attempt(w, FALSE, piece), UNCHANGED <<env, received, shared>>
  PROVE  IInv'
<1> DEFINE data == job[w].data \o piece
           i == job[w].tries + 1
<1>1. job[w] \in Job
  BY DEF IInv, WorkersType
<1>2. data \in Seq(Pieces)
  BY <1>1, JobFields, Appended DEF Leavings
<1>3. i \in Nat /\ 0 \in 0..RetryCount - 1
  BY <1>1, JobFields, NumbersAssumption
<1>4. CASE i < RetryCount
  <2> DEFINE j == [[job[w] EXCEPT !.data = data, !.tries = 0] EXCEPT !.tries = i]
  <2>1. Set(w, j, "fetch")
    BY <1>4 DEF Attempt
  <2>2. i \in 0..RetryCount - 1
    BY <1>3, <1>4, NumbersAssumption
  <2> HIDE DEF data, i
  <2>3. j \in Job /\ j.id = job[w].id
    BY <1>1, <1>2, <2>2 DEF Job
  <2> HIDE DEF j
  <2>4. JobOK("fetch", j)
    BY DEF JobOK, Answering
  <2> QED
    BY <2>1, <2>3, <2>4, StageStep DEF Labels
<1>5. CASE ~(i < RetryCount)
  <2> DEFINE j == [[job[w] EXCEPT !.data = data, !.tries = 0] EXCEPT !.code = "E_IMAGE_DOWNLOAD"]
  <2>1. Set(w, j, "flow")
    BY <1>5 DEF Attempt
  <2> HIDE DEF data, i
  <2>2. j \in Job /\ j.id = job[w].id /\ j.code # "E_OK"
    BY <1>1, <1>2, <1>3 DEF Job, Codes
  <2> HIDE DEF j
  <2>3. JobOK("flow", j)
    BY <2>2 DEF JobOK, Answering
  <2> QED
    BY <2>1, <2>2, <2>3, StageStep DEF Labels, Answering
<1> QED
  BY <1>4, <1>5

\* The image at a URL.
LEMMA UrlInv == ASSUME IInv, NEW w \in Workers, UrlData(w) PROVE IInv'
<1>1. CASE ~job[w].url
  BY <1>1, FailStep DEF UrlData, Codes
<1>2. CASE job[w].url
  BY <1>2, AttemptOk, AttemptFailed DEF UrlData
<1> QED
  BY <1>1, <1>2

\* What passes ImageVerdict, when the whole image came at once.
LEMMA VerdictOnImage ==
  ASSUME NEW data \in Seq(Pieces), LastWhole(data), NEW img \in Images,
         NEW pic \in Decoded(data, img), pic # "refused"
  PROVE  /\ pic \in Images \cup {"garbled"}
         /\ ImageVerdict(pic) \in Codes
         /\ ImageVerdict(pic) = "E_OK" /\ data = <<"whole">> => img \in Pictures /\ pic = img
<1>1. pic \in Images \cup {"garbled"}
  BY DEF Decoded, Images
<1>2. ImageVerdict(pic) \in Codes
  BY DEF ImageVerdict, Codes
<1>3. ASSUME data = <<"whole">>, ImageVerdict(pic) = "E_OK" PROVE img \in Pictures /\ pic = img
  <2>1. pic = img
    BY <1>3 DEF Decoded
  <2>2. pic \notin {"junk", "huge", "foreign"}
    BY <1>3 DEF ImageVerdict
  <2> QED
    BY <2>1, <2>2 DEF Images
<1> QED
  BY <1>1, <1>2, <1>3

\* DecodeImage and CheckImageFormat.
LEMMA DecodeInv == ASSUME IInv, NEW w \in Workers, DecodeImage(w) PROVE IInv'
<1>1. PICK img \in Images : \E pic \in Decoded(job[w].data, img) :
        IF pic = "refused"
        THEN Raise(w)
        ELSE /\ Set(w, [job[w] EXCEPT !.img = img, !.pic = pic, !.code = ImageVerdict(pic)],
                    IF ImageVerdict(pic) = "E_OK" THEN "predict" ELSE "flow")
             /\ UNCHANGED shared
  BY DEF DecodeImage
<1>2. CASE Raise(w)
  BY <1>2, RaiseStep DEF DecodeImage
<1>3. ASSUME NEW pic \in Decoded(job[w].data, img), pic # "refused",
             Set(w, [job[w] EXCEPT !.img = img, !.pic = pic, !.code = ImageVerdict(pic)],
                 IF ImageVerdict(pic) = "E_OK" THEN "predict" ELSE "flow"),
             UNCHANGED shared
      PROVE  IInv'
  <2> DEFINE j == [job[w] EXCEPT !.img = img, !.pic = pic, !.code = ImageVerdict(pic)]
             label == IF ImageVerdict(pic) = "E_OK" THEN "predict" ELSE "flow"
  <2>1. job[w] \in Job /\ HasSource(job[w]) /\ LastWhole(job[w].data)
    BY DEF IInv, WorkersType, JobsInv, JobOK, DecodeImage
  <2>2. /\ pic \in Images \cup {"garbled"}
        /\ ImageVerdict(pic) \in Codes
        /\ ImageVerdict(pic) = "E_OK" /\ job[w].data = <<"whole">> => img \in Pictures /\ pic = img
    BY <1>3, <2>1, JobFields, VerdictOnImage
  <2>3. /\ j \in Job /\ j.id = job[w].id /\ j.data = job[w].data /\ j.img = img /\ j.pic = pic
        /\ j.code = ImageVerdict(pic) /\ j.base64 = job[w].base64 /\ j.url = job[w].url
    BY <2>1, <2>2 DEF Job
  <2>4. Set(w, j, label) /\ label \in {"predict", "flow"}
    BY <1>3
  <2>5. label = "predict" <=> ImageVerdict(pic) = "E_OK"
    OBVIOUS
  <2> HIDE DEF j, label
  <2>6. JobOK(label, j)
    BY <2>1, <2>2, <2>3, <2>4, <2>5 DEF JobOK, HasSource, Answering
  <2> QED
    BY <1>3, <2>3, <2>4, <2>6, StageStep DEF DecodeImage, Labels, Answering
<1> QED
  BY <1>1, <1>2, <1>3

\* g_model_lock is free, so nobody else is in predict.
LEMMA PredictBeginInv == ASSUME IInv, NEW w \in Workers, PredictBegin(w) PROVE IInv'
<1>1. /\ job[w] \in Job /\ pc[w] = "predict" /\ Set(w, job[w], "predicting")
      /\ UNCHANGED <<env, received, sent, replies, trim_count>>
  BY DEF IInv, WorkersType, PredictBegin
<1>2. JobOK("predicting", job[w])
  BY <1>1 DEF IInv, JobsInv, JobOK, Answering
<1>3. WorkersType' /\ JobsInv' /\ IdsInv' /\ SentInv' /\ TrimNotSkipped'
  BY <1>1, <1>2, QuietStep DEF Labels
<1>4. /\ job'[w] = job[w]
      /\ \A q \in Workers : q # w => pc'[q] = pc[q] /\ job'[q] = job[q]
  BY <1>1, <1>2, SetEffect DEF Labels
<1>5. ModelInv'
  BY <1>4, WorkersAssumption DEF IInv, ModelInv, PredictBegin
<1>6. SharedType'
  BY <1>1, JobFields DEF IInv, SharedType, PredictBegin
<1> QED
  BY <1>3, <1>5, <1>6 DEF IInv

\* predict returns a label of what is in the classifier, the worker's own
\* image, or raises; both release the lock.
LEMMA PredictEndInv == ASSUME IInv, NEW w \in Workers, PredictEnd(w) PROVE IInv'
<1>1. /\ job[w] \in Job /\ pc[w] = "predicting" /\ input = job[w].pic /\ model_lock = w
      /\ HasSource(job[w]) /\ LastWhole(job[w].data)
      /\ job[w].data = <<"whole">> => job[w].img \in Pictures /\ job[w].pic = job[w].img
  BY DEF IInv, WorkersType, ModelInv, JobsInv, JobOK, PredictEnd
<1>2. ASSUME NEW j \in Job, Set(w, j, "flow"), JobOK("flow", j), j.id = job[w].id
      PROVE  IInv'
  <2>1. WorkersType' /\ JobsInv' /\ IdsInv' /\ SentInv' /\ TrimNotSkipped'
    BY <1>1, <1>2, QuietStep DEF PredictEnd, Labels, Answering
  <2>2. /\ pc'[w] = "flow"
        /\ \A q \in Workers : q # w => pc'[q] = pc[q] /\ job'[q] = job[q]
    BY <1>2, SetEffect DEF Labels, Answering
  <2>3. ModelInv'
    BY <1>1, <2>2 DEF IInv, ModelInv, PredictEnd
  <2>4. SharedType'
    BY DEF IInv, SharedType, PredictEnd
  <2> QED
    BY <2>1, <2>3, <2>4 DEF IInv
<1>3. ASSUME NEW level \in Levels(input),
             Set(w, [job[w] EXCEPT !.nudity = Nudity(level), !.code = handler(0)], "flow")
      PROVE  IInv'
  <2> DEFINE j == [job[w] EXCEPT !.nudity = Nudity(level), !.code = handler(0)]
  <2>1. Nudity(level) \in {0, 1} /\ handler(0) = "E_OK"
    BY DEF Nudity, handler
  <2>2. /\ j \in Job /\ j.id = job[w].id /\ j.data = job[w].data /\ j.img = job[w].img
        /\ j.nudity = Nudity(level) /\ j.base64 = job[w].base64 /\ j.url = job[w].url
    BY <1>1, <2>1 DEF Job, Codes
  <2>3. job[w].data = <<"whole">> => Nudity(level) = IF job[w].img = "nude" THEN 1 ELSE 0
    <3>1. CASE input = "clean"
      BY <1>1, <1>3, <3>1 DEF Levels, Nudity
    <3>2. CASE input = "nude"
      BY <1>1, <1>3, <3>2 DEF Levels, Nudity
    <3> QED
      BY <1>1, <3>1, <3>2 DEF Pictures
  <2>4. Set(w, j, "flow")
    BY <1>3
  <2> HIDE DEF j
  <2>5. JobOK("flow", j)
    BY <1>1, <2>2, <2>3 DEF JobOK, HasSource, Answering
  <2> QED
    BY <1>2, <2>2, <2>4, <2>5
<1>4. CASE Fail(w, handler(-1))
  <2> DEFINE j == [job[w] EXCEPT !.code = handler(-1)]
  <2>1. handler(-1) = "E_ALG_FAILED"
    BY DEF handler
  <2>2. j \in Job /\ j.id = job[w].id /\ j.code # "E_OK"
    BY <1>1, <2>1 DEF Job, Codes
  <2>3. Set(w, j, "flow")
    BY <1>4 DEF Fail
  <2> HIDE DEF j
  <2>4. JobOK("flow", j)
    BY <2>2 DEF JobOK, Answering
  <2> QED
    BY <1>2, <2>2, <2>3, <2>4
<1> QED
  BY <1>3, <1>4 DEF PredictEnd

\* What SendMsg is given: the request's number and code, and a source if OK.
LEMMA MessageOf ==
  ASSUME NEW j \in Job, j.id \in 1..MaxRequests, NEW b \in BOOLEAN,
         j.code = "E_OK" => HasSource(j)
  PROVE  LET m == [JsonData(j) EXCEPT !.queued = b]
         IN  /\ m \in Message /\ m.id = j.id /\ m.code = j.code
             /\ m.code = "E_OK" => m.source # "none"
<1> DEFINE m == [JsonData(j) EXCEPT !.queued = b]
<1>1. SourceInfos(j) \in {"base64", "url", "none"}
  BY DEF SourceInfos
<1>2. HasSource(j) => SourceInfos(j) # "none"
  <2>1. CASE j.base64
    BY <2>1 DEF SourceInfos
  <2>2. CASE ~j.base64 /\ j.url
    BY <2>2 DEF SourceInfos
  <2> QED
    BY <2>1, <2>2 DEF HasSource
<1>3. m = [id |-> j.id, source |-> SourceInfos(j), code |-> j.code, queued |-> b]
  BY DEF JsonData
<1> QED
  BY <1>1, <1>2, <1>3, JobFields DEF Message

\* A worker past SendDataFlow has one message, with its code, or none in LOCAL.
LEMMA SendStep ==
  ASSUME IInv, NEW w \in Workers, pc[w] = "flow", Set(w, job[w], "trim"),
         \/ env = "LOCAL" /\ UNCHANGED sent
         \/ /\ env # "LOCAL"
            /\ \E m \in Message : /\ sent' = sent \cup {m}
                                  /\ m.id = job[w].id /\ m.code = job[w].code
                                  /\ m.code = "E_OK" => m.source # "none",
         UNCHANGED <<env, received, replies, model_lock, input, trim_count>>
  PROVE  IInv'
<1>1. job[w] \in Job /\ JobOK("trim", job[w])
  BY DEF IInv, WorkersType, JobsInv, JobOK, Answering
<1>2. /\ WorkersType' /\ JobsInv'
      /\ pc'[w] = "trim" /\ job'[w] = job[w]
      /\ \A q \in Workers : q # w => pc'[q] = pc[q] /\ job'[q] = job[q]
  BY <1>1, SetEffect DEF Labels, Answering
<1>3. /\ Busy' = Busy /\ Reported' = Reported \cup {w} /\ w \in Busy /\ w \notin Reported
      /\ \A q \in Workers : job'[q] = job[q]
  BY <1>2 DEF Busy, Reported
<1>4. IdsInv'
  BY <1>3 DEF IInv, IdsInv, Busy
<1>5. SharedType'
  BY DEF IInv, SharedType
<1>6. ModelInv' /\ TrimNotSkipped'
  BY <1>2 DEF IInv, ModelInv, TrimNotSkipped
<1>7. \A n \in sent : n.id # job[w].id
  BY <1>3 DEF IInv, SentInv
<1>8. \A q \in Busy : q \in Workers
  BY DEF Busy
<1>9. SentInv'
  <2>1. CASE env = "LOCAL" /\ UNCHANGED sent
    BY <2>1 DEF IInv, SentInv
  <2>2. ASSUME env # "LOCAL", NEW m \in Message, sent' = sent \cup {m},
               m.id = job[w].id, m.code = job[w].code, m.code = "E_OK" => m.source # "none"
        PROVE  SentInv'
    <3>1. \A n \in sent' : env # "LOCAL" /\ n.id \in 1..received
                           /\ (n.code = "E_OK" => n.source # "none")
      BY <1>3, <2>2 DEF IInv, SentInv, IdsInv
    <3>2. \A n, k \in sent' : n.id = k.id => n = k
      BY <1>7, <2>2 DEF IInv, SentInv
    <3>3. \A n \in sent', q \in Busy : n.id = job[q].id => q \in Reported' /\ n.code = job[q].code
      <4>1. \A q \in Busy : m.id = job[q].id => q = w
        BY <1>3, <2>2 DEF IInv, IdsInv
      <4> QED
        BY <1>3, <2>2, <4>1 DEF IInv, SentInv
    <3>4. \A n \in sent', r \in replies : n.id = r.id => n.code = r.code /\ r.code # "500"
      <4>1. \A r \in replies : m.id # r.id
        BY <1>3, <2>2 DEF IInv, IdsInv
      <4> QED
        BY <2>2, <4>1 DEF IInv, SentInv
    <3>5. /\ \A q \in Reported' : \E n \in sent' : n.id = job[q].id
          /\ \A r \in replies : r.code = "500" \/ \E n \in sent' : n.id = r.id
      BY <1>3, <2>2 DEF IInv, SentInv
    <3>6. \A q \in Reported' : job'[q] = job[q]
      BY <1>3 DEF Reported
    <3> QED
      BY <1>3, <1>8, <3>1, <3>2, <3>3, <3>4, <3>5, <3>6 DEF SentInv
  <2> QED
    BY <2>1, <2>2
<1> QED
  BY <1>2, <1>4, <1>5, <1>6, <1>9 DEF IInv

\* The response is reported, or reading the body again raises.
LEMMA SendInv == ASSUME IInv, NEW w \in Workers, SendDataFlow(w) PROVE IInv'
<1>1. job[w] \in Job /\ (job[w].code = "E_OK" => HasSource(job[w]))
  BY DEF IInv, WorkersType, JobsInv, JobOK, Answering, SendDataFlow
<1>2. job[w].id \in 1..MaxRequests
  <2>1. job[w].id \in 1..received
    BY DEF IInv, IdsInv, Busy, SendDataFlow
  <2> QED
    BY <2>1, NumbersAssumption DEF IInv, SharedType
<1>3. ASSUME SendMsg(JsonData(job[w]))
      PROVE  \E m \in Message : /\ sent' = sent \cup {m}
                                /\ m.id = job[w].id /\ m.code = job[w].code
                                /\ m.code = "E_OK" => m.source # "none"
  <2>1. \E b \in BOOLEAN : sent' = sent \cup {[JsonData(job[w]) EXCEPT !.queued = b]}
    <3>1. CASE sent' = sent \cup {[JsonData(job[w]) EXCEPT !.queued = TRUE]}
      BY <3>1, Zenon
    <3>2. CASE sent' = sent \cup {JsonData(job[w])}
      <4>1. \E b \in BOOLEAN : JsonData(job[w]) = [id |-> job[w].id, source |-> SourceInfos(job[w]),
                                                    code |-> job[w].code, queued |-> b]
        BY Zenon DEF JsonData
      <4>2. PICK b \in BOOLEAN : JsonData(job[w]) = [id |-> job[w].id, source |-> SourceInfos(job[w]),
                                                     code |-> job[w].code, queued |-> b]
        BY <4>1
      <4>3. JsonData(job[w]) = [JsonData(job[w]) EXCEPT !.queued = b]
        BY <4>2
      <4> QED
        BY <3>2, <4>3, Zenon
    <3> QED
      BY <1>3, <3>1, <3>2 DEF SendMsg
  <2> QED
    BY <1>1, <1>2, <2>1, MessageOf
<1>4. CASE Raise(w) /\ UNCHANGED <<env, received>>
  BY <1>4, RaiseStep DEF SendDataFlow
<1>5. CASE /\ \/ env # "LOCAL" /\ SendMsg(JsonData(job[w]))
              \/ env = "LOCAL" /\ UNCHANGED sent
           /\ Set(w, job[w], "trim")
           /\ UNCHANGED <<env, received, replies, model_lock, input, trim_count>>
  BY <1>3, <1>5, SendStep DEF SendDataFlow
<1> QED
  BY <1>4, <1>5, Zenon DEF SendDataFlow

\* The counter reaches its period only by a step that goes on to reset it.
LEMMA MallocTrimInv == ASSUME IInv, NEW w \in Workers, MallocTrim(w) PROVE IInv'
<1>1. trim_count \in Nat /\ trim_count' = trim_count + 1 /\ pc[w] = "trim"
  BY DEF IInv, SharedType, MallocTrim
<1>2. TrimPeriod % TrimPeriod = 0 /\ TrimPeriod \in Nat
  BY NumbersAssumption
<1>3. CASE trim_count' % TrimPeriod = 0
  <2>1. /\ job[w] \in Job /\ Set(w, job[w], "reset")
        /\ UNCHANGED <<env, received, model_lock, input, sent, replies>>
    BY <1>3 DEF IInv, WorkersType, MallocTrim
  <2>2. JobOK("reset", job[w])
    BY <1>1 DEF IInv, JobsInv, JobOK, Answering
  <2>3. /\ WorkersType' /\ JobsInv'
        /\ pc'[w] = "reset" /\ job'[w] = job[w]
        /\ \A q \in Workers : q # w => pc'[q] = pc[q] /\ job'[q] = job[q]
    BY <2>1, <2>2, SetEffect DEF Labels, Answering
  <2>4. Busy' = Busy /\ Reported' = Reported /\ \A q \in Workers : job'[q] = job[q]
    BY <1>1, <2>3 DEF Busy, Reported
  <2>5. IdsInv'
    BY <2>1, <2>4 DEF IInv, IdsInv, Busy
  <2>6. SentInv'
    <3>1. Busy \subseteq Workers /\ Reported \subseteq Workers
      BY DEF Busy, Reported
    <3>2. \A q \in Busy \cup Reported : job'[q] = job[q]
      BY <2>4, <3>1
    <3> QED
      BY <2>1, <2>4, <3>2 DEF IInv, SentInv
  <2>7. SharedType' /\ ModelInv'
    BY <1>1, <2>1, <2>3 DEF IInv, SharedType, ModelInv
  <2>8. TrimNotSkipped'
    BY <2>3 DEF TrimNotSkipped
  <2> QED
    BY <2>3, <2>5, <2>6, <2>7, <2>8 DEF IInv
<1>4. CASE trim_count' % TrimPeriod # 0
  <2>1. Reply(w, job[w].code) /\ UNCHANGED <<env, received, model_lock, input, sent>>
    BY <1>4 DEF MallocTrim
  <2>2. job[w].code \in Codes
    BY JobFields DEF IInv, WorkersType
  <2>3. WorkersType' /\ JobsInv' /\ ModelInv' /\ IdsInv' /\ SentInv' /\ replies' \subseteq Answer
    BY <1>1, <2>1, <2>2, ReplyStep
  <2>4. SharedType'
    BY <1>1, <2>1, <2>3 DEF IInv, SharedType
  <2>5. TrimNotSkipped'
    <3>1. trim_count' >= TrimPeriod => trim_count >= TrimPeriod
      BY <1>1, <1>2, <1>4
    <3>2. \A q \in Workers : pc[q] = "reset" => pc'[q] = "reset"
      BY <1>1, <2>1 DEF IInv, WorkersType, Reply, Set
    <3> QED
      BY <3>1, <3>2 DEF IInv, TrimNotSkipped
  <2> QED
    BY <2>3, <2>4, <2>5 DEF IInv
<1> QED
  BY <1>3, <1>4

\* The reset, whatever was counted in between.
LEMMA TrimResetInv == ASSUME IInv, NEW w \in Workers, TrimReset(w) PROVE IInv'
<1>1. job[w].code \in Codes
  BY JobFields DEF IInv, WorkersType
<1>2. WorkersType' /\ JobsInv' /\ ModelInv' /\ IdsInv' /\ SentInv' /\ replies' \subseteq Answer
  BY <1>1, ReplyStep DEF TrimReset
<1>3. SharedType'
  BY <1>2 DEF IInv, SharedType, TrimReset
<1>4. TrimNotSkipped'
  BY NumbersAssumption DEF TrimNotSkipped, TrimReset
<1> QED
  BY <1>2, <1>3, <1>4 DEF IInv

\* Every step keeps the inductive invariant.
LEMMA NextIInv == IInv /\ [Next]_vars => IInv'
<1> SUFFICES ASSUME IInv, [Next]_vars PROVE IInv'
  OBVIOUS
<1>1. CASE UNCHANGED vars
  <2>1. WorkersType' /\ SharedType' /\ JobsInv' /\ ModelInv' /\ TrimNotSkipped'
    BY <1>1 DEF vars, IInv, WorkersType, SharedType, JobsInv, ModelInv, TrimNotSkipped
  <2>2. IdsInv' /\ SentInv'
    BY <1>1 DEF vars, IInv, IdsInv, SentInv, Busy, Reported
  <2> QED
    BY <2>1, <2>2 DEF IInv
<1>2. ASSUME NEW w \in Workers, HandleRequest(w) PROVE IInv'
  BY <1>2, TransInv, Base64Inv, UrlInv, DecodeInv, PredictBeginInv, PredictEndInv, SendInv,
     MallocTrimInv, TrimResetInv DEF HandleRequest
<1> QED
  BY <1>1, <1>2, ReceiveInv DEF Next

-----------------------------------------------------------------------------
(* The theorems *)

\* The inductive invariant holds throughout.
LEMMA Invariant == Spec => []IInv
BY InitIInv, NextIInv, PTL DEF Spec

\* Type correctness; i of CallWithRetry stays below retry_count.
THEOREM TypeCorrect == Spec => []TypeOK
<1>1. IInv => TypeOK
  BY DEF IInv, WorkersType, SharedType, TypeOK, Labels, Message, Answer
<1> QED
  BY <1>1, Invariant, PTL

\* Each request gets the label of its own image: g_model_lock covers the
\* classifier from its input to its output.
THEOREM OwnLabel == Spec => []LabelIsOwn
<1>1. IInv => LabelIsOwn
  BY DEF IInv, JobsInv, JobOK, LabelIsOwn
<1> QED
  BY <1>1, Invariant, PTL

\* An OK means an image that arrived to its end and, if at once, was accepted.
THEOREM OkIsEarned == Spec => []OkMeansAccepted
<1>1. IInv => OkMeansAccepted
  BY DEF IInv, JobsInv, JobOK, LastWhole, OkMeansAccepted
<1> QED
  BY <1>1, Invariant, PTL

\* MallocTrim's counter does not run past its period with nobody to reset it.
THEOREM TrimHappens == Spec => []TrimNotSkipped
<1>1. IInv => TrimNotSkipped
  BY DEF IInv
<1> QED
  BY <1>1, Invariant, PTL

\* What SendDataFlow reports is what the client is told, once.
THEOREM ReportsAgree == Spec => []ReportedAsAnswered
<1>1. ASSUME IInv PROVE ReportedAsAnswered
  <2> SUFFICES ASSUME NEW r \in replies
               PROVE  LET reports == {m \in sent : m.id = r.id}
                      IN  /\ \A m \in reports : m.code = r.code
                          /\ \A m \in reports : m.code = "E_OK" => m.source # "none"
                          /\ Cardinality(reports) <= 1
                          /\ env = "LOCAL" \/ r.code = "500" => reports = {}
                          /\ env # "LOCAL" /\ r.code # "500" => reports # {}
    BY DEF ReportedAsAnswered
  <2> DEFINE reports == {m \in sent : m.id = r.id}
  <2>1. /\ \A m \in reports : m.code = r.code
        /\ \A m \in reports : m.code = "E_OK" => m.source # "none"
        /\ env = "LOCAL" \/ r.code = "500" => reports = {}
        /\ env # "LOCAL" /\ r.code # "500" => reports # {}
    BY <1>1 DEF IInv, SentInv
  <2>2. reports = {} \/ \E m \in sent : reports = {m}
    BY <1>1 DEF IInv, SentInv
  <2> HIDE DEF reports
  <2>3. Cardinality(reports) <= 1
    <3>1. Cardinality(reports) = 0 \/ Cardinality(reports) = 1
      BY <2>2, FS_EmptySet, FS_Singleton
    <3> QED
      BY <3>1
  <2> QED
    BY <2>1, <2>3 DEF reports
<1> QED
  BY <1>1, Invariant, PTL
=============================================================================
