---------------------------- MODULE ImageRequest ----------------------------
(***************************************************************************)
(* The life of a POST request: Listen's route, ImageInterface, the image   *)
(* operations and downloads, MicroserviceDemo::handler, alg_process, the   *)
(* data flow to Kafka and MallocTrim, run by the worker threads of the     *)
(* HTTP server.  Workers share the classifier behind g_model_lock, the     *)
(* Kafka producer and trim_count_; everything else is a request's own.     *)
(***************************************************************************)
EXTENDS Integers, Sequences, FiniteSets

CONSTANTS Workers,      \* threads of the HTTP server
          Nobody,       \* no thread
          RetryCount,   \* retry_count of GetImageData
          TrimPeriod,   \* 1000 in MallocTrim
          MaxRequests,  \* bound on the requests received
          Faults        \* what may fail: "trans", "conf", "download", "model", "kafka"

ASSUME WorkersAssumption == IsFiniteSet(Workers) /\ Nobody \notin Workers
ASSUME NumbersAssumption ==
  RetryCount \in Nat \ {0} /\ TrimPeriod \in Nat \ {0} /\ MaxRequests \in Nat
ASSUME FaultsAssumption ==
  Faults \subseteq {"trans", "conf", "download", "model", "kafka"}

VARIABLES
  env,         \* CURRENT_ENV
  received,    \* the number of requests received
  pc,          \* where each worker is
  job,         \* the request each worker has, and the locals of its handling
  model_lock,  \* the owner of g_model_lock
  input,       \* the image in the classifier, which is not reentrant
  sent,        \* the messages handed to SendMsg, and whether Kafka queued them
  replies,     \* the HTTP responses
  trim_count   \* trim_count_

vars == <<env, received, pc, job, model_lock, input, sent, replies, trim_count>>
shared == <<model_lock, input, sent, replies, trim_count>>

-----------------------------------------------------------------------------
(* Requests and images *)

\* A member of the request body: absent, not a string, "", or a text.
Field == {"absent", "number", "empty", "text"}

\* A body: what the JSON reader makes of it and its two members.  It may raise
\* on it, or only on what is "late" in it, behind a NUL, where C strings end.
Body == [json : {"illegal", "raises", "late", "array"}, image_base64 : {"absent"},
         image_url : {"absent"}]
        \cup [json : {"object"}, image_base64 : Field, image_url : Field]

\* What a URL serves or a text encodes: a picture in a known format, one beyond
\* 4K, one in another format, no picture, or what makes cv::imdecode raise (an
\* empty buffer, an image past OpenCV's own limits).
Pictures == {"nude", "clean"}
Images == Pictures \cup {"huge", "foreign", "junk", "refused"}

\* image_binary: the pieces that downloads have appended to it, the whole
\* image, or what a failed one got: a part of the image or an error page.
Pieces == {"whole", "part"}

Codes == {"E_OK", "E_REQ_BODY_JSON", "E_UNKNOWN_REQ", "E_REQ_BODY_OBJECT",
          "E_IMAGE_BASE64_TYPE", "E_IMAGE_URL_TYPE", "E_REQ_IMAGE_NULL",
          "E_IMAGE_BASE64_DECODE", "E_IMAGE_DOWNLOAD", "E_IMAGE_DECODE",
          "E_IMAGE_RESOLUTION", "E_IMAGE_FORMAT", "E_ALG_FAILED"}

Job == [id : 0..MaxRequests,
        raises : BOOLEAN,                   \* request_body_, read up to a NUL, raises
        base64 : BOOLEAN,                   \* image_base64_ is not empty
        url : BOOLEAN,                      \* image_url_ is not empty
        img : Images,                       \* what it is an image of, once decoded
        data : Seq(Pieces),                 \* image_binary
        tries : 0..RetryCount - 1,          \* i of CallWithRetry, while it loops
        pic : Images \cup {"garbled"},      \* cv_image_
        nudity : {0, 1},                    \* result
        code : Codes]                       \* error

NoJob == [id |-> 0, raises |-> FALSE, base64 |-> FALSE, url |-> FALSE, img |-> "junk",
          data |-> <<>>, tries |-> 0, pic |-> "junk", nudity |-> 0, code |-> "E_OK"]

\* pc values of a worker whose response is composed.
Answering == {"flow", "trim", "reset"}

Set(w, j, label) ==
  /\ job' = [job EXCEPT ![w] = j]
  /\ pc' = [pc EXCEPT ![w] = label]

\* The request's fate is known: HandleRequest goes on to its tail.
Fail(w, code) == Set(w, [job[w] EXCEPT !.code = code], "flow")

\* The worker hands the response to the HTTP server and is free.
Reply(w, code) ==
  /\ replies' = replies \cup {[id |-> job[w].id, code |-> code]}
  /\ Set(w, NoJob, "idle")

\* An exception leaves HandleRequest: the server answers 500.
Raise(w) == Reply(w, "500") /\ UNCHANGED <<model_lock, input, sent, trim_count>>

\* No request is in progress; trim_count_ is 0 when the process starts, and
\* later what the requests answered so far have left in it.
Init ==
  /\ env \in {"LOCAL", "PROD"}
  /\ received = 0
  /\ pc = [w \in Workers |-> "idle"]
  /\ job = [w \in Workers |-> NoJob]
  /\ model_lock = Nobody
  /\ input = "junk"
  /\ sent = {}
  /\ replies = {}
  /\ trim_count \in 0..TrimPeriod - 1

-----------------------------------------------------------------------------
(* HandleImage *)

ParseRequestBody(b) ==
  CASE b.json = "illegal"            -> "E_REQ_BODY_JSON"
    [] b.json \in {"raises", "late"} -> "E_UNKNOWN_REQ"
    [] b.json = "array"              -> "E_REQ_BODY_OBJECT"
    [] b.json = "object"             -> "E_OK"

\* image_url is looked at only when image_base64 gave nothing.
VerifyImageParam(b) ==
  CASE b.image_base64 = "number" -> "E_IMAGE_BASE64_TYPE"
    [] b.image_base64 = "text"   -> "E_OK"
    [] OTHER -> CASE b.image_url = "number" -> "E_IMAGE_URL_TYPE"
                  [] b.image_url = "text"   -> "E_OK"
                  [] OTHER                  -> "E_REQ_IMAGE_NULL"

Verdict(b) ==
  IF ParseRequestBody(b) = "E_OK" THEN VerifyImageParam(b) ELSE ParseRequestBody(b)

\* A request arrives; its body is parsed and verified.
Receive(w, b) ==
  /\ pc[w] = "idle"
  /\ received < MaxRequests
  /\ received' = received + 1
  /\ LET base64 == Verdict(b) = "E_OK" /\ b.image_base64 = "text"
     IN  Set(w, [NoJob EXCEPT !.id = received + 1,
                              !.raises = b.json = "raises",
                              !.base64 = base64,
                              !.url = Verdict(b) = "E_OK" /\ ~base64,
                              !.code = Verdict(b)],
             IF Verdict(b) # "E_OK" THEN "flow" ELSE IF base64 THEN "base64" ELSE "trans")
  /\ UNCHANGED <<env, shared>>

\* Whether Trans2InnerUrl may leave a url in image_urls: the inner one, on any
\* failure what was there, but "" when the entry of the answer has no innerUrl.
Trans2InnerUrl == {TRUE} \cup (IF "trans" \in Faults THEN {FALSE} ELSE {})

\* A failed Trans2InnerUrl is tried again, and after the last try image_url_
\* stays.  A retry or timeout setting that is no number raises.
TransSingleURL(w) ==
  /\ pc[w] = "trans"
  /\ \/ /\ \E u \in Trans2InnerUrl : Set(w, [job[w] EXCEPT !.url = u], "fetch")
        /\ UNCHANGED shared
     \/ "conf" \in Faults /\ Raise(w)
  /\ UNCHANGED <<env, received>>

\* GetImageData with image_base64.
Base64Data(w) ==
  /\ pc[w] = "base64"
  /\ \/ Set(w, [job[w] EXCEPT !.data = <<"whole">>], "decode")
     \/ Fail(w, "E_IMAGE_BASE64_DECODE")
  /\ UNCHANGED <<env, received, shared>>

\* What a failed DownloadImage may have appended to image_data.
Leavings == {<<>>, <<"part">>}

Mut_Attempt(w, ok, piece) ==
  LET j == [job[w] EXCEPT !.data = @ \o piece, !.tries = 0]
  IN  CASE ok -> Set(w, j, "decode")
        [] ~ok /\ job[w].tries < RetryCount -> Set(w, [j EXCEPT !.tries = job[w].tries + 1], "fetch")
        [] OTHER -> Set(w, [j EXCEPT !.code = "E_IMAGE_DOWNLOAD"], "flow")
\* One round of CallWithRetry around DownloadImage.
Attempt(w, ok, piece) ==
  LET j == [job[w] EXCEPT !.data = @ \o piece, !.tries = 0]
      i == job[w].tries + 1
  IN  CASE ok -> Set(w, j, "decode")
        [] ~ok /\ i < RetryCount -> Set(w, [j EXCEPT !.tries = i], "fetch")
        [] OTHER -> Set(w, [j EXCEPT !.code = "E_IMAGE_DOWNLOAD"], "flow")

\* GetImageData with image_url: the next attempt, or nothing to download.
UrlData(w) ==
  /\ pc[w] = "fetch"
  /\ IF ~job[w].url
     THEN Fail(w, "E_REQ_IMAGE_NULL")
     ELSE \/ Attempt(w, TRUE, <<"whole">>)
          \/ "download" \in Faults /\ \E piece \in Leavings : Attempt(w, FALSE, piece)
  /\ UNCHANGED <<env, received, shared>>

\* What cv::imdecode may make of the pieces: the first one decides.  A torn
\* file may be decoded up to the tear; an error page may be a picture too.
Decoded(data, img) ==
  IF Head(data) = "whole" THEN {img} ELSE {"junk", "garbled"} \cup ({img} \ Pictures)

Mut_ImageVerdict(pic) ==
  CASE pic = "junk" -> "E_IMAGE_DECODE"
    [] pic = "huge" -> "E_IMAGE_RESOLUTION"
    [] OTHER -> "E_OK"
\* DecodeImage's two checks and then CheckImageFormat's.
ImageVerdict(pic) ==
  CASE pic = "junk"    -> "E_IMAGE_DECODE"
    [] pic = "huge"    -> "E_IMAGE_RESOLUTION"
    [] pic = "foreign" -> "E_IMAGE_FORMAT"
    [] OTHER           -> "E_OK"

\* What the request's image is comes to light here.
DecodeImage(w) ==
  /\ pc[w] = "decode"
  /\ \E img \in Images : \E pic \in Decoded(job[w].data, img) :
       IF pic = "refused"
       THEN Raise(w)
       ELSE /\ Set(w, [job[w] EXCEPT !.img = img, !.pic = pic, !.code = ImageVerdict(pic)],
                   IF ImageVerdict(pic) = "E_OK" THEN "predict" ELSE "flow")
            /\ UNCHANGED shared
  /\ UNCHANGED <<env, received>>

-----------------------------------------------------------------------------
(* MicroserviceDemo::handler and alg_process *)

Mut_PredictBegin(w) ==
  /\ pc[w] = "predict"
  /\ model_lock' = w
  /\ input' = job[w].pic
  /\ Set(w, job[w], "predicting")
  /\ UNCHANGED <<env, received, sent, replies, trim_count>>
\* g_model_lock is taken and predict begins.
PredictBegin(w) ==
  /\ pc[w] = "predict"
  /\ model_lock = Nobody
  /\ model_lock' = w
  /\ input' = job[w].pic
  /\ Set(w, job[w], "predicting")
  /\ UNCHANGED <<env, received, sent, replies, trim_count>>

\* The classifier's level of an image: 1 when nothing is naked in it.
Levels(pic) ==
  CASE pic = "clean" -> {1} [] pic = "nude" -> {0} [] OTHER -> {0, 1}

\* The answer's label is the opposite of the classifier's.
Nudity(level) == IF level = 1 THEN 0 ELSE 1

\* handler makes one code of every failure of alg_process.
handler(code) == IF code = 0 THEN "E_OK" ELSE "E_ALG_FAILED"

Mut_PredictEnd(w) ==
  /\ pc[w] = "predicting"
  /\ \/ /\ \E level \in Levels(input) :
             Set(w, [job[w] EXCEPT !.nudity = Nudity(level)], "flow")
        /\ model_lock' = Nobody
     \/ /\ "model" \in Faults
        /\ Fail(w, handler(-1))
        /\ UNCHANGED model_lock
  /\ UNCHANGED <<env, received, input, sent, replies, trim_count>>
\* predict returns or raises; either way the guard releases g_model_lock.
PredictEnd(w) ==
  /\ pc[w] = "predicting"
  /\ \/ \E level \in Levels(input) :
          Set(w, [job[w] EXCEPT !.nudity = Nudity(level), !.code = handler(0)], "flow")
     \/ "model" \in Faults /\ Fail(w, handler(-1))
  /\ model_lock' = Nobody
  /\ UNCHANGED <<env, received, input, sent, replies, trim_count>>

-----------------------------------------------------------------------------
(* The tail of HandleRequest *)

\* SetSourceInfos: where the message says the image came from.
SourceInfos(j) ==
  CASE j.base64 -> "base64" [] ~j.base64 /\ j.url -> "url" [] OTHER -> "none"

\* The DataFlow message about a request.
JsonData(j) == [id |-> j.id, source |-> SourceInfos(j), code |-> j.code,
                queued |-> FALSE]

\* The producer queues the message; SendMsg swallows whatever it raises.
SendMsg(m) ==
  \/ sent' = sent \cup {[m EXCEPT !.queued = TRUE]}
  \/ "kafka" \in Faults /\ sent' = sent \cup {m}

Mut_SendDataFlow(w) ==
  /\ pc[w] = "flow"
  /\ \/ env # "LOCAL" /\ job[w].raises /\ Raise(w)
     \/ /\ \/ env # "LOCAL" /\ ~job[w].raises /\ job[w].code = "E_OK" /\ SendMsg(JsonData(job[w]))
           \/ (env = "LOCAL" \/ (~job[w].raises /\ job[w].code # "E_OK")) /\ UNCHANGED sent
        /\ Set(w, job[w], "trim")
        /\ UNCHANGED <<model_lock, input, replies, trim_count>>
  /\ UNCHANGED <<env, received>>
\* Outside LOCAL the response is reported to Kafka.  TransDataToJson reads the
\* body again, and a reader that raises there is not caught.
SendDataFlow(w) ==
  /\ pc[w] = "flow"
  /\ \/ env # "LOCAL" /\ job[w].raises /\ Raise(w)
     \/ /\ \/ env # "LOCAL" /\ ~job[w].raises /\ SendMsg(JsonData(job[w]))
           \/ env = "LOCAL" /\ UNCHANGED sent
        /\ Set(w, job[w], "trim")
        /\ UNCHANGED <<model_lock, input, replies, trim_count>>
  /\ UNCHANGED <<env, received>>

\* ++trim_count_ % 1000 == 0
MallocTrim(w) ==
  /\ pc[w] = "trim"
  /\ trim_count' = trim_count + 1
  /\ IF trim_count' % TrimPeriod = 0
     THEN Set(w, job[w], "reset") /\ UNCHANGED replies
     ELSE Reply(w, job[w].code)
  /\ UNCHANGED <<env, received, model_lock, input, sent>>

Mut_TrimReset(w) ==
  /\ pc[w] = "reset"
  /\ Reply(w, job[w].code)
  /\ UNCHANGED <<env, received, model_lock, input, sent, trim_count>>
\* malloc_trim(0) is done and trim_count_ = 0, whatever others have added.
TrimReset(w) ==
  /\ pc[w] = "reset"
  /\ trim_count' = 0
  /\ Reply(w, job[w].code)
  /\ UNCHANGED <<env, received, model_lock, input, sent>>

-----------------------------------------------------------------------------
HandleRequest(w) ==
  \/ TransSingleURL(w) \/ Base64Data(w) \/ UrlData(w) \/ DecodeImage(w)
  \/ PredictBegin(w) \/ PredictEnd(w)
  \/ SendDataFlow(w) \/ MallocTrim(w) \/ TrimReset(w)

Next ==
  \/ \E w \in Workers :
       \/ \E b \in Body : Receive(w, b)
       \/ HandleRequest(w)
  \/ /\ received = MaxRequests
     /\ \A w \in Workers : pc[w] = "idle"
     /\ UNCHANGED vars

Spec == Init /\ [][Next]_vars

\* A worker that has a request goes on with it: transfers have timeouts and
\* predict returns.  g_model_lock need not be handed over in any order.
FairSpec == Spec /\ \A w \in Workers : WF_vars(HandleRequest(w))

-----------------------------------------------------------------------------
(* Properties *)

\* Type correctness.
TypeOK ==
  /\ env \in {"LOCAL", "PROD"}
  /\ received \in 0..MaxRequests
  /\ pc \in [Workers -> {"idle", "trans", "base64", "fetch", "decode", "predict",
                         "predicting"} \cup Answering]
  /\ job \in [Workers -> Job]
  /\ model_lock \in Workers \cup {Nobody}
  /\ input \in Images \cup {"garbled"}
  /\ sent \subseteq [id : 1..MaxRequests, source : {"base64", "url", "none"}, code : Codes,
                   queued : BOOLEAN]
  /\ replies \subseteq [id : 1..MaxRequests, code : Codes \cup {"500"}]
  /\ trim_count \in Nat

\* The label a request is answered with is that of its own image, whatever
\* the other workers do with the one classifier: g_model_lock covers it.
LabelIsOwn ==
  \A w \in Workers :
    LET j == job[w]
    IN  pc[w] \in Answering /\ j.code = "E_OK" /\ j.data = <<"whole">> =>
          j.nudity = (IF j.img = "nude" THEN 1 ELSE 0)

\* An OK means that the image arrived to its end and, when it arrived at the
\* first attempt, that it is a picture the service accepts.
OkMeansAccepted ==
  \A w \in Workers :
    LET j == job[w]
    IN  pc[w] \in Answering /\ j.code = "E_OK" =>
          /\ j.data # <<>> /\ j.data[Len(j.data)] = "whole"
          /\ j.data = <<"whole">> => j.img \in Pictures

\* What SendMsg is given about a request is what its client is told, once,
\* failures included, whether or not Kafka takes it, and an OK names the source
\* of its image; in LOCAL, or when an exception leaves HandleRequest, nothing is.
ReportedAsAnswered ==
  \A r \in replies :
    LET reports == {m \in sent : m.id = r.id}
    IN  /\ \A m \in reports : m.code = r.code
        /\ \A m \in reports : m.code = "E_OK" => m.source # "none"
        /\ Cardinality(reports) <= 1
        /\ env = "LOCAL" \/ r.code = "500" => reports = {}
        /\ env # "LOCAL" /\ r.code # "500" => reports # {}

\* trim_count_ is past its period only while some worker is about to reset
\* it, although increment and reset are two separate atomic operations.
TrimNotSkipped == trim_count >= TrimPeriod => \E w \in Workers : pc[w] = "reset"

\* Every request received is answered once the load pauses: no failure of the
\* classifier leaves g_model_lock taken.
EveryRequestAnswered == \A w \in Workers : pc[w] # "idle" ~> pc[w] = "idle"

\* The error table: E_IMAGE_DECODE is "image decode failed", so an image that
\* was downloaded to its end and gets it is none.
DecodeErrorMeansJunk ==
  \A w \in Workers :
    LET j == job[w]
    IN  pc[w] \in Answering /\ j.code = "E_IMAGE_DECODE" /\ j.data # <<>>
        /\ j.data[Len(j.data)] = "whole" => j.img = "junk"
=============================================================================
