------------------------ MODULE DownloadCacheProofs ------------------------
(* Safety of DownloadCache, for any number of calls, versions and stats.   *)
EXTENDS DownloadCache, TLAPS

(* What one call knows, by itself ... *)
CallOK(r) ==
    /\ r \in Calls
    /\ r.pc \in {"opening", "reading"} => r.seen.stamp # 0
    /\ r.sent # 0 => r.cached /\ ~r.again
    /\ r.answer.kind = "body" => r.answer.version # 0

(* ... and about a file: an identity with the file's stat has its digest. *)
Faithful(r, f) ==
    /\ r.sidecar.stamp # 0 /\ r.sidecar.stamp = f.stamp => r.sidecar.content = f.content
    /\ r.pc = "reading" /\ r.seen.stamp = f.stamp => r.seen.content = f.content

CallsOK ==
    /\ call \in [Callers -> Calls]
    /\ \A c \in Callers : CallOK(call[c]) /\ Faithful(call[c], file)

DiskOK ==
    /\ file \in Files /\ record \in Identities
    /\ file.stamp = 0 => file.content = 0
    /\ record.stamp = 0 => record = NoRecord
    /\ RecordTrue

RestOK ==
    /\ prune \in [step : {"off", "known", "unknown"}, content : Contents]
    /\ remembered \in BOOLEAN
    /\ freshness \in Policies
    /\ published \in Versions

IInv == CallsOK /\ DiskOK /\ RestOK

(* A call that is idle, or that has just been given a result, is as it should be. *)
LEMMA IdleOK ==
  CallOK(Idle) /\ \A f : Faithful(Idle, f)
BY CacheAssumption DEF CallOK, Faithful, Idle, Calls, Identities, Contents, Answers,
                       NoRecord, NoAnswer

(* A step that changes one call and not the file. *)
LEMMA UpdateCall ==
  ASSUME CallsOK, UNCHANGED file, NEW c \in Callers, NEW r, CallOK(r), Faithful(r, file),
         call' = [call EXCEPT ![c] = r]
  PROVE  CallsOK'
<1>1. call' \in [Callers -> Calls]
  BY DEF CallsOK, CallOK
<1>2. ASSUME NEW d \in Callers PROVE CallOK(call'[d]) /\ Faithful(call'[d], file')
  <2>1. CASE d = c
    BY <2>1 DEF CallsOK
  <2>2. CASE d # c
    BY <2>2 DEF CallsOK
  <2> QED BY <2>1, <2>2
<1> QED BY <1>1, <1>2 DEF CallsOK

(* The record is written from an identity that fits the file. *)
LEMMA WriteOK ==
  ASSUME DiskOK, UNCHANGED file, NEW s \in Identities, s.stamp # 0,
         s.stamp = file.stamp => s.content = file.content, WriteSidecar(s)
  PROVE  DiskOK'
BY DEF DiskOK, WriteSidecar, RecordTrue

LEMMA RestoreOK ==
  ASSUME CallsOK, DiskOK, UNCHANGED file, NEW c \in Callers, RestoreSidecar(c)
  PROVE  DiskOK'
<1>1. call[c] \in Calls /\ Faithful(call[c], file)
  BY DEF CallsOK
<1>2. call[c].sidecar \in Identities
  BY <1>1 DEF Calls
<1>3. CASE call[c].retired /\ StillCurrent(call[c].sidecar)
  <2>1. WriteSidecar(call[c].sidecar)
    BY <1>3 DEF RestoreSidecar
  <2> QED BY <1>1, <1>2, <1>3, <2>1, WriteOK DEF StillCurrent, Faithful
<1>4. CASE ~(call[c].retired /\ StillCurrent(call[c].sidecar))
  BY <1>4 DEF RestoreSidecar, DiskOK, RecordTrue
<1> QED BY <1>3, <1>4

(* The operators that set one call. *)
LEMMA FailOK ==
  ASSUME CallsOK, UNCHANGED file, NEW c \in Callers, Fail(c)
  PROVE  CallsOK'
BY IdleOK, UpdateCall DEF Fail

LEMMA DeliverOK ==
  ASSUME CallsOK, UNCHANGED file, NEW c \in Callers, NEW x \in Contents, Deliver(c, x)
  PROVE  CallsOK'
<1> DEFINE r == [Idle EXCEPT !.pc = "judging", !.seen.content = x]
<1>1. CallOK(r) /\ Faithful(r, file)
  BY CacheAssumption DEF CallOK, Faithful, Idle, Calls, Identities, Contents, Answers,
                         NoRecord, NoAnswer
<1> QED BY <1>1, UpdateCall DEF Deliver

LEMMA DescribeIsOK ==
  ASSUME NEW leg \in {"hit", "stale", "refresh", "downloaded"}, NEW s \in Stamps,
         NEW t \in Contents, NEW f
  PROVE  LET r == [Idle EXCEPT !.pc = "opening", !.leg = leg,
                               !.seen = [content |-> 0, stamp |-> s, tag |-> t]]
         IN CallOK(r) /\ Faithful(r, f)
BY CacheAssumption DEF CallOK, Faithful, Idle, Calls, Identities, Contents, Answers,
                       NoRecord, NoAnswer

LEMMA DescribeOK ==
  ASSUME CallsOK, UNCHANGED file, NEW c \in Callers,
         NEW leg \in {"hit", "stale", "refresh", "downloaded"}, NEW s \in Stamps,
         NEW t \in Contents, Describe(c, leg, s, t)
  PROVE  CallsOK'
BY DescribeIsOK, UpdateCall DEF Describe

LEMMA RequestOK ==
  ASSUME CallsOK, DiskOK, RestOK, UNCHANGED file, NEW c \in Callers,
         NEW cached \in BOOLEAN, NEW s \in Identities, s = NoRecord \/ (cached /\ s = record),
         Request(c, cached, s)
  PROVE  CallsOK' /\ DiskOK'
<1> DEFINE r == [Idle EXCEPT !.pc = "requesting", !.cached = cached, !.sidecar = s,
                             !.retired = record' # record,
                             !.sent = IF freshness = "revalidate" THEN s.tag ELSE 0]
<1>1. r \in Calls
  BY CacheAssumption DEF Idle, Calls, Identities, Contents, Answers, NoRecord, NoAnswer
<1>2. CallOK(r)
  BY <1>1 DEF CallOK, Idle, NoRecord, NoAnswer
<1>3. Faithful(r, file)
  BY DEF Faithful, Idle, NoRecord, DiskOK, RecordTrue
<1>4. CallsOK'
  BY <1>2, <1>3, UpdateCall DEF Request
<1>5. DiskOK'
  BY DEF Request, RetireSidecar, DiskOK, RecordTrue, NoRecord, Identities, Contents
<1> QED BY <1>4, <1>5

LEMMA RequestAgainOK ==
  ASSUME CallsOK, UNCHANGED file, NEW c \in Callers, RequestAgain(c)
  PROVE  CallsOK'
<1> DEFINE r == [Idle EXCEPT !.pc = "requesting", !.cached = TRUE, !.again = TRUE]
<1>1. CallOK(r) /\ Faithful(r, file)
  BY CacheAssumption DEF CallOK, Faithful, Idle, Calls, Identities, Contents, Answers,
                         NoRecord, NoAnswer
<1> QED BY <1>1, UpdateCall DEF RequestAgain

(* A record that can be read is one, and names the file's digest. *)
LEMMA ReadableOK ==
  ASSUME DiskOK
  PROVE  /\ ReadableRecord \in Identities
         /\ ReadableRecord \in {NoRecord, record}
         /\ ReadableRecord # NoRecord => /\ ReadableRecord = record
                                         /\ record.stamp = file.stamp
                                         /\ record.content = file.content
BY CacheAssumption DEF DiskOK, ReadableRecord, NoRecord, Identities, Contents, RecordTrue

(* A new stat is held by nobody. *)
LEMMA NewStampFresh ==
  ASSUME MayStamp
  PROVE  /\ NewStamp \in Stamps /\ NewStamp # 0
         /\ NewStamp # file.stamp /\ NewStamp # record.stamp
         /\ \A c \in Callers : NewStamp # call[c].sidecar.stamp /\ NewStamp # call[c].seen.stamp
<1>1. NewStamp \in Stamps /\ NewStamp \notin HeldStamps
  BY DEF MayStamp, NewStamp
<1> QED BY <1>1, CacheAssumption DEF HeldStamps

(* A file that replaces another fits whatever is known: nobody knows its stat.
   So does no file at all. *)
LEMMA ReplaceOK ==
  ASSUME IInv, NEW x \in Contents,
         \/ file' = NoFile
         \/ MayStamp /\ file' = [content |-> x, stamp |-> NewStamp],
         record' \in {NoRecord, record}
  PROVE  /\ DiskOK'
         /\ \A c \in Callers : Faithful(call[c], file')
<1>0. /\ \A c \in Callers : call[c] \in Calls /\ CallOK(call[c])
      /\ DiskOK
  BY DEF IInv, CallsOK
<1>1. CASE file' = NoFile
  BY <1>0, <1>1, CacheAssumption
     DEF DiskOK, RecordTrue, Faithful, CallOK, NoFile, NoRecord, Files, Identities, Contents
<1>2. CASE MayStamp /\ file' = [content |-> x, stamp |-> NewStamp]
  <2>1. /\ NewStamp \in Stamps /\ NewStamp # 0 /\ NewStamp # record.stamp
        /\ \A c \in Callers : NewStamp # call[c].sidecar.stamp /\ NewStamp # call[c].seen.stamp
    BY <1>2, NewStampFresh
  <2>2. DiskOK'
    BY <1>0, <1>2, <2>1 DEF DiskOK, RecordTrue, NoRecord, Files, Identities, Contents
  <2>3. \A c \in Callers : Faithful(call[c], file')
    BY <1>2, <2>1 DEF Faithful
  <2> QED BY <2>2, <2>3
<1> QED BY <1>1, <1>2

LEMMA DiscardOK ==
  ASSUME IInv, Discard
  PROVE  DiskOK' /\ \A c \in Callers : Faithful(call[c], file')
<1>1. 0 \in Contents
  BY DEF Contents
<1>2. CASE UNCHANGED file
  BY <1>2 DEF Discard, RetireSidecar, IInv, CallsOK, DiskOK, RecordTrue, NoRecord,
              Identities, Contents
<1> QED BY <1>1, <1>2, ReplaceOK DEF Discard, RetireSidecar

(* A step that replaces the file and changes one call. *)
LEMMA UpdateCallAndFile ==
  ASSUME CallsOK, \A d \in Callers : Faithful(call[d], file'),
         NEW c \in Callers, NEW r, CallOK(r), Faithful(r, file'),
         call' = [call EXCEPT ![c] = r]
  PROVE  CallsOK'
<1>1. call' \in [Callers -> Calls]
  BY DEF CallsOK, CallOK
<1>2. ASSUME NEW d \in Callers PROVE CallOK(call'[d]) /\ Faithful(call'[d], file')
  <2>1. CASE d = c
    BY <2>1 DEF CallsOK
  <2>2. CASE d # c
    BY <2>2 DEF CallsOK
  <2> QED BY <2>1, <2>2
<1> QED BY <1>1, <1>2 DEF CallsOK

-----------------------------------------------------------------------------
(* One lemma per action: it preserves the invariant. *)

LEMMA HitByRecordPreserves == ASSUME IInv, NEW c \in Callers, HitByRecord(c) PROVE IInv'
<1>1. CallsOK'
  BY ReadableOK, DeliverOK DEF HitByRecord, IInv, Identities
<1> QED BY <1>1 DEF HitByRecord, IInv, DiskOK, RestOK, RecordTrue

LEMMA HitByHashPreserves == ASSUME IInv, NEW c \in Callers, HitByHash(c) PROVE IInv'
<1>1. file.stamp \in Stamps /\ 0 \in Contents
  BY DEF HitByHash, Cached, IInv, DiskOK, Files, Contents
<1>2. CallsOK'
  BY <1>1, DescribeOK DEF HitByHash, IInv
<1> QED BY <1>2 DEF HitByHash, IInv, DiskOK, RestOK, RecordTrue

LEMMA AskPreserves == ASSUME IInv, NEW c \in Callers, Ask(c) PROVE IInv'
<1> DEFINE s == IF Cached THEN ReadableRecord ELSE NoRecord
<1>1. Cached \in BOOLEAN
  BY DEF Cached
<1>2. s \in Identities /\ (s = NoRecord \/ (Cached /\ s = record))
  BY ReadableOK DEF IInv, NoRecord, Identities, Contents
<1>3. CallsOK' /\ DiskOK'
  BY <1>1, <1>2, RequestOK DEF Ask, IInv
<1> QED BY <1>3 DEF Ask, IInv, RestOK

LEMMA AnswerPreserves == ASSUME IInv, NEW c \in Callers, Answer(c) PROVE IInv'
<1>1. call[c] \in Calls /\ CallOK(call[c]) /\ Faithful(call[c], file) /\ published \in Versions
  BY DEF IInv, CallsOK, RestOK
<1>2. PICK a \in {[kind |-> "body", version |-> published]}
             \cup (IF call[c].sent = published
                   THEN [kind : {"unchanged"}, version : {published, 0}] ELSE {}) :
        call' = [call EXCEPT ![c].pc = "answered", ![c].sent = 0, ![c].answer = a]
  BY DEF Answer
<1>3. a \in Answers /\ (a.kind = "body" => a.version # 0)
  BY <1>1, <1>2, CacheAssumption DEF Answers, Contents
<1> DEFINE r == [call[c] EXCEPT !.pc = "answered", !.sent = 0, !.answer = a]
<1>4. r \in Calls
  BY <1>1, <1>3 DEF Calls, Contents
<1>5. CallOK(r) /\ Faithful(r, file)
  BY <1>1, <1>3, <1>4 DEF CallOK, Faithful, Calls
<1>6. call' = [call EXCEPT ![c] = r]
  BY <1>1, <1>2 DEF IInv, CallsOK, Calls
<1>7. CallsOK'
  BY <1>5, <1>6, UpdateCall DEF Answer, IInv
<1> QED BY <1>7 DEF Answer, IInv, DiskOK, RestOK, RecordTrue

LEMMA ReceiveBodyPreserves == ASSUME IInv, NEW c \in Callers, ReceiveBody(c) PROVE IInv'
<1>1. call[c] \in Calls /\ call[c].answer.version \in Contents
  BY DEF IInv, CallsOK, Calls, Answers
<1>2. /\ MayStamp /\ record' \in {NoRecord, record}
      /\ file' = [content |-> call[c].answer.version, stamp |-> NewStamp]
  BY DEF ReceiveBody
<1>3. DiskOK' /\ \A d \in Callers : Faithful(call[d], file')
  BY <1>1, <1>2, ReplaceOK
<1> DEFINE r == [Idle EXCEPT !.pc = "opening", !.leg = "downloaded",
                             !.seen = [content |-> 0, stamp |-> NewStamp,
                                       tag |-> call[c].answer.version]]
<1>4. CallOK(r) /\ Faithful(r, file')
  BY <1>1, <1>2, NewStampFresh, DescribeIsOK
<1>5. call' = [call EXCEPT ![c] = r]
  BY DEF ReceiveBody, Describe
<1>6. CallsOK'
  BY <1>3, <1>4, <1>5, UpdateCallAndFile DEF IInv
<1> QED BY <1>3, <1>6 DEF ReceiveBody, IInv, RestOK

LEMMA ReceiveRefusedPreserves == ASSUME IInv, NEW c \in Callers, ReceiveRefused(c) PROVE IInv'
<1>1. CallsOK'
  BY FailOK DEF ReceiveRefused, IInv
<1>2. DiskOK'
  BY RestoreOK DEF ReceiveRefused, IInv, DiskOK, RecordTrue
<1> QED BY <1>1, <1>2 DEF ReceiveRefused, IInv, RestOK

LEMMA ReceiveRejectedPreserves == ASSUME IInv, NEW c \in Callers, ReceiveRejected(c) PROVE IInv'
<1>1. CallsOK'
  BY FailOK DEF ReceiveRejected, IInv
<1>2. DiskOK'
  BY RestoreOK DEF ReceiveRejected, IInv
<1>3. RestOK'
  BY DEF ReceiveRejected, IInv, RestOK
<1> QED BY <1>1, <1>2, <1>3 DEF IInv

(* A file that exists has a stat. *)
LEMMA FileStamp ==
  ASSUME DiskOK, file.stamp # 0
  PROVE  file.stamp \in Stamps
BY DEF DiskOK, Files

(* The three ways a transient failure or a 304 goes on. *)
LEMMA SidecarDelivered ==
  ASSUME IInv, UNCHANGED file, NEW c \in Callers, Deliver(c, call[c].sidecar.content)
  PROVE  CallsOK'
<1>1. call[c].sidecar.content \in Contents
  BY DEF IInv, CallsOK, Calls, Identities
<1> QED BY <1>1, DeliverOK DEF IInv

LEMMA ReceiveTransientPreserves == ASSUME IInv, NEW c \in Callers, ReceiveTransient(c) PROVE IInv'
<1>1. CASE /\ call[c].cached /\ StillCurrent(call[c].sidecar)
           /\ RestoreSidecar(c)
           /\ Deliver(c, call[c].sidecar.content)
  <2>1. CallsOK' /\ DiskOK'
    BY <1>1, SidecarDelivered, RestoreOK DEF ReceiveTransient, IInv
  <2> QED BY <2>1 DEF ReceiveTransient, IInv, RestOK
<1>2. CASE /\ file.stamp # 0
           /\ Describe(c, "stale", file.stamp, 0)
           /\ UNCHANGED record
  <2>1. CallsOK'
    BY <1>2, FileStamp, DescribeOK DEF ReceiveTransient, IInv, Contents
  <2> QED BY <1>2, <2>1 DEF ReceiveTransient, IInv, DiskOK, RestOK, RecordTrue
<1>3. CASE Fail(c) /\ UNCHANGED record
  <2>1. CallsOK'
    BY <1>3, FailOK DEF ReceiveTransient, IInv
  <2> QED BY <1>3, <2>1 DEF ReceiveTransient, IInv, DiskOK, RestOK, RecordTrue
<1> QED BY <1>1, <1>2, <1>3 DEF ReceiveTransient

LEMMA ReceiveErrorAgainPreserves ==
  ASSUME IInv, NEW c \in Callers, ReceiveErrorAgain(c) PROVE IInv'
<1>1. CallsOK'
  BY FailOK DEF ReceiveErrorAgain, IInv
<1> QED BY <1>1 DEF ReceiveErrorAgain, IInv, DiskOK, RestOK, RecordTrue

LEMMA ReceiveUnchangedPreserves == ASSUME IInv, NEW c \in Callers, ReceiveUnchanged(c) PROVE IInv'
<1>0. call[c] \in Calls /\ Faithful(call[c], file)
  BY DEF IInv, CallsOK
<1>1. CASE /\ StillCurrent(call[c].sidecar)
           /\ WriteSidecar(call[c].sidecar)
           /\ Deliver(c, call[c].sidecar.content)
  <2>1. CallsOK'
    BY <1>1, SidecarDelivered DEF ReceiveUnchanged, IInv
  <2>2. DiskOK'
    BY <1>0, <1>1, WriteOK DEF ReceiveUnchanged, IInv, Calls, StillCurrent, Faithful
  <2> QED BY <2>1, <2>2 DEF ReceiveUnchanged, IInv, RestOK
<1>2. CASE Deliver(c, ReadableRecord.content) /\ UNCHANGED record
  <2>1. ReadableRecord.content \in Contents
    BY ReadableOK DEF IInv, Identities
  <2>2. CallsOK'
    BY <1>2, <2>1, DeliverOK DEF ReceiveUnchanged, IInv
  <2> QED BY <1>2, <2>2 DEF ReceiveUnchanged, IInv, DiskOK, RestOK, RecordTrue
<1>3. CASE /\ file.stamp # 0
           /\ Describe(c, "refresh", file.stamp, call[c].answer.version)
           /\ UNCHANGED record
  <2>1. call[c].answer.version \in Contents
    BY <1>0 DEF Calls, Answers
  <2>2. CallsOK'
    BY <1>3, <2>1, FileStamp, DescribeOK DEF ReceiveUnchanged, IInv
  <2> QED BY <1>3, <2>2 DEF ReceiveUnchanged, IInv, DiskOK, RestOK, RecordTrue
<1>4. CASE RequestAgain(c)
  <2>1. CallsOK'
    BY <1>4, RequestAgainOK DEF ReceiveUnchanged, IInv
  <2> QED BY <1>4, <2>1 DEF ReceiveUnchanged, RequestAgain, IInv, DiskOK, RestOK, RecordTrue
<1> QED BY <1>1, <1>2, <1>3, <1>4 DEF ReceiveUnchanged

LEMMA OpenPreserves == ASSUME IInv, NEW c \in Callers, Open(c) PROVE IInv'
<1>1. call[c] \in Calls /\ CallOK(call[c]) /\ Faithful(call[c], file)
      /\ file.content \in Contents
  BY DEF IInv, CallsOK, DiskOK, Files
<1> DEFINE r == [call[c] EXCEPT !.pc = "reading", !.seen.content = file.content]
<1>2. r \in Calls
  BY <1>1 DEF Calls, Identities
<1>3. CallOK(r) /\ Faithful(r, file)
  BY <1>1, <1>2 DEF CallOK, Faithful, Calls, Identities, Open
<1>4. call' = [call EXCEPT ![c] = r]
  BY <1>1 DEF Open, IInv, CallsOK, Calls
<1>5. CallsOK'
  BY <1>3, <1>4, UpdateCall DEF Open, IInv
<1> QED BY <1>5 DEF Open, IInv, DiskOK, RestOK, RecordTrue

LEMMA OpenMissingPreserves == ASSUME IInv, NEW c \in Callers, OpenMissing(c) PROVE IInv'
<1>1. CASE Request(c, TRUE, NoRecord)
  <2>1. NoRecord \in Identities
    BY DEF NoRecord, Identities, Contents
  <2>2. CallsOK' /\ DiskOK'
    BY <1>1, <2>1, RequestOK DEF OpenMissing, IInv
  <2> QED BY <2>2 DEF OpenMissing, IInv, RestOK
<1>2. CASE RequestAgain(c)
  <2>1. CallsOK'
    BY <1>2, RequestAgainOK DEF OpenMissing, IInv
  <2> QED BY <1>2, <2>1 DEF OpenMissing, RequestAgain, IInv, DiskOK, RestOK, RecordTrue
<1>3. CASE Fail(c) /\ UNCHANGED record
  <2>1. CallsOK'
    BY <1>3, FailOK DEF OpenMissing, IInv
  <2> QED BY <1>3, <2>1 DEF OpenMissing, IInv, DiskOK, RestOK, RecordTrue
<1> QED BY <1>1, <1>2, <1>3 DEF OpenMissing

LEMMA FinishPreserves == ASSUME IInv, NEW c \in Callers, Finish(c) PROVE IInv'
<1>1. /\ call[c] \in Calls /\ CallOK(call[c]) /\ Faithful(call[c], file)
      /\ call[c].pc = "reading"
  BY DEF IInv, CallsOK, Finish
<1>2. call[c].seen \in Identities /\ call[c].seen.content \in Contents
  BY <1>1 DEF Calls, Identities
<1>3. DiskOK'
  BY <1>1, <1>2, WriteOK DEF Finish, IInv, CallOK, Faithful
<1>4. CallsOK'
  BY <1>2, DeliverOK DEF Finish, IInv
<1> QED BY <1>3, <1>4 DEF Finish, IInv, RestOK

LEMMA JudgePreserves == ASSUME IInv, NEW c \in Callers, Judge(c) PROVE IInv'
<1>1. call[c] \in Calls /\ CallOK(call[c]) /\ Faithful(call[c], file)
  BY DEF IInv, CallsOK
<1> DEFINE r == IF file.content \in Poison \cup {0}
                THEN [call[c] EXCEPT !.pc = "condemning"] ELSE Idle
<1>2. CallOK([call[c] EXCEPT !.pc = "condemning"])
      /\ Faithful([call[c] EXCEPT !.pc = "condemning"], file)
  BY <1>1 DEF CallOK, Faithful, Calls
<1>3. CallOK(r) /\ Faithful(r, file)
  BY <1>2, IdleOK
<1>4. call' = [call EXCEPT ![c] = r]
  BY DEF Judge
<1>5. CallsOK'
  BY <1>3, <1>4, UpdateCall DEF Judge, IInv
<1> QED BY <1>5 DEF Judge, IInv, DiskOK, RestOK, RecordTrue

LEMMA CondemnPreserves == ASSUME IInv, NEW c \in Callers, Condemn(c) PROVE IInv'
<1>1. CASE StillMatch(call[c].seen.content)
  <2>1. DiskOK' /\ \A d \in Callers : Faithful(call[d], file')
    BY <1>1, DiscardOK DEF Condemn
  <2>2. CallsOK'
    BY <2>1, IdleOK, UpdateCallAndFile DEF Condemn, Fail, IInv
  <2> QED BY <2>1, <2>2 DEF Condemn, IInv, RestOK
<1>2. CASE ~StillMatch(call[c].seen.content)
  <2>1. CallsOK'
    BY <1>2, FailOK DEF Condemn, IInv
  <2> QED BY <1>2, <2>1 DEF Condemn, IInv, DiskOK, RestOK, RecordTrue
<1> QED BY <1>1, <1>2

LEMMA PruneListPreserves == ASSUME IInv, PruneList PROVE IInv'
<1>1. RestOK'
  BY DEF PruneList, IInv, RestOK, DiskOK, Identities, Contents
<1> QED BY <1>1 DEF PruneList, IInv, CallsOK, DiskOK, RecordTrue

LEMMA PruneDeletePreserves == ASSUME IInv, PruneDelete PROVE IInv'
<1>1. RestOK'
  BY DEF PruneDelete, IInv, RestOK, Contents
<1>2. CASE prune.step = "unknown" \/ StillMatch(prune.content)
  <2>1. DiskOK' /\ \A d \in Callers : Faithful(call[d], file')
    BY <1>2, DiscardOK DEF PruneDelete
  <2>2. CallsOK'
    BY <2>1 DEF PruneDelete, IInv, CallsOK
  <2> QED BY <1>1, <2>1, <2>2 DEF IInv
<1>3. CASE ~(prune.step = "unknown" \/ StillMatch(prune.content))
  BY <1>1, <1>3 DEF PruneDelete, IInv, CallsOK, DiskOK, RecordTrue
<1> QED BY <1>2, <1>3

LEMMA CrashPreserves == ASSUME IInv, Crash PROVE IInv'
<1>1. CallsOK'
  BY IdleOK DEF Crash, CallsOK, CallOK
<1>2. DiskOK'
  BY DEF Crash, IInv, DiskOK, RecordTrue, NoRecord, Identities, Contents
<1>3. RestOK'
  BY DEF Crash, IInv, RestOK, Contents
<1> QED BY <1>1, <1>2, <1>3 DEF IInv

LEMMA ForgetRejectionPreserves == ASSUME IInv, ForgetRejection PROVE IInv'
BY DEF ForgetRejection, IInv, CallsOK, DiskOK, RestOK, RecordTrue

LEMMA PublishPreserves == ASSUME IInv, Publish PROVE IInv'
BY DEF Publish, IInv, CallsOK, DiskOK, RestOK, RecordTrue

-----------------------------------------------------------------------------
LEMMA InitIInv == ASSUME Init PROVE IInv
<1>1. CallsOK
  BY IdleOK DEF Init, CallsOK, CallOK
<1>2. DiskOK
  BY DEF Init, DiskOK, RecordTrue, NoFile, NoRecord, Files, Identities, Contents
<1>3. RestOK
  BY CacheAssumption DEF Init, RestOK, Contents
<1> QED BY <1>1, <1>2, <1>3 DEF IInv

LEMMA StutterPreserves == ASSUME IInv, UNCHANGED vars PROVE IInv'
BY DEF vars, IInv, CallsOK, DiskOK, RestOK, RecordTrue

LEMMA NextPreserves == ASSUME IInv, [Next]_vars PROVE IInv'
<1>1. ASSUME NEW c \in Callers, Resolve(c) PROVE IInv'
  BY <1>1, HitByRecordPreserves, HitByHashPreserves, AskPreserves DEF Resolve
<1>2. ASSUME NEW c \in Callers, NoBody(c) PROVE IInv'
  BY <1>2, ReceiveRefusedPreserves, ReceiveRejectedPreserves, ReceiveTransientPreserves,
     ReceiveErrorAgainPreserves DEF NoBody
<1>3. ASSUME NEW c \in Callers, Proceed(c) PROVE IInv'
  BY <1>3, ReceiveBodyPreserves, ReceiveUnchangedPreserves, OpenPreserves,
     OpenMissingPreserves, FinishPreserves, JudgePreserves, CondemnPreserves DEF Proceed
<1> QED
  BY <1>1, <1>2, <1>3, AnswerPreserves, PruneListPreserves, PruneDeletePreserves,
     CrashPreserves, ForgetRejectionPreserves, PublishPreserves, StutterPreserves DEF Next

LEMMA AlwaysIInv == Spec => []IInv
<1>1. Init => IInv
  BY InitIInv
<1>2. IInv /\ [Next]_vars => IInv'
  BY NextPreserves
<1> QED BY <1>1, <1>2, PTL DEF Spec

-----------------------------------------------------------------------------
(* Every variable keeps its type, and the fields of a call fit together. *)
THEOREM CacheTypeCorrect == Spec => []CacheTypeOK
<1>1. IInv => CacheTypeOK
  BY DEF IInv, CallsOK, CallOK, DiskOK, RestOK, CacheTypeOK
<1> QED BY <1>1, AlwaysIInv, PTL

(* No interleaving, failing write or crash leaves a record that is believed
   about a file with another digest (readDownloadSidecar, describeFile). *)
THEOREM RecordsAlwaysTrue == Spec => []RecordTrue
<1>1. IInv => RecordTrue
  BY DEF IInv, DiskOK
<1> QED BY <1>1, AlwaysIInv, PTL

(* A step of one call leaves the others alone. *)
LEMMA OthersUntouched ==
  ASSUME call \in [Callers -> Calls], NEW d \in Callers, NEW c \in Callers, d # c,
         Resolve(d) \/ Answer(d) \/ NoBody(d) \/ Proceed(d)
  PROVE  call'[c] = call[c]
<1>1. ASSUME NEW r, call' = [call EXCEPT ![d] = r] PROVE call'[c] = call[c]
  BY <1>1
<1>2. CASE Resolve(d)
  BY <1>1, <1>2 DEF Resolve, HitByRecord, HitByHash, Ask, Deliver, Describe, Request
<1>3. CASE Answer(d)
  BY <1>3 DEF Answer
<1>4. CASE NoBody(d)
  BY <1>1, <1>4 DEF NoBody, ReceiveRefused, ReceiveRejected, ReceiveTransient,
     ReceiveErrorAgain, Fail, Deliver, Describe
<1>5. CASE ReceiveBody(d) \/ ReceiveUnchanged(d)
  BY <1>1, <1>5 DEF ReceiveBody, ReceiveUnchanged, Deliver, Describe, RequestAgain
<1>6. CASE Open(d)
  BY <1>6 DEF Open
<1>7. CASE OpenMissing(d) \/ Finish(d)
  BY <1>1, <1>7 DEF OpenMissing, Finish, Deliver, Fail, Request, RequestAgain
<1>8. CASE Judge(d) \/ Condemn(d)
  BY <1>1, <1>8 DEF Judge, Condemn, Fail
<1> QED BY <1>2, <1>3, <1>4, <1>5, <1>6, <1>7, <1>8 DEF Proceed

(* A success that took no hash names the bytes that are there: the record was
   checked against the stat in the step that delivers it. *)
LEMMA StepDelivers ==
  ASSUME IInv, Next, NEW c \in Callers,
         call'[c].pc = "judging", call[c].pc \in {"idle", "requesting", "answered"}
  PROVE  call'[c].seen.content = file.content
<1>0. /\ call \in [Callers -> Calls] /\ call[c] \in Calls /\ Faithful(call[c], file)
      /\ DiskOK
  BY DEF IInv, CallsOK
<1>1. ASSUME NEW x, Deliver(c, x) PROVE call'[c].seen.content = x
  BY <1>0, <1>1 DEF Deliver, Idle, NoRecord
<1>f. Fail(c) => call'[c].pc # "judging"
  BY <1>0 DEF Fail, Idle
<1>d. ASSUME NEW l, NEW s, NEW t, Describe(c, l, s, t) PROVE call'[c].pc # "judging"
  BY <1>0, <1>d DEF Describe, Idle
<1>r. ASSUME NEW h, NEW s, Request(c, h, s) PROVE call'[c].pc # "judging"
  BY <1>0, <1>r DEF Request, Idle
<1>a. RequestAgain(c) => call'[c].pc # "judging"
  BY <1>0 DEF RequestAgain, Idle
<1>2. CASE \E d \in Callers : Resolve(d) \/ Answer(d) \/ NoBody(d) \/ Proceed(d)
  <2>1. PICK d \in Callers : Resolve(d) \/ Answer(d) \/ NoBody(d) \/ Proceed(d)
    BY <1>2
  <2>2. d = c
    <3>1. ASSUME d # c PROVE call'[c] = call[c]
      BY <2>1, <3>1, <1>0, OthersUntouched
    <3> QED BY <3>1, <1>0
  <2>3. CASE HitByRecord(c)
    BY <1>0, <1>1, <2>3, ReadableOK DEF HitByRecord
  <2>4. CASE ReceiveTransient(c)
    <3>1. CASE StillCurrent(call[c].sidecar) /\ Deliver(c, call[c].sidecar.content)
      BY <1>0, <1>1, <3>1 DEF StillCurrent, Faithful
    <3>2. CASE \/ Describe(c, "stale", file.stamp, 0)
               \/ Fail(c)
      BY <1>f, <1>d, <3>2
    <3> QED BY <2>4, <3>1, <3>2 DEF ReceiveTransient
  <2>5. CASE ReceiveUnchanged(c)
    <3>1. CASE StillCurrent(call[c].sidecar) /\ Deliver(c, call[c].sidecar.content)
      BY <1>0, <1>1, <3>1 DEF StillCurrent, Faithful
    <3>2. CASE ReadableRecord # NoRecord /\ Deliver(c, ReadableRecord.content)
      BY <1>0, <1>1, <3>2, ReadableOK
    <3>3. CASE \/ Describe(c, "refresh", file.stamp, call[c].answer.version)
               \/ RequestAgain(c)
      BY <1>d, <1>a, <3>3
    <3> QED BY <2>5, <3>1, <3>2, <3>3 DEF ReceiveUnchanged
  <2>6. CASE \/ HitByHash(c) \/ Ask(c) \/ ReceiveRefused(c) \/ ReceiveRejected(c)
             \/ ReceiveErrorAgain(c) \/ ReceiveBody(c)
    BY <1>f, <1>d, <1>r, <2>6 DEF HitByHash, Ask, ReceiveRefused, ReceiveRejected,
       ReceiveErrorAgain, ReceiveBody
  <2>8. CASE Answer(c)
    BY <1>0, <2>8 DEF Answer, Calls
  <2>7. CASE Open(c) \/ OpenMissing(c) \/ Finish(c) \/ Judge(c) \/ Condemn(c)
    BY <2>7 DEF Open, OpenMissing, Finish, Judge, Condemn
  <2> QED
    BY <2>1, <2>2, <2>3, <2>4, <2>5, <2>6, <2>7, <2>8 DEF Resolve, NoBody, Proceed
<1>3. CASE PruneList \/ PruneDelete \/ Crash \/ ForgetRejection \/ Publish
  BY <1>0, <1>3 DEF PruneList, PruneDelete, Crash, ForgetRejection, Publish, Idle
<1> QED BY <1>2, <1>3 DEF Next

(* Whatever resolves, prunes and crashes there are, a success without a hash
   names the bytes that are at the path at that moment. *)
THEOREM DeliveriesTrue == Spec => DeliveredAsTheyAre
<1> DEFINE A == \A c \in Callers :
                  call'[c].pc = "judging" /\ call[c].pc \in {"idle", "requesting", "answered"}
                     => call'[c].seen.content = file.content
<1>1. IInv /\ [Next]_vars => [A]_vars
  <2> SUFFICES ASSUME IInv, Next PROVE A
    OBVIOUS
  <2> QED BY StepDelivers
<1>2. Spec => [][A]_vars
  BY <1>1, AlwaysIInv, PTL DEF Spec
<1> QED BY <1>2 DEF DeliveredAsTheyAre

(* What an eviction removes, when it removes bytes that a record identifies. *)
LEMMA StepKeeps ==
  ASSUME IInv, Next, Cached, ReadableRecord # NoRecord, file'.content = 0
  PROVE  \/ \E c \in Callers : /\ call[c].pc = "condemning"
                              /\ call[c].seen.content = file.content
         \/ prune.step = "known" /\ prune.content = file.content
         \/ prune.step = "unknown"
<1>1. ReadableRecord.content = file.content
  BY ReadableOK DEF IInv
<1>2. UNCHANGED file => FALSE
  BY DEF Cached
<1>3. CASE \E c \in Callers : ReceiveBody(c)
  <2>1. PICK c \in Callers : ReceiveBody(c)
    BY <1>3
  <2>2. CallOK(call[c])
    BY DEF IInv, CallsOK
  <2> QED BY <2>1, <2>2 DEF ReceiveBody, CallOK
<1>4. CASE \E c \in Callers : Condemn(c)
  BY <1>1, <1>2, <1>4 DEF Condemn, StillMatch
<1>5. CASE PruneDelete
  BY <1>1, <1>2, <1>5 DEF PruneDelete, StillMatch, IInv, RestOK
<1>6. CASE UNCHANGED file
  BY <1>2, <1>6
<1> QED
  BY <1>3, <1>4, <1>5, <1>6 DEF Next, Resolve, HitByRecord, HitByHash, Ask, Answer, NoBody,
     ReceiveRefused, ReceiveRejected, ReceiveTransient, ReceiveErrorAgain, Proceed,
     ReceiveUnchanged, Open, OpenMissing, Finish, Judge, PruneList, Crash,
     ForgetRejection, Publish

(* Identified bytes go only on a verdict about, or a selection of, the same
   digest (or a selection made while there was no record). *)
THEOREM IdentifiedBytesKept == Spec => IdentifiedBytesStay
<1> DEFINE A == Cached /\ ReadableRecord # NoRecord /\ file'.content = 0
                  => \/ \E c \in Callers : /\ call[c].pc = "condemning"
                                           /\ call[c].seen.content = file.content
                     \/ prune.step = "known" /\ prune.content = file.content
                     \/ prune.step = "unknown"
<1>1. IInv /\ [Next]_vars => [A]_vars
  <2> SUFFICES ASSUME IInv, Next PROVE A
    OBVIOUS
  <2> QED BY StepKeeps
<1>2. Spec => [][A]_vars
  BY <1>1, AlwaysIInv, PTL DEF Spec
<1> QED BY <1>2 DEF IdentifiedBytesStay

=============================================================================
