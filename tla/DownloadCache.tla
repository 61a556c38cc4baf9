--------------------------- MODULE DownloadCache ---------------------------
(***************************************************************************)
(* One slot of the downloads cache (repo-downloader.ts): the file at the   *)
(* path of one url, and beside it the identity record ("sidecar") that     *)
(* binds a digest and the validators of the repository to the file's stat. *)
(* Several calls of resolveCachedDownload, the eviction by a caller that   *)
(* found the bytes unusable (source-resolver.ts), a cache prune            *)
(* (cache-registry.ts) and a process that may die share the slot.          *)
(*                                                                         *)
(* The code between two awaits is one action: a request, its answer, the   *)
(* opening of a file to hash it and the end of the hash are separate.      *)
(***************************************************************************)
EXTENDS Naturals

CONSTANTS Callers,    \* the calls that may run at the same time
          Versions,   \* the bodies the repository publishes, in this order
          Poison,     \* those that are no archive (an HTML page, say)
          Policies,   \* the policies a url may have, of "immutable", "revalidate"
          Stamps,     \* stats (size and mtime) a file can have
          MayPrune,   \* whether the cache is pruned meanwhile
          MayCrash,   \* whether the process may die
          MayLock     \* whether a file may resist removal and truncation

ASSUME CacheAssumption ==
    /\ Versions \subseteq Nat \ {0} /\ 1 \in Versions
    /\ Policies \subseteq {"immutable", "revalidate"}
    /\ Stamps \subseteq Nat \ {0}
    /\ MayPrune \in BOOLEAN /\ MayCrash \in BOOLEAN /\ MayLock \in BOOLEAN

VARIABLES file,        \* the bytes at the path and their stat
          record,      \* the sidecar on disk
          call,        \* the state of each call
          prune,       \* a prune between its listing and its deletion
          remembered,  \* rememberedRejections holds the url, unexpired
          freshness,   \* the policy of the url
          published    \* the body the repository serves

vars == <<file, record, call, prune, remembered, freshness, published>>

Contents == Versions \cup {0}       \* 0: no bytes at all
Identities == [content : Contents, stamp : Stamps \cup {0}, tag : Contents]
NoRecord == [content |-> 0, stamp |-> 0, tag |-> 0]
NoFile == [content |-> 0, stamp |-> 0]
Files == [content : Contents, stamp : Stamps \cup {0}]

Answers == [kind : {"none", "body", "unchanged"}, version : Contents]
NoAnswer == [kind |-> "none", version |-> 0]

Idle == [pc |-> "idle", cached |-> FALSE, sidecar |-> NoRecord, retired |-> FALSE,
         sent |-> 0, again |-> FALSE, answer |-> NoAnswer, leg |-> "none",
         seen |-> NoRecord]

Calls == [pc : {"idle", "requesting", "answered", "opening", "reading",
                "judging", "condemning"},
          cached : BOOLEAN,        \* hasCachedBytes
          sidecar : Identities,    \* the record read before the request
          retired : BOOLEAN,       \* retiredSidecar
          sent : Contents,         \* If-None-Match of the request, 0 without
          again : BOOLEAN,         \* the second, unconditional transfer
          answer : Answers,
          leg : {"none", "hit", "stale", "refresh", "downloaded"},
          seen : Identities]       \* what describeFile derives, then the result

CacheTypeOK ==
    /\ file \in Files
    /\ record \in Identities
    /\ call \in [Callers -> Calls]
    /\ prune \in [step : {"off", "known", "unknown"}, content : Contents]
    /\ remembered \in BOOLEAN
    /\ freshness \in Policies
    /\ published \in Versions
    /\ \A c \in Callers :
          /\ call[c].pc \in {"opening", "reading"} => call[c].seen.stamp # 0
          /\ call[c].sent # 0 => call[c].cached /\ ~call[c].again

-----------------------------------------------------------------------------
(* readDownloadSidecar: a record counts only while it matches the file's stat. *)
ReadableRecord == IF record.stamp = file.stamp THEN record ELSE NoRecord

MutStillCurrent(sidecar) == sidecar.stamp # 0

(* sidecarStillCurrent *)
StillCurrent(sidecar) == sidecar.stamp # 0 /\ sidecar.stamp = file.stamp

(* writeDownloadSidecar: a failure to write is swallowed. *)
WriteSidecar(sidecar) == record' \in {sidecar, record}

(* restoreRetiredSidecar, its effect on the disk *)
RestoreSidecar(c) ==
    IF call[c].retired /\ StillCurrent(call[c].sidecar)
    THEN WriteSidecar(call[c].sidecar) ELSE UNCHANGED record

(* No two files are mistaken for each other: a new one gets a stat nobody holds. *)
HeldStamps == {file.stamp, record.stamp} \cup {call[c].sidecar.stamp : c \in Callers}
                \cup {call[c].seen.stamp : c \in Callers}
MayStamp == Stamps \ HeldStamps # {}
NewStamp == CHOOSE s \in Stamps : s \notin HeldStamps

Fail(c) == call' = [call EXCEPT ![c] = Idle]

(* The call succeeds; its caller opens the file to see whether it is an archive. *)
Deliver(c, content) ==
    call' = [call EXCEPT ![c] = [Idle EXCEPT !.pc = "judging", !.seen.content = content]]

(* describeFile takes the stat and starts to read the file. The record read
   before is of no use any more: its bytes are gone for good. *)
Describe(c, leg, stamp, tag) ==
    call' = [call EXCEPT ![c] =
               [Idle EXCEPT !.pc = "opening", !.leg = leg,
                            !.seen = [content |-> 0, stamp |-> stamp, tag |-> tag]]]

(* retireDownloadSidecar: where the unlink fails the record stays. *)
RetireSidecar == record' \in {NoRecord, record}

(* Retire the record of bytes that may be replaced, then the first transfer. *)
Request(c, cached, sidecar) ==
    /\ IF cached THEN RetireSidecar ELSE UNCHANGED record
    /\ call' = [call EXCEPT ![c] =
                  [Idle EXCEPT !.pc = "requesting", !.cached = cached, !.sidecar = sidecar,
                               !.retired = record' # record,
                               !.sent = IF freshness = "revalidate" THEN sidecar.tag ELSE 0]]

MutRequestAgain(c) ==
    /\ call' = [call EXCEPT ![c].pc = "requesting", ![c].again = TRUE,
                            ![c].sent = call[c].sidecar.tag, ![c].answer = NoAnswer]
    /\ UNCHANGED record

(* The bytes a 304 confirmed are gone: transfer again, without validators. *)
RequestAgain(c) ==
    /\ call' = [call EXCEPT ![c] =
                  [Idle EXCEPT !.pc = "requesting", !.cached = TRUE, !.again = TRUE]]
    /\ UNCHANGED record

Init ==
    /\ file = NoFile /\ record = NoRecord
    /\ call = [c \in Callers |-> Idle]
    /\ prune = [step |-> "off", content |-> 0]
    /\ remembered = FALSE
    /\ freshness \in Policies
    /\ published = 1

-----------------------------------------------------------------------------
(* resolveCachedDownload, up to its first await *)

Cached == file.content # 0      \* cachedByteCount: an empty file is no file

HitByRecord(c) ==
    /\ call[c].pc = "idle" /\ freshness = "immutable"
    /\ Cached /\ ReadableRecord # NoRecord
    /\ Deliver(c, ReadableRecord.content)
    /\ UNCHANGED <<file, record, prune, remembered, freshness, published>>

HitByHash(c) ==
    /\ call[c].pc = "idle" /\ freshness = "immutable"
    /\ Cached /\ ReadableRecord = NoRecord
    /\ Describe(c, "hit", file.stamp, 0)
    /\ UNCHANGED <<file, record, prune, remembered, freshness, published>>

(* A remembered rejection answers at once and changes nothing. *)
Ask(c) ==
    /\ call[c].pc = "idle"
    /\ freshness = "immutable" => ~Cached /\ ~remembered
    /\ Request(c, Cached, IF Cached THEN ReadableRecord ELSE NoRecord)
    /\ UNCHANGED <<file, prune, remembered, freshness, published>>

-----------------------------------------------------------------------------
(* The repository answers the last attempt of downloadToCache, and its answer
   about the body takes its time. *)
Answer(c) ==
    /\ call[c].pc = "requesting"
    /\ \E a \in {[kind |-> "body", version |-> published]}
             \cup (IF call[c].sent = published
                   THEN [kind : {"unchanged"}, version : {published, 0}] ELSE {}) :
          call' = [call EXCEPT ![c].pc = "answered", ![c].sent = 0, ![c].answer = a]
    /\ UNCHANGED <<file, record, prune, remembered, freshness, published>>

(* A complete body is renamed over the path, and hashed there. *)
ReceiveBody(c) ==
    /\ call[c].pc = "answered" /\ call[c].answer.kind = "body" /\ MayStamp
    /\ file' = [content |-> call[c].answer.version, stamp |-> NewStamp]
    /\ Describe(c, "downloaded", NewStamp, call[c].answer.version)
    /\ UNCHANGED <<record, prune, remembered, freshness, published>>

(* A body above the size limit throws; the second transfer is outside the catch. *)
ReceiveRefused(c) ==
    /\ call[c].pc = "requesting"
    /\ IF call[c].again THEN UNCHANGED record ELSE RestoreSidecar(c)
    /\ Fail(c)
    /\ UNCHANGED <<file, prune, remembered, freshness, published>>

(* 403, 404 or 410: the caller moves on to another repository. *)
ReceiveRejected(c) ==
    /\ call[c].pc = "requesting"
    /\ RestoreSidecar(c)
    /\ Fail(c)
    /\ remembered' = (remembered \/ freshness = "immutable")
    /\ UNCHANGED <<file, prune, freshness, published>>

(* Any other status, an empty body, or (the first time) an error of the transfer:
   serveCachedBytes("stale"), or the failure itself. *)
ReceiveTransient(c) ==
    /\ call[c].pc = "requesting"
    /\ \/ /\ call[c].cached /\ StillCurrent(call[c].sidecar)
          /\ RestoreSidecar(c)
          /\ Deliver(c, call[c].sidecar.content)
       \/ /\ call[c].cached /\ ~StillCurrent(call[c].sidecar) /\ file.stamp # 0
          /\ Describe(c, "stale", file.stamp, 0)
          /\ UNCHANGED record
       \/ /\ ~call[c].cached \/ file.stamp = 0
          /\ Fail(c)
          /\ UNCHANGED record
    /\ UNCHANGED <<file, prune, remembered, freshness, published>>

ReceiveErrorAgain(c) ==
    /\ call[c].pc = "requesting" /\ call[c].again
    /\ Fail(c)
    /\ UNCHANGED <<file, record, prune, remembered, freshness, published>>

(* The 304 leg: our bytes, the bytes and record of a winner, bytes without a
   record, or no bytes any more. *)
ReceiveUnchanged(c) ==
    /\ call[c].pc = "answered" /\ call[c].answer.kind = "unchanged"
    /\ \/ /\ StillCurrent(call[c].sidecar)
          /\ WriteSidecar(call[c].sidecar)
          /\ Deliver(c, call[c].sidecar.content)
       \/ /\ ~StillCurrent(call[c].sidecar) /\ ReadableRecord # NoRecord
          /\ Deliver(c, ReadableRecord.content)
          /\ UNCHANGED record
       \/ /\ ~StillCurrent(call[c].sidecar) /\ ReadableRecord = NoRecord /\ file.stamp # 0
          /\ Describe(c, "refresh", file.stamp, call[c].answer.version)
          /\ UNCHANGED record
       \/ /\ file.stamp = 0
          /\ RequestAgain(c)
    /\ UNCHANGED <<file, prune, remembered, freshness, published>>

-----------------------------------------------------------------------------
(* digestFile: the stream opens the file that is there by then. *)
Open(c) ==
    /\ call[c].pc = "opening" /\ file.stamp # 0
    /\ call' = [call EXCEPT ![c].pc = "reading", ![c].seen.content = file.content]
    /\ UNCHANGED <<file, record, prune, remembered, freshness, published>>

OpenMissing(c) ==
    /\ call[c].pc = "opening" /\ file.stamp = 0
    /\ \/ call[c].leg = "hit" /\ ~remembered /\ Request(c, TRUE, NoRecord)
       \/ call[c].leg = "refresh" /\ RequestAgain(c)
       \/ /\ \/ call[c].leg \in {"stale", "downloaded"}
             \/ call[c].leg = "hit" /\ remembered
          /\ Fail(c)
          /\ UNCHANGED record
    /\ UNCHANGED <<file, prune, remembered, freshness, published>>

MutFinish(c) ==
    /\ call[c].pc = "reading"
    /\ WriteSidecar([call[c].seen EXCEPT !.stamp = file.stamp])
    /\ Deliver(c, call[c].seen.content)
    /\ UNCHANGED <<file, prune, remembered, freshness, published>>

(* The digest is complete: write the record and succeed. *)
Finish(c) ==
    /\ call[c].pc = "reading"
    /\ WriteSidecar(call[c].seen)
    /\ Deliver(c, call[c].seen.content)
    /\ UNCHANGED <<file, prune, remembered, freshness, published>>

-----------------------------------------------------------------------------
(* discardCachedDownload *)

MutStillMatch(content) == TRUE

(* cachedBytesStillMatch: an unreadable record cannot save the bytes. *)
StillMatch(content) ==
    \/ ReadableRecord = NoRecord
    \/ ReadableRecord.content = content

MutDiscard ==
    /\ RetireSidecar
    /\ file' \in {NoFile, file}

(* Record first, bytes second; a file that cannot be unlinked is truncated. *)
Discard ==
    /\ RetireSidecar
    /\ \/ file' = NoFile
       \/ /\ file.stamp # 0 /\ MayStamp
          /\ file' = [content |-> 0, stamp |-> NewStamp]
       \/ MayLock /\ UNCHANGED file

(* The caller opens the archive: what it sees is what is at the path by then. *)
Judge(c) ==
    /\ call[c].pc = "judging"
    /\ call' = [call EXCEPT ![c] =
                  IF file.content \in Poison \cup {0}
                  THEN [@ EXCEPT !.pc = "condemning"] ELSE Idle]
    /\ UNCHANGED <<file, record, prune, remembered, freshness, published>>

Condemn(c) ==
    /\ call[c].pc = "condemning"
    /\ IF StillMatch(call[c].seen.content) THEN Discard ELSE UNCHANGED <<file, record>>
    /\ Fail(c)
    /\ UNCHANGED <<prune, remembered, freshness, published>>

(* deleteEntries: list the file with the digest its record names, ... *)
PruneList ==
    /\ MayPrune /\ prune.step = "off" /\ file.stamp # 0
    /\ prune' = IF record = NoRecord THEN [step |-> "unknown", content |-> 0]
                                     ELSE [step |-> "known", content |-> record.content]
    /\ UNCHANGED <<file, record, call, remembered, freshness, published>>

(* ... and delete it later. *)
PruneDelete ==
    /\ prune.step # "off"
    /\ IF prune.step = "unknown" \/ StillMatch(prune.content)
       THEN Discard ELSE UNCHANGED <<file, record>>
    /\ prune' = [step |-> "off", content |-> 0]
    /\ UNCHANGED <<call, remembered, freshness, published>>

-----------------------------------------------------------------------------
(* The process dies, possibly between the two deletions of an eviction. *)
Crash ==
    /\ MayCrash
    /\ \/ UNCHANGED record
       \/ /\ \/ \E c \in Callers : /\ call[c].pc = "condemning"
                                   /\ StillMatch(call[c].seen.content)
             \/ prune.step = "unknown"
             \/ prune.step = "known" /\ StillMatch(prune.content)
          /\ record' = NoRecord
    /\ call' = [c \in Callers |-> Idle]
    /\ prune' = [step |-> "off", content |-> 0]
    /\ remembered' = FALSE
    /\ UNCHANGED <<file, freshness, published>>

(* The window of a remembered rejection ends. *)
ForgetRejection ==
    /\ remembered
    /\ remembered' = FALSE
    /\ UNCHANGED <<file, record, call, prune, freshness, published>>

(* The repository replaces the body. *)
Publish ==
    /\ published + 1 \in Versions
    /\ published' = published + 1
    /\ UNCHANGED <<file, record, call, prune, remembered, freshness>>

Proceed(c) ==
    \/ ReceiveBody(c) \/ ReceiveUnchanged(c)
    \/ Open(c) \/ OpenMissing(c) \/ Finish(c) \/ Judge(c) \/ Condemn(c)

NoBody(c) ==
    \/ ReceiveRefused(c) \/ ReceiveRejected(c) \/ ReceiveTransient(c) \/ ReceiveErrorAgain(c)

Resolve(c) == HitByRecord(c) \/ HitByHash(c) \/ Ask(c)

Next ==
    \/ \E c \in Callers : Resolve(c) \/ Answer(c) \/ NoBody(c) \/ Proceed(c)
    \/ PruneList \/ PruneDelete \/ Crash \/ ForgetRejection \/ Publish

(* Promises settle and files are read; the url is asked for again and again,
   and a repository asked again and again delivers its body in the end. *)
Fairness ==
    /\ WF_vars(ForgetRejection)
    /\ \A c \in Callers :
          /\ WF_vars(Resolve(c)) /\ WF_vars(Proceed(c))
          /\ SF_vars(Answer(c))

Spec == Init /\ [][Next]_vars /\ Fairness

-----------------------------------------------------------------------------
(* Safety *)

(* A record that matches the stat of the file has the digest of the file,
   whatever was renamed over it, truncated or restored while a call hashed
   or waited (the stat before the digest, sidecarStillCurrent). *)
RecordTrue ==
    record.stamp # 0 /\ record.stamp = file.stamp => record.content = file.content

(* A call that succeeds without hashing names the bytes that are at the path at
   that moment (a hit by record, a stale copy, a 304, the record of a winner). *)
DeliveredAsTheyAre ==
    [][\A c \in Callers :
          call'[c].pc = "judging" /\ call[c].pc \in {"idle", "requesting", "answered"}
             => call'[c].seen.content = file.content]_vars

(* Bytes that a readable record identifies go only when somebody judged, or
   selected, bytes of that digest (discardCachedDownload's `expected`), or
   when a prune listed the file while it had no record. *)
IdentifiedBytesStay ==
    [][Cached /\ ReadableRecord # NoRecord /\ file'.content = 0
          => \/ \E c \in Callers : /\ call[c].pc = "condemning"
                                   /\ call[c].seen.content = file.content
             \/ prune.step = "known" /\ prune.content = file.content
             \/ prune.step = "unknown"]_vars

(* The validators kept with bytes are those of these bytes, so that a later 304
   is about what is on disk. The comment on "revalidated" promises it ("the
   repository confirmed the cached bytes with a 304"); the 304 leg breaks it. *)
TagsDescribeBytes ==
    record.stamp # 0 /\ record.stamp = file.stamp => record.tag \in {0, record.content}

(* Liveness *)

(* A body that is no archive does not outlive the outage that produced it: when
   the repository serves a good one, the cache gets it. *)
PoisonDoesNotLast ==
    published \notin Poison ~> (file.content # 0 /\ file.content \notin Poison)

=============================================================================
