-------------------------- MODULE MCDownloadCache --------------------------
(* DownloadCache for TLC. The calls of one url are interchangeable. *)
EXTENDS DownloadCache, TLC

CallersAlike == Permutations(Callers)

(* A stat that the file at the path does not have is no file's any more and
   never will be, so which one it is makes no difference to any later state. *)
Matching(identity) ==
    IF identity.stamp = file.stamp \/ identity.stamp = 0
    THEN [identity EXCEPT !.stamp = IF identity.stamp = 0 THEN 0 ELSE 1]
    ELSE [identity EXCEPT !.stamp = 2]

UpToStamps ==
    <<file.content, file.stamp # 0, Matching(record),
      [c \in Callers |-> [call[c] EXCEPT !.sidecar = Matching(@), !.seen = Matching(@)]],
      prune, remembered, freshness, published>>

=============================================================================
