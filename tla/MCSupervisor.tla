---------------------------- MODULE MCSupervisor ----------------------------
(* Instances of Supervisor for TLC: clients of the two eras.               *)
EXTENDS Supervisor

Request(id, method, signal, waits, n) ==
  [id |-> id, method |-> method, signal |-> signal, waits |-> waits, n |-> n]
Modern(id, method) == Request(id, method, "modern", FALSE, 1)
Legacy(id, method) == Request(id, method, "none", method # "initialize", 1)

PosixTermination == {"accepted", "unresolved"}
WindowsTermination == {"pending"}
Confirmed == {"accepted"}
AnySpawn == {"running", "no_pid", "throw"}
OrThrow == {"running", "throw"}
Running == {"running"}

NoneCancellable == {}

\* A modern client: two calls and two validate-projects, one of them sent
\* again with the same id after its reply, which is not cancelled, and one of
\* which cannot be written; and a shorter one, with a call that cannot.
Again(r) == [r EXCEPT !.n = 2]
ShortClient ==
  {Modern("c", "call"), Modern("v", "validate"), Modern("w", "validate")}
ModernClient ==
  ShortClient \cup {Modern("d", "call"), Again(Modern("v", "validate"))}
ModernUnwritable == {Modern("w", "validate")}
FaultyClient == ShortClient \cup {Modern("e", "call")}
ShortUnwritable == {Modern("e", "call"), Modern("w", "validate")}
ModernCancellable == {Modern("c", "call"), Modern("w", "validate")}

\* A legacy client, which waits for its handshake, and one that initializes
\* again after an initialize that failed (or, with Reinitializes, at any time).
LegacyClient ==
  {Legacy("i", "initialize"), Legacy("c", "call"), Legacy("v", "validate")}
LegacyCancellable == {Legacy("v", "validate")}
RetryingClient ==
  LegacyClient \cup {Legacy("j", "initialize"), Legacy("b", "bad_initialize")}

\* Clients that mix the eras: the probe with its fallback, and every way to be
\* rejected.
Probing == {Modern("d", "discover"), Legacy("i", "initialize")}
Mixing ==
  Probing \cup {Modern("c", "call"), Modern("l", "listen"),
                Request("u", "call", "unsupported", FALSE, 1),
                Legacy("m", "bad_call"),
                Legacy("j", "initialize"), Legacy("k", "call")}
MixingCancellable == {Modern("d", "discover")}
=============================================================================
