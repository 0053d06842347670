------------------------------- MODULE MCBinkP -------------------------------
(* The scenarios of BinkP that the model checker runs through.             *)
EXTENDS BinkP

Both(o, a) == [s \in Sides |-> IF s = "ORIGINATING" THEN o ELSE a]

\* A Windows installation, one call over a prompt link, nothing goes wrong.
Plain ==
  [Password |-> Both("pass", "pass"), AddressOk |-> Both(TRUE, TRUE),
   ChunkSize |-> 1, PendSlots |-> 2, Posix |-> FALSE, SkipNet |-> FALSE,
   GetChunkFails |-> FALSE, Prompt |-> TRUE, MayAppend |-> FALSE,
   DeleteFails |-> FALSE, HasContact |-> Both(TRUE, TRUE),
   MaxPosted |-> Both(2, 2), MaxSessions |-> 1, MaxCrashes |-> 0, MaxResets |-> 0]

\* Two such calls between POSIX systems, the second of them for nothing.
Again == [Plain EXCEPT !.MaxSessions = 2, !.MaxPosted = Both(3, 0), !.ChunkSize = 2,
                       !.Posix = TRUE]

\* Any latency: every wait may time out at any moment, reads and deletions may
\* fail, and the answering side has no record of the caller.
Slow == [Plain EXCEPT !.Prompt = FALSE, !.MaxPosted = Both(1, 0), !.GetChunkFails = TRUE,
                      !.DeleteFails = TRUE, !.HasContact = Both(TRUE, FALSE)]

\* One crash of either process and one broken connection: three calls with
\* a file of two chunks one way, and two calls with mail both ways.
Faults == [Plain EXCEPT !.MaxPosted = Both(2, 0), !.MaxSessions = 3,
                        !.MaxCrashes = 1, !.MaxResets = 1]
FaultsBothWays == [Faults EXCEPT !.MaxPosted = Both(1, 1), !.MaxSessions = 2]

\* network1 is left to the BBS, rename_pend has a single name to try, and the
\* file that was sent may stay and be sent again.
NoSlots == [Plain EXCEPT !.MaxPosted = Both(2, 0), !.MaxSessions = 3, !.MaxResets = 1,
                         !.SkipNet = TRUE, !.PendSlots = 1, !.MayAppend = TRUE,
                         !.DeleteFails = TRUE]

\* POSIX, network1 appends while the file is sent, any latency; the last
\* chunk is partly filled.
Append3 == [Plain EXCEPT !.Prompt = FALSE, !.MaxPosted = Both(3, 0), !.ChunkSize = 2,
                         !.Posix = TRUE, !.MayAppend = TRUE]

\* POSIX, three calls with mail posted in between, a broken connection.
Replace == [Plain EXCEPT !.MaxPosted = Both(2, 0), !.MaxSessions = 3, !.MaxResets = 1,
                         !.Posix = TRUE, !.MayAppend = TRUE]

\* Passwords differ; the caller reached another system than it meant to; the
\* answering side does not know the caller.
Stranger == [Plain EXCEPT !.Prompt = FALSE, !.MaxPosted = Both(1, 1),
                          !.Password = Both("pass", "word")]
WrongSystem == [Plain EXCEPT !.Prompt = FALSE, !.MaxPosted = Both(1, 1),
                             !.AddressOk = Both(FALSE, TRUE)]
UnknownCaller == [WrongSystem EXCEPT !.AddressOk = Both(TRUE, FALSE)]

SafetyScenarios == {Faults, FaultsBothWays, NoSlots, Append3, Replace, Stranger,
                    WrongSystem, UnknownCaller}
LivenessScenarios == {Plain, Again, Slow}
BadChunkScenarios == {[Plain EXCEPT !.MaxPosted = Both(1, 0), !.GetChunkFails = TRUE]}
ContactScenarios == {[Plain EXCEPT !.Prompt = FALSE, !.MaxPosted = Both(0, 0)]}
=============================================================================
