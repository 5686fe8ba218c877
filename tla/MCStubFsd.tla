----------------------------- MODULE MCStubFsd -----------------------------
(* Instances of StubFsd for TLC. *)
EXTENDS StubFsd, TLC

\* Threads are interchangeable, and so are the processes that run a daemon.
MCSymmetry == Permutations(Clients) \cup Permutations(Daemons)

\* Every call the kernel can make, except those that go on without the
\* exchange.
MCKeepingCalls == {o \in AllCalls : KeepsExchange(o)}

\* The calls that return the exchange and signal the daemon promptly.
MCPromptCalls == {o \in AllCalls : Prompt(o)}

\* The call that goes on without the exchange.
MCFaultCalls == {FS_FILEINFO(TRUE, 1)}

MCAllFaults == FaultKinds

\* Single handlers.
MCWrite == {FS_WRITE}
MCIoctl == {FS_IOCTL(TRUE)}
MCFileInfo == {FS_FILEINFO(TRUE, 1), FS_CLOSE}
MCRead == {FS_READ}
=============================================================================
