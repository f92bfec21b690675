------------------------------ MODULE ProgramsMC ------------------------------
(* Instances of Programs for TLC: the four SQL files of the repository,     *)
(* with some of what each creates.                                          *)
EXTENDS Programs

CONSTANTS r1, r2, config, events, ixClaim, ixKey, ixWorker, inbox, ixStatus, ixSource

Files == << <<config, events>>, <<ixClaim, ixKey, ixWorker>>,
            <<inbox>>, <<ixStatus, ixSource>> >>
=============================================================================
