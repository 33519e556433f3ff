-------------------------- MODULE MCDestructivePreview --------------------------
(* DestructivePreview for TLC: two Runtimes, as two processes have.           *)
EXTENDS DestructivePreview, TLC

CONSTANTS shell, library, here, there

Owners == (library :> here) @@ (shell :> there)
=============================================================================
