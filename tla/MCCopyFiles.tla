------------------------------ MODULE MCCopyFiles ------------------------------
(* Trees and ways for CopyFiles, for TLC. *)
EXTENDS CopyFiles

En(p, k) == [path |-> p, kind |-> k]

(* A file, a link, an empty directory, and directories of two depths. *)
TreesDef == {<<En("top", "file")>>, <<En("top", "link")>>, <<En("top", "dir")>>,
             <<En("top", "dir"), En("x", "file")>>,
             <<En("top", "dir"), En("x", "link"), En("y", "file")>>,
             <<En("top", "dir"), En("x", "dir"), En("y", "file")>>}
EmptyDirDef == {<<En("top", "dir")>>}

WaysDef == {<<"in", "direct">>, <<"in", "hub">>, <<"out", "stage">>, <<"out", "stream">>, <<"out", "hub">>}
StreamDef == {<<"out", "stream">>}
================================================================================
