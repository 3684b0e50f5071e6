------------------------------ MODULE FsSandbox ------------------------------
(***************************************************************************)
(* The paths an agent may name in fs/read_text_file and                    *)
(* fs/write_text_file (crates/anyclaw-agents/src/fs_sandbox.rs).           *)
(*                                                                         *)
(* An absolute path is a sequence of names, <<>> the root of the disk.     *)
(* disk.nodes holds the paths of its directories and files, disk.files     *)
(* those of the files, disk.links the symbolic links with the absolute     *)
(* paths they point to.                                                    *)
(***************************************************************************)
EXTENDS Integers, Sequences, SequencesExt

\* Bounds of the system: the links that are followed for one path, the names a
\* link may consist of.
MaxLinks == 4
MaxTarget == 4

NotFound == <<"ENOENT">>

\* One name of a walk: go up at "..", follow a link, go down to what is there.
\* A walk that finds nothing there, or one link too many, stays where it is.
WalkStep(disk, s) ==
    LET below == Append(s.at, Head(s.names))
    IN  IF s.names = <<>> THEN s
        ELSE IF Head(s.names) = ".."
             THEN [s EXCEPT !.at = IF @ = <<>> THEN @ ELSE Front(@), !.names = Tail(@)]
        ELSE IF below \in DOMAIN disk.links
             THEN IF s.left = 0 THEN s
                  ELSE [at |-> <<>>, names |-> disk.links[below] \o Tail(s.names), left |-> s.left - 1]
        ELSE IF below \in disk.nodes THEN [s EXCEPT !.at = below, !.names = Tail(@)]
        ELSE s

\* The state in which the walk along a path ends.
Walk(disk, path) ==
    LET steps == Len(path) + MaxLinks * MaxTarget
        walk[n \in 0..steps] ==
            IF n = 0 THEN [at |-> <<>>, names |-> path, left |-> MaxLinks] ELSE WalkStep(disk, walk[n - 1])
    IN  walk[steps]

\* std::fs::canonicalize: an error if names are left.
Canonicalize(disk, path) ==
    IF Walk(disk, path).names = <<>> THEN Walk(disk, path).at ELSE NotFound

\* The working directory of the workspace, local or container, or else the
\* directory the supervisor runs in.
ResolveAgentCwd(workspace, currentDir) ==
    IF workspace.working_dir = {} THEN currentDir ELSE CHOOSE d \in workspace.working_dir : TRUE

Resolved(root, requested) == IF requested.absolute THEN requested.names ELSE root \o requested.names

\* Mutant of ValidateFsPath: the path is compared as it is written.
ValidateFsPathWritten(disk, root, requested) ==
    IF NotFound = Canonicalize(disk, Resolved(root, requested)) \/ ~IsPrefix(root, Resolved(root, requested)) THEN {}
    ELSE {Canonicalize(disk, Resolved(root, requested))}

\* {} is a refusal, otherwise the path that is opened.
ValidateFsPath(disk, root, requested) ==
    LET canonical == Canonicalize(disk, Resolved(root, requested))
        canonicalRoot == Canonicalize(disk, root)
    IN  IF NotFound \in {canonical, canonicalRoot} \/ ~IsPrefix(canonicalRoot, canonical) THEN {}
        ELSE {canonical}

\* The file need not exist: its directory is resolved, its name is appended.
\* A path that is empty or ends in ".." has no file name.
ValidateFsWritePath(disk, root, requested) ==
    LET path == Resolved(root, requested)
        parent == Canonicalize(disk, Front(path))
        canonicalRoot == Canonicalize(disk, root)
    IN  IF \/ path = <<>> \/ Last(path) = ".."
           \/ NotFound \in {parent, canonicalRoot} \/ ~IsPrefix(canonicalRoot, parent) THEN {}
        ELSE {Append(parent, Last(path))}

\* tokio::fs::write of handle_fs_write: the file that is written, if any.  A link
\* is followed even where it is the last name, and what is not there is made.
FileWritten(disk, path) ==
    LET end  == Walk(disk, path)
        file == Append(end.at, Head(end.names))
    IN  IF end.names = <<>> THEN {end.at} \cap disk.files
        ELSE IF Len(end.names) = 1 /\ end.at \notin disk.files /\ file \notin DOMAIN disk.links THEN {file}
        ELSE {}
=============================================================================
