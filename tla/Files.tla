------------------------------- MODULE Files -------------------------------
(***************************************************************************)
(* The workspace file operations of filesystem/service.rs and the patch    *)
(* tool of filesystem/edit.rs.  One operation runs, step by step, between  *)
(* the steps of other programs, of a cancellation, of an I/O failure and   *)
(* of a crash.                                                             *)
(*                                                                         *)
(* A file is read and written in two blocks, so its content is a pair of   *)
(* block versions; it is whole when both blocks are of one version.        *)
(***************************************************************************)
EXTENDS Integers, Sequences, FiniteSets, FiniteSetsExt, SequencesExt

CONSTANTS
    Scenarios,    \* records [ops, disk, outside]: what runs, on what, beside whom
    Order,        \* every path below the root, children before their directory
    Parent,       \* the directory of each path
    Twin,         \* where the path lies below the destination of a copy or move
    Temp,         \* the temporary sibling of a destination (sibling_temp_path)
    Name,         \* the last component of a path, a sequence of characters
    MaxOutside,   \* bound: changes other programs make during one operation
    MaxFaults     \* bound: I/O calls that fail during one operation

VARIABLES
    op,           \* the operation that runs, with its arguments
    at,           \* the place it has reached
    disk,         \* [path -> entry]
    root,         \* is the workspace root still the directory first opened?
    deny,         \* [path -> what the share modes of our handles refuse others]
    todo,         \* the entries a loop of the operation still has to handle
    failure,      \* the error a copied tree is being removed for
    cancelled,    \* FilesystemCancellation
    answer,       \* what the operation returned
    found,        \* what a listing returned
    outside,      \* the paths other programs may change
    changes,      \* how many changes they made
    faults,       \* how many I/O calls failed
    kept,         \* history: the content each source file of a move must keep
    removed,      \* history: the entries this operation deleted
    stuck         \* history: what a clean-up failed to put right

vars == <<op, at, disk, root, deny, todo, failure, cancelled, answer, found,
          outside, changes, faults, kept, removed, stuck>>
world == <<op, outside, changes, cancelled, root>>

Root == "root"
Paths == ToSet(Order)
None == <<>>
Dir == <<"directory">>
Link == <<"reparse">>
Blocks(v) == <<v, v>>
IsFile(e) == Len(e) = 2
Whole(e) == IsFile(e) => e[1] = e[2]

OutsideVersion == 9
NewVersion == 5
LargeVersion == 4
BinaryVersion == 6

Above[p \in Paths] == IF Parent[p] = Root THEN {Root} ELSE {Parent[p]} \cup Above[Parent[p]]
Below(d) == {p \in Paths : d \in Above[p]}
Tree(d) == {d} \cup Below(d)
Present(p) == disk[p] # None
Temps == {Temp[p] : p \in Paths}

(***************************************************************************)
(* Path authority.  Every resolution and every handle first compares the   *)
(* root's file identity with the one the authority was made for.           *)
(***************************************************************************)
RootIsOurs == root = "original"

NoDenial == [p \in Paths \cup {Root} |-> {}]

\* open_directory_chain: handles on a directory and on all its ancestors, none
\* of which another program can rename or delete while they are open
Chain(p) == IF p = Root THEN {Root} ELSE {p} \cup Above[p]
Denying(held, refusal) == [p \in Paths \cup {Root} |->
                              IF p \in held THEN deny[p] \cup refusal ELSE deny[p]]
Guard(held, handles, refusal) ==
    [p \in Paths \cup {Root} |-> deny[p] \cup (IF p \in held THEN {"delete"} ELSE {})
                                         \cup (IF p \in handles THEN refusal ELSE {})]

(***************************************************************************)
(* Walking a directory within a budget of entries and a depth.             *)
(***************************************************************************)
Children(d) == SelectSeq(Order, LAMBDA p : Parent[p] = d /\ Present(p))

\* the children read_dir_bounded returns, and whether it stopped at the budget
FaultyReadDirBounded(d, scanned) ==
    LET room == op.entries - scanned
        kids == Children(d)
    IN  [children |-> SubSeq(kids, 1, IF Len(kids) < room THEN Len(kids) ELSE room),
         overflow |-> room = 0]

ReadDirBounded(d, scanned) ==
    LET room == op.entries - scanned
        kids == Children(d)
    IN  [children |-> SubSeq(kids, 1, IF Len(kids) < room THEN Len(kids) ELSE room),
         overflow |-> Len(kids) >= room]

HasEntryWithBudget(d, scanned) == scanned >= op.entries \/ Children(d) # <<>>

RECURSIVE WalkDirectory(_, _, _)
\* walk_windows_directory: a link is left out, and so is what lies beyond the
\* budget or the depth; both are recorded.  "list" is in post-order
WalkDirectory(d, depth, walk) ==
    IF depth >= (IF op.recursive THEN op.depth ELSE 1)
    THEN IF op.recursive /\ HasEntryWithBudget(d, walk.scanned)
         THEN [walk EXCEPT !.over = TRUE, !.scanned = @ + 1]
         ELSE walk
    ELSE LET read == ReadDirBounded(d, walk.scanned)
             Visit(w, p) ==
                 IF disk[p] = Link THEN [w EXCEPT !.links = TRUE]
                 ELSE LET deeper == IF disk[p] = Dir THEN WalkDirectory(p, depth + 1, w) ELSE w
                      IN  [deeper EXCEPT !.list = Append(@, p)]
             read_walk == [walk EXCEPT !.scanned = @ + Len(read.children)]
             after == FoldLeft(Visit, read_walk, read.children)
         IN  [after EXCEPT !.over = @ \/ read.overflow]

Walk(d) == WalkDirectory(d, 0, [list |-> <<>>, scanned |-> 0, over |-> FALSE, links |-> FALSE])
Truncated(walk) == walk.over \/ walk.links

\* tree_manifest of both trees: every entry down to the depth, with its kind and its
\* content
Entries(d) == {p \in Below(d) : Present(p) /\ Cardinality(Above[p] \cap Tree(d)) <= op.depth}
SameTrees(s, d) ==
    /\ \A p \in Entries(s) : disk[Twin[p]] = disk[p]
    /\ \A q \in Entries(d) : \E p \in Entries(s) : Twin[p] = q

(***************************************************************************)
(* wildcard_match: a scan that returns to the last star when it is stuck.  *)
(***************************************************************************)
RECURSIVE Scan(_, _, _, _, _, _)
Scan(pattern, value, p, v, star, checkpoint) ==
    IF v <= Len(value) THEN
        IF p <= Len(pattern) /\ pattern[p] \in {"?", value[v]}
        THEN Scan(pattern, value, p + 1, v + 1, star, checkpoint)
        ELSE IF p <= Len(pattern) /\ pattern[p] = "*"
        THEN Scan(pattern, value, p + 1, v, p, v)
        ELSE IF star # 0
        THEN Scan(pattern, value, star + 1, checkpoint + 1, star, checkpoint + 1)
        ELSE FALSE
    ELSE \A i \in p .. Len(pattern) : pattern[i] = "*"

WildcardMatch(pattern, value) == Scan(pattern, value, 1, 1, 0, 1)

RECURSIVE Matches(_, _)
\* reference: what the pattern language means
Matches(pattern, value) ==
    IF pattern = <<>> THEN value = <<>>
    ELSE IF Head(pattern) = "*"
         THEN \E n \in 0 .. Len(value) : Matches(Tail(pattern), SubSeq(value, n + 1, Len(value)))
         ELSE /\ value # <<>>
              /\ Head(pattern) \in {"?", Head(value)}
              /\ Matches(Tail(pattern), Tail(value))

(***************************************************************************)
(* How an operation ends.                                                  *)
(***************************************************************************)
TreeCopy == op.kind \in {"copy", "move"} /\ disk[op.src] = Dir
CopyPlaces == {"block1", "block2", "commit", "verify"}
TreePlaces == {"walk", "make", "next", "manifest"} \cup (IF TreeCopy THEN CopyPlaces ELSE {})

Current == IF at \in CopyPlaces /\ TreeCopy THEN Head(todo) ELSE op.src
Target == IF at \in CopyPlaces /\ TreeCopy THEN Twin[Head(todo)] ELSE op.dst

TempOf == Temp[Target]

Done(result) == /\ at' = "done"
                /\ answer' = result
                /\ deny' = NoDenial
                /\ UNCHANGED <<failure, todo>>
Succeed == Done("ok") /\ UNCHANGED <<faults, stuck>>

\* `if result.is_err() { remove_file(&temp) }`, and the rollback of an edit
Undone == [p \in Paths |->
              IF at \in CopyPlaces /\ p = TempOf THEN None
              ELSE IF at = "edit" /\ p = op.src THEN Blocks(op.expect)
              ELSE disk[p]]

\* an error of copy_directory_tree or of its verification removes the copied
\* tree, with a cancellation of its own
FaultyFailOn(result, onDisk) == /\ disk' = onDisk
                                /\ Done(result)

FailOn(result, onDisk) ==
    /\ disk' = onDisk
    /\ IF at \in TreePlaces
       THEN /\ at' = "clean"
            /\ failure' = result
            /\ deny' = [deny EXCEPT ![op.dst] = {}]
            /\ UNCHANGED <<answer, todo>>
       ELSE Done(result)

\* what undoes a failure may fail itself, which nobody looks at: `let _ = ...`
Undo(result, undone, failed) ==
    \/ FailOn(result, undone) /\ faults' = failed /\ UNCHANGED stuck
    \/ /\ undone # disk /\ failed < MaxFaults
       /\ FailOn(result, disk)
       /\ faults' = failed + 1
       /\ stuck' = stuck \cup {p \in Paths : undone[p] # disk[p]}

Fail(result) == Undo(result, Undone, faults) /\ UNCHANGED <<found, kept, removed>>

Refuse(result) == Done(result) /\ UNCHANGED <<disk, found, kept, removed, faults, stuck>>

Go(place) == at' = place /\ UNCHANGED <<answer, failure, faults, stuck>>

(***************************************************************************)
(* The operations.  Each first resolves its paths and reads the metadata   *)
(* of what it finds, then opens handles.                                   *)
(***************************************************************************)
Cancellable == {"copy", "move", "delete", "list", "search", "content"}
Edits == {"replace", "create", "deleteIf"}

\* validate_walk_bounds
BoundsValid == op.depth > 0 /\ op.entries > 0

MayReplace(p) == \/ ~Present(p)
                 \/ IsFile(disk[p]) /\ op.overwrite

ExistsError(p) == IF IsFile(disk[p]) THEN "AlreadyExists" ELSE "OutsideAuthority"

Sources == Cancellable \cup {"replace", "deleteIf"}

\* parse_filesystem_request: an unknown key or action, a missing or malformed
\* field, or bounds that exclude each other
ArgumentsRefused == op.refused = "arguments"

\* the patch's paths, the expected identities, the size and date ranges
RangesRefused == op.refused = "ranges"

\* handle_workspace_filesystem up to the call of the service.  A cancellation
\* that came before the request has its target is handed to it here
Receive ==
    /\ at = "receive"
    /\ IF ArgumentsRefused \/ RangesRefused THEN Refuse("InvalidArgument")
       ELSE IF op.refused = "permission" THEN Refuse("OutsideAuthority")
       ELSE IF ~RootIsOurs THEN Refuse("OutsideAuthority")
       ELSE Go("resolve") /\ UNCHANGED <<disk, deny, todo, found, kept, removed>>
    /\ UNCHANGED world

Resolve ==
    /\ at = "resolve"
    /\ op.kind \in Cancellable => ~cancelled
    /\ IF op.kind \in Cancellable /\ ~BoundsValid THEN Refuse("LimitExceeded")
       ELSE IF ~RootIsOurs THEN Refuse("OutsideAuthority")
       ELSE IF op.kind \in Sources /\ op.src # Root /\ ~Present(op.src) THEN Refuse("NotFound")
       ELSE IF op.kind = "delete" /\ op.src = Root THEN Refuse("OutsideAuthority")
       ELSE IF op.kind = "copy" /\ disk[op.src] = Link THEN Refuse("OutsideAuthority")
       ELSE IF op.kind = "copy" /\ disk[op.src] = Dir /\ ~(op.recursive /\ ~Present(op.dst))
            THEN Refuse(IF Present(op.dst) THEN "AlreadyExists" ELSE "InvalidArgument")
       ELSE IF op.kind = "write" /\ ~MayReplace(op.dst) THEN Refuse(ExistsError(op.dst))
       ELSE IF op.kind = "create" /\ Present(op.dst) THEN Refuse("FileChanged")
       ELSE IF op.kind \in {"replace", "deleteIf"} /\ disk[op.src] # Blocks(op.expect)
            THEN Refuse(IF IsFile(disk[op.src]) THEN "FileChanged" ELSE "InvalidArgument")
       ELSE Go("open") /\ UNCHANGED <<disk, deny, todo, found, kept, removed>>
    /\ UNCHANGED world

\* list is the walk; search filters it by name and cuts it at max_results
List ==
    /\ at = "open"
    /\ op.kind \in {"list", "search"}
    /\ ~cancelled
    /\ IF ~RootIsOurs THEN Refuse("OutsideAuthority")
       ELSE LET walk == Walk(op.src)
                hits == SelectSeq(walk.list, LAMBDA p :
                            op.kind = "search" => WildcardMatch(op.pattern, Name[p]))
                cut == op.kind = "search" /\ Len(hits) > op.results
            IN  /\ found' = [entries |-> ToSet(SubSeq(hits, 1, IF cut THEN op.results ELSE Len(hits))),
                             truncated |-> Truncated(walk) \/ cut, hits |-> 0, skipped |-> 0]
                /\ Succeed
                /\ UNCHANGED <<disk, kept, removed>>
    /\ UNCHANGED world

\* search_content: the files of the walk in order, as many hits in each as its version.
\* A file that is too large is left out and truncates the result; one that is no text
\* is left out and counted; the search stops when it has the hits that were asked for
ContentStep(got, p) ==
    IF got.hits = op.results THEN got
    ELSE IF disk[p][1] = LargeVersion THEN [got EXCEPT !.truncated = TRUE]
    ELSE IF disk[p][1] = BinaryVersion THEN [got EXCEPT !.skipped = @ + 1]
    ELSE LET hits == got.hits + disk[p][1]
         IN  [got EXCEPT !.hits = IF hits > op.results THEN op.results ELSE hits,
                         !.truncated = @ \/ hits >= op.results]

SearchContent ==
    /\ at = "open"
    /\ op.kind = "content"
    /\ ~cancelled
    /\ IF ~RootIsOurs THEN Refuse("OutsideAuthority")
       ELSE LET walk == Walk(op.src)
                files == SelectSeq(walk.list, LAMBDA p : IsFile(disk[p]))
            IN  /\ found' = FoldLeft(ContentStep, [entries |-> {}, truncated |-> Truncated(walk),
                                                   hits |-> 0, skipped |-> 0], files)
                /\ Succeed
                /\ UNCHANGED <<disk, kept, removed>>
    /\ UNCHANGED world

\* write: the parent chain is opened, then the content goes to a new sibling
OpenWrite ==
    /\ at = "open"
    /\ op.kind = "write"
    /\ IF ~RootIsOurs THEN Refuse("OutsideAuthority")
       ELSE /\ deny' = Guard(Chain(Parent[op.dst]), {}, {})
            /\ Go("block1")
            /\ UNCHANGED <<disk, todo, found, kept, removed>>
    /\ UNCHANGED world

\* copy_file_atomic and copy_open_file_atomic check the target before the temporary
\* file is made; copy opens the source so that others may still write it
FileHandleDenies == IF op.kind = "move" THEN {"write", "delete"} ELSE {"delete"}

OpenCopy ==
    /\ at = "open"
    /\ op.kind = "copy"
    /\ IF ~RootIsOurs THEN Refuse("OutsideAuthority")
       ELSE IF ~Present(op.src) THEN Refuse("NotFound")
       ELSE IF disk[op.src] = Dir
       THEN /\ deny' = Guard(Chain(op.src), {}, {})
            /\ Go("mkdir")
            /\ UNCHANGED <<disk, todo, found, kept, removed>>
       ELSE IF ~MayReplace(op.dst) THEN Refuse(ExistsError(op.dst))
       ELSE /\ deny' = Guard(Chain(Parent[op.dst]), {op.src}, FileHandleDenies)
            /\ Go("block1")
            /\ UNCHANGED <<disk, todo, found, kept, removed>>
    /\ UNCHANGED world

\* copy_with_cancellation (and write_new_synced) fill the temporary file block by block
Source == IF op.kind = "write" THEN Blocks(NewVersion) ELSE disk[Current]

Block1 ==
    /\ at = "block1"
    /\ op.kind # "write" => ~cancelled
    /\ disk' = [disk EXCEPT ![TempOf] = <<Source[1], 0>>]
    /\ Go("block2")
    /\ UNCHANGED <<world, deny, todo, found, kept, removed>>

Block2 ==
    /\ at = "block2"
    /\ op.kind # "write" => ~cancelled
    /\ disk' = [disk EXCEPT ![TempOf][2] = Source[2]]
    /\ Go("commit")
    /\ UNCHANGED <<world, deny, todo, found, kept, removed>>

\* rename_handle_to_path: the temporary file takes the target's name in one step.
\* In a tree copy overwrite is false
Commit ==
    /\ at = "commit"
    /\ IF Present(Target) /\ ~(IsFile(disk[Target]) /\ op.overwrite /\ ~TreeCopy)
       THEN Fail("AlreadyExists")
       ELSE /\ disk' = [disk EXCEPT ![Target] = disk[TempOf], ![TempOf] = None]
            /\ IF op.kind = "write" THEN Go("revalidate") /\ UNCHANGED <<deny, todo>>
               ELSE Go("verify") /\ deny' = Denying({Target}, {"delete"}) /\ UNCHANGED todo
            /\ UNCHANGED <<found, kept, removed>>
    /\ UNCHANGED world

\* what was committed is opened or resolved once more; if that fails the operation
\* has happened all the same
Revalidate ==
    /\ at = "revalidate"
    /\ IF Present(op.dst) THEN Succeed /\ UNCHANGED <<disk, found, kept, removed>>
       ELSE Refuse("NotFound")
    /\ UNCHANGED world

\* the source is hashed again and compared with what was committed; a copy
\* that differs is deleted
AfterCopy ==
    IF TreeCopy THEN Go("next") /\ todo' = Tail(todo) /\ UNCHANGED deny
    ELSE IF op.kind = "move" THEN Go("drop") /\ UNCHANGED <<deny, todo>>
    ELSE Go("revalidate") /\ deny' = NoDenial /\ UNCHANGED todo

Verify ==
    /\ at = "verify"
    /\ ~cancelled
    /\ IF disk[Target] = disk[Current]
       THEN AfterCopy /\ UNCHANGED <<disk, found, kept, removed>>
       ELSE /\ Undo("Io", [disk EXCEPT ![Target] = None], faults)
            /\ UNCHANGED <<found, kept, removed>>
    /\ UNCHANGED world

(***************************************************************************)
(* Copying a tree.                                                         *)
(***************************************************************************)
\* create_directory of the destination
MakeRoot ==
    /\ at = "mkdir"
    /\ IF Present(op.dst) THEN Refuse("AlreadyExists")
       ELSE /\ disk' = [disk EXCEPT ![op.dst] = Dir]
            /\ Go("pin")
            /\ UNCHANGED <<deny, todo, found, kept, removed>>
    /\ UNCHANGED world

\* then it is resolved and handles on it are opened; what fails before that returns
\* early, and only create_directory's own check removes the directory again
PinRoot ==
    /\ at = "pin"
    /\ deny' = Guard(Chain(op.dst), {}, {})
    /\ Go("walk")
    /\ UNCHANGED <<world, disk, todo, found, kept, removed>>

PinFails ==
    /\ at = "pin" /\ faults < MaxFaults
    /\ faults' = faults + 1
    /\ disk' \in {disk, [disk EXCEPT ![op.dst] = None]}
    /\ Done("Io")
    /\ UNCHANGED <<world, found, kept, removed, stuck>>

WalkTree ==
    /\ at = "walk"
    /\ ~cancelled
    /\ LET walk == Walk(op.src)
       IN  IF Truncated(walk) THEN Fail("LimitExceeded")
           ELSE /\ todo' = SelectSeq(Reverse(walk.list), LAMBDA p : disk[p] = Dir)
                           \o SelectSeq(walk.list, LAMBDA p : IsFile(disk[p]))
                /\ Go("next")
                /\ UNCHANGED <<disk, deny, found, kept, removed>>
    /\ UNCHANGED world

\* the directories of the walk first, then copy_file_atomic of each file
NextEntry ==
    /\ at = "next"
    /\ ~cancelled
    /\ IF todo = <<>> THEN Go("manifest") /\ UNCHANGED <<disk, deny, todo>>
       ELSE LET p == Head(todo) IN
            IF ~Present(p) THEN Undo("NotFound", Undone, faults)
            ELSE IF Present(Twin[p]) THEN Undo("AlreadyExists", Undone, faults)
            ELSE IF IsFile(disk[p])
            THEN /\ deny' = Denying({p}, {"delete"})
                 /\ Go("block1")
                 /\ UNCHANGED <<disk, todo>>
            ELSE /\ disk' = [disk EXCEPT ![Twin[p]] = Dir]
                 /\ todo' = Tail(todo)
                 /\ Go("next")
                 /\ UNCHANGED deny
    /\ UNCHANGED <<world, found, kept, removed>>

\* both manifests are read and compared
CompareTrees ==
    /\ at = "manifest"
    /\ ~cancelled
    /\ IF Cardinality(Entries(op.src)) >= op.entries
          THEN Fail("LimitExceeded")
       ELSE IF ~SameTrees(op.src, op.dst) THEN Fail("Io")
       ELSE IF op.kind = "copy"
       THEN Succeed /\ UNCHANGED <<disk, found, kept, removed>>
       ELSE /\ Go("preflight")
            /\ deny' = [p \in DOMAIN deny |-> IF p \in Tree(op.dst) THEN {} ELSE deny[p]]
            /\ UNCHANGED <<disk, todo, found, kept, removed>>
    /\ UNCHANGED world

\* preflight_directory_delete opens a handle on every entry before the first is
\* deleted.  A link is an entry of its own here
Handles(d) == SelectSeq(Order, LAMBDA p : Present(p) /\ d \in Above[p])

\* the copied tree is deleted under the rules of a recursive delete, children first;
\* a limit, or a call that fails on the way, ends that, and nobody looks at it
CleanUp ==
    /\ at = "clean"
    /\ LET entries == Append(Handles(op.dst), op.dst)
           Without(n) == LET gone == ToSet(SubSeq(entries, 1, n))
                         IN  [p \in Paths |-> IF p \in gone THEN None ELSE disk[p]]
       IN  \/ /\ disk' = IF Walk(op.dst).over THEN disk ELSE Without(Len(entries))
              /\ UNCHANGED <<faults, stuck>>
           \/ /\ faults < MaxFaults
              /\ \E n \in 0 .. Len(entries) - 1 : disk' = Without(n)
              /\ faults' = faults + 1
              /\ stuck' = stuck \cup {op.dst}
    /\ Done(failure)
    /\ UNCHANGED <<world, found, kept, removed>>

(***************************************************************************)
(* move_path.                                                              *)
(***************************************************************************)
\* the source handle refuses writers; then the rename is tried
OpenMove ==
    /\ at = "open"
    /\ op.kind = "move"
    /\ IF ~RootIsOurs THEN Refuse("OutsideAuthority")
       ELSE IF ~Present(op.src) THEN Refuse("NotFound")
       ELSE IF disk[op.src] = Dir /\ ~op.recursive THEN Refuse("InvalidArgument")
       ELSE IF Present(op.dst) /\ (~op.overwrite \/ disk[op.src] = Dir) THEN Refuse("AlreadyExists")
       ELSE /\ deny' = Guard(Chain(Parent[op.src]) \cup Chain(Parent[op.dst]),
                             {op.src}, FileHandleDenies)
            /\ kept' = [p \in {q \in Tree(op.src) : IsFile(disk[q])} |-> disk[p]]
            /\ Go("rename")
            /\ UNCHANGED <<disk, todo, found, removed>>
    /\ UNCHANGED world

\* on another volume a link is refused, a file copied, a directory's tree locked
Rename ==
    /\ at = "rename"
    /\ IF op.cross
       THEN IF disk[op.src] = Link THEN Refuse("Unsupported")
            ELSE IF IsFile(disk[op.src])
            THEN IF MayReplace(op.dst)
                 THEN Go("block1") /\ UNCHANGED <<disk, deny, todo, found, kept, removed>>
                 ELSE Refuse(ExistsError(op.dst))
            ELSE Go("lock") /\ UNCHANGED <<disk, deny, todo, found, kept, removed>>
       ELSE IF Present(op.dst) /\ ~(op.overwrite /\ IsFile(disk[op.dst])) THEN Refuse("AlreadyExists")
       ELSE /\ disk' = [p \in Paths |->
                          IF p \in Tree(op.src) THEN None
                          ELSE IF \E q \in Tree(op.src) : Twin[q] = p /\ Present(q)
                          THEN disk[CHOOSE q \in Tree(op.src) : Twin[q] = p]
                          ELSE disk[p]]
            /\ Go("revalidate")
            /\ deny' = [deny EXCEPT ![op.src] = {}]
            /\ UNCHANGED <<todo, found, kept, removed>>
    /\ UNCHANGED world

\* the copy of a single file is verified: the source handle is deleted
DropSource ==
    /\ at = "drop"
    /\ disk' = [disk EXCEPT ![op.src] = None]
    /\ removed' = removed \cup {op.src}
    /\ Go("revalidate")
    /\ UNCHANGED <<world, deny, todo, found, kept>>

\* lock_cross_volume_move_tree: handles that refuse writers on the whole tree
LockTree ==
    /\ at = "lock"
    /\ ~cancelled
    /\ LET walk == Walk(op.src)
       IN  IF walk.links THEN Refuse("OutsideAuthority")
           ELSE IF walk.over THEN Refuse("LimitExceeded")
           ELSE /\ deny' = Denying(ToSet(walk.list), {"write"})
                /\ Go("mkdir")
                /\ UNCHANGED <<disk, todo, found, kept, removed>>
    /\ UNCHANGED world

(***************************************************************************)
(* delete, and the deletion of the source of a move between volumes.       *)
(***************************************************************************)
OpenDelete ==
    /\ at = "open"
    /\ op.kind = "delete"
    /\ IF ~RootIsOurs THEN Refuse("OutsideAuthority")
       ELSE IF ~Present(op.src) THEN Refuse("NotFound")
       ELSE /\ deny' = Guard(Chain(Parent[op.src]), {op.src}, {"delete"})
            /\ IF disk[op.src] # Dir THEN Go("unlink") /\ todo' = <<op.src>>
               ELSE Go("preflight") /\ UNCHANGED todo
            /\ UNCHANGED <<disk, found, kept, removed>>
    /\ UNCHANGED world

\* preflight_directory_delete_exact: the tree still is what the manifest says
FaultyAsCopied(walk) == ~walk.links

AsCopied(walk) == ~walk.links /\ SameTrees(op.src, op.dst)

Preflight ==
    /\ at = "preflight"
    /\ op.recursive => ~cancelled
    /\ IF op.kind = "delete" /\ ~op.recursive /\ Children(op.src) # <<>>
          THEN Refuse("InvalidArgument")
       ELSE LET walk == Walk(op.src) IN
            IF op.recursive /\ walk.over
            THEN Refuse("LimitExceeded")
            ELSE IF op.kind = "move" /\ ~AsCopied(walk)
            THEN Refuse("FileChanged")
            ELSE /\ todo' = Append(Handles(op.src), op.src)
                 /\ deny' = Denying(ToSet(Handles(op.src)), {"write", "delete"})
                 /\ Go("unlink")
                 /\ UNCHANGED <<disk, found, kept, removed>>
    /\ UNCHANGED world

\* delete_raw_handle of each entry, children first; a directory in which
\* something appeared is not deleted
Unlink ==
    /\ at = "unlink"
    /\ LET p == Head(todo) IN
       IF disk[p] = Dir /\ Children(p) # <<>>
       THEN Refuse(IF p = op.src /\ op.kind = "delete" THEN "InvalidArgument" ELSE "Io")
       ELSE /\ disk' = [disk EXCEPT ![p] = None]
            /\ removed' = removed \cup {p}
            /\ IF Len(todo) = 1 THEN Succeed
               ELSE Go("unlink") /\ todo' = Tail(todo) /\ UNCHANGED deny
            /\ UNCHANGED <<found, kept>>
    /\ UNCHANGED world

(***************************************************************************)
(* The patch tool: one file is created, or replaced in place or deleted if *)
(* its content still has the expected identity.                            *)
(***************************************************************************)
\* replace_file_if_sha256 opens the file exclusively; delete_file_if_sha256 does not
FaultyEditHandleDenies == {"delete"}

EditHandleDenies == IF op.kind = "replace" THEN {"write", "delete"} ELSE {"delete"}

OpenEdit ==
    /\ at = "open"
    /\ op.kind \in {"replace", "deleteIf"}
    /\ IF ~RootIsOurs THEN Refuse("OutsideAuthority")
       ELSE IF disk[op.src] # Blocks(op.expect)
       THEN Refuse(IF Present(op.src) THEN "FileChanged" ELSE "NotFound")
       ELSE /\ deny' = Guard(Chain(Parent[op.src]), {op.src}, EditHandleDenies)
            /\ IF op.kind = "replace" THEN Go("edit") /\ UNCHANGED todo
               ELSE Go("unlink") /\ todo' = <<op.src>>
            /\ UNCHANGED <<disk, found, kept, removed>>
    /\ UNCHANGED world

\* replace_open_file_contents writes over the old content, and writes it back if that
\* fails
Edit ==
    /\ at = "edit"
    /\ IF disk[op.src][1] # NewVersion
       THEN /\ disk' = [disk EXCEPT ![op.src][1] = NewVersion]
            /\ Go("edit")
            /\ UNCHANGED <<deny, todo>>
       ELSE /\ disk' = [disk EXCEPT ![op.src][2] = NewVersion]
            /\ Succeed
    /\ UNCHANGED <<world, found, kept, removed>>

\* create_file_for_edit: the file must not exist when it is created, and is written
\* through an exclusive handle
Create ==
    /\ at = "open"
    /\ op.kind = "create"
    /\ IF ~RootIsOurs THEN Refuse("OutsideAuthority")
       ELSE IF Present(op.dst) THEN Refuse("FileChanged")
       ELSE /\ disk' = [disk EXCEPT ![op.dst] = <<NewVersion, 0>>]
            /\ deny' = Guard(Chain(Parent[op.dst]), {op.dst}, {"write", "delete"})
            /\ Go("fill")
            /\ UNCHANGED <<todo, found, kept, removed>>
    /\ UNCHANGED world

Fill ==
    /\ at = "fill"
    /\ disk' = [disk EXCEPT ![op.dst] = Blocks(NewVersion)]
    /\ deny' = [deny EXCEPT ![op.dst] = {}]
    /\ Go("recheck")
    /\ UNCHANGED <<world, todo, found, kept, removed>>

\* revalidate_opened_path, once the handle is closed
Recheck ==
    /\ at = "recheck"
    /\ IF Present(op.dst) THEN Succeed /\ UNCHANGED <<disk, found, kept, removed>>
       ELSE Refuse("NotFound")
    /\ UNCHANGED world

\* if the write or that check fails, the handle is closed and the file removed by its
\* path, whoever wrote it last
CreateFails ==
    /\ at \in {"fill", "recheck"} /\ faults < MaxFaults
    /\ at' = "scrap" /\ failure' = "Io" /\ faults' = faults + 1
    /\ deny' = [deny EXCEPT ![op.dst] = {}]
    /\ UNCHANGED <<world, disk, todo, answer, found, kept, removed, stuck>>

Scrap ==
    /\ at = "scrap"
    /\ Undo(failure, [disk EXCEPT ![op.dst] = None], faults)
    /\ UNCHANGED <<world, found, kept, removed>>

(***************************************************************************)
(* What goes wrong, and what others do.                                    *)
(***************************************************************************)
Running == at \notin {"done", "crashed"}

\* places where the code looks at the cancellation before it goes on
CancelPlaces == CASE op.kind = "write" -> {}
                  [] op.kind \in Edits -> {}
                  [] op.kind \in {"list", "search", "content"} -> {"resolve", "open"}
                  [] OTHER -> {"resolve", "block1", "block2", "verify", "walk", "next",
                               "manifest", "lock", "preflight"}

SeeCancellation ==
    /\ cancelled
    /\ at \in CancelPlaces
    /\ at = "preflight" => op.recursive
    /\ Fail("Cancelled")
    /\ UNCHANGED world

IoFails ==
    /\ faults < MaxFaults
    /\ at \in CopyPlaces \cup {"mkdir", "walk", "next", "manifest", "rename", "drop",
                               "unlink", "edit", "open", "revalidate", "lock", "preflight"}
    /\ Undo("Io", Undone, faults + 1)
    /\ UNCHANGED <<world, found, kept, removed>>

Crash ==
    /\ Running
    /\ at \notin {"receive", "resolve", "open"}
    /\ at' = "crashed"
    /\ deny' = NoDenial
    /\ UNCHANGED <<world, disk, todo, failure, answer, found, kept, removed, faults, stuck>>

Cancel ==
    /\ Running
    /\ ~cancelled
    /\ op.kind \in Cancellable
    /\ cancelled' = TRUE
    /\ UNCHANGED <<op, outside, changes, faults, root, at, disk, deny, todo, failure, answer,
                   found, kept, removed, stuck>>

Others ==
    /\ Running
    /\ changes < MaxOutside
    /\ changes' = changes + 1
    /\ UNCHANGED <<op, outside, faults, cancelled, at, todo, failure, answer, found, removed,
                   stuck>>

\* what another program replaces or deletes, at the old or the new place, is
\* no longer the move's to keep
StillKept(p) == {q \in DOMAIN kept : p \notin {q, Twin[q]}}

\* another program writes a file, or makes a new one
OutsideWrite(p) ==
    /\ Others
    /\ "write" \notin deny[p]
    /\ ~Present(p) => Parent[p] \in {Root} \cup {d \in Paths : disk[d] = Dir}
    /\ disk[p] \notin {Dir, Link}
    /\ disk' = [disk EXCEPT ![p] = Blocks(OutsideVersion)]
    /\ kept' = [q \in StillKept(p) \cup ({p} \cap IF kept = <<>> THEN {} ELSE Tree(op.src)) |->
                   IF q = p THEN Blocks(OutsideVersion) ELSE kept[q]]
    /\ UNCHANGED <<root, deny>>

\* another program deletes a file.  The handles that lock the tree of a move share
\* deletion, and protect nothing that takes the name later
OutsideDelete(p) ==
    /\ Others
    /\ "delete" \notin deny[p]
    /\ IsFile(disk[p])
    /\ disk' = [disk EXCEPT ![p] = None]
    /\ deny' = [deny EXCEPT ![p] = {}]
    /\ kept' = [q \in StillKept(p) |-> kept[q]]
    /\ UNCHANGED root

\* another program puts a different directory in the place of the root
OutsideReplacesRoot ==
    /\ Others
    /\ deny[Root] = {}
    /\ Root \in outside
    /\ root' = "replaced"
    /\ UNCHANGED <<disk, kept, deny>>

-----------------------------------------------------------------------------
Init ==
    \E scenario \in Scenarios :
        /\ op \in scenario.ops
        /\ disk = scenario.disk
        /\ outside = scenario.outside
        /\ at = "receive"
        /\ root = "original"
        /\ deny = NoDenial
        /\ todo = <<>>
        /\ failure = "none"
        /\ cancelled = FALSE
        /\ answer = "none"
        /\ found = [entries |-> {}, truncated |-> TRUE, hits |-> 0, skipped |-> 0]
        /\ changes = 0
        /\ faults = 0
        /\ kept = <<>>
        /\ removed = {}
        /\ stuck = {}

Operation == Receive \/ Resolve \/ List \/ SearchContent \/ OpenWrite \/ OpenCopy
             \/ Block1 \/ Block2 \/ Commit \/ Revalidate \/ Verify
             \/ MakeRoot \/ PinRoot \/ WalkTree \/ NextEntry \/ CompareTrees \/ CleanUp
             \/ OpenMove \/ Rename \/ DropSource \/ LockTree
             \/ OpenDelete \/ Preflight \/ Unlink \/ OpenEdit \/ Edit
             \/ Create \/ Fill \/ Recheck \/ Scrap

Next == Operation \/ SeeCancellation \/ IoFails \/ PinFails \/ CreateFails \/ Crash \/ Cancel \/ OutsideReplacesRoot
        \/ \E p \in outside \ {Root} : OutsideWrite(p) \/ OutsideDelete(p)

Spec == Init /\ [][Next]_vars
-----------------------------------------------------------------------------
Errors == {"Cancelled", "LimitExceeded", "OutsideAuthority", "NotFound", "InvalidArgument",
           "AlreadyExists", "FileChanged", "Io", "Unsupported"}

\* move_path never loses a file: at every moment, after a crash, an I/O failure
\* or a cancellation too, the last content of every file of the source, a file
\* another program wrote meanwhile included, is at its old or at its new place.
MoveKeepsEverything ==
    op.kind = "move" =>
        \A p \in DOMAIN kept : kept[p] \in {disk[p], disk[Twin[p]]}

\* A delete that was refused or cancelled has deleted nothing: every check comes
\* before the first deletion (preflight_directory_delete).
RefusedDeleteKeepsAll ==
    (op.kind = "delete" /\ answer \in {"Cancelled", "LimitExceeded", "OutsideAuthority", "NotFound"})
        => removed = {}

\* Neither a move nor a refused delete loses a file (service.rs, move_path and
\* delete_path).
NothingIsLost == MoveKeepsEverything /\ RefusedDeleteKeepsAll

\* write shows readers the old or the new content, never a part of it, and so
\* does a crash in the middle of it.
WriteIsAtomic == op.kind = "write" => Whole(disk[op.dst])

\* A copy or a move that answers success has written whole files, although the
\* source may be rewritten by another program while it is read.
SuccessfulCopiesAreWhole ==
    (op.kind \in {"copy", "move"} /\ answer = "ok") => \A p \in Tree(op.dst) : Whole(disk[p])

\* An operation that answered has left no temporary file but one it failed to remove.
NoLitter == at = "done" => \A p \in Temps : Present(p) => p \in stuck

\* A replacement for an edit that answered has left a whole file, the new one or the
\* old one, unless writing the old one back failed.
ReplacedIsWhole == op.kind = "replace" /\ at = "done" => Whole(disk[op.src]) \/ op.src \in stuck

\* A copy of a directory that fails, by a limit, a cancellation, an I/O failure or a
\* change of the source, leaves no copied entry at the destination, and no directory
\* once copying has begun, unless the removal failed as well.  A failure between the
\* making of the directory and the copying may leave it there, empty.
FailedTreeCopyIsRemoved ==
    op.kind = "copy" /\ disk[op.src] = Dir /\ answer \in Errors /\ op.dst \notin stuck =>
        /\ answer # "AlreadyExists" => \A p \in Below(op.dst) : ~Present(p)
        /\ failure # "none" => ~Present(op.dst)

\* What write, copy, move and the patch tool leave is whole or not there, unless what
\* undoes a failure fails itself (service.rs, write, copy, replace_open_file_contents).
FilesStayWhole ==
    /\ WriteIsAtomic /\ SuccessfulCopiesAreWhole /\ NoLitter
    /\ ReplacedIsWhole /\ FailedTreeCopyIsRemoved

\* Nothing is written, renamed or deleted after the workspace root was replaced
\* by another directory, at whatever moment that happens.
ChangesStayInTheRoot ==
    [][disk' # disk /\ changes' = changes => root = "original"]_vars

\* Creating or replacing a file for an edit never overwrites what another program
\* wrote, not even when the edit is rolled back.  The one exception is the file at the
\* path of a creation that failed: it is removed by its path after the handle is
\* closed (write_new_synced, create_file_for_edit).
EditsKeepOthersWork ==
    [][(op.kind \in {"create", "replace"} /\ changes' = changes) =>
          \A p \in Paths : disk'[p] # disk[p] =>
              OutsideVersion \notin ToSet(disk[p]) \/ (at = "scrap" /\ p = op.dst)]_vars

\* An operation changes only what it was given: nothing outside the workspace root,
\* and no work of another program but at the path of a creation that failed
\* (path_authority.rs, service.rs).
OnlyOwnFilesChange == ChangesStayInTheRoot /\ EditsKeepOthersWork

\* A listing that does not say it is truncated has every entry: of the
\* directory, or of the whole tree when it is recursive.
UntruncatedListingIsComplete ==
    (op.kind = "list" /\ answer = "ok" /\ ~found.truncated) =>
        found.entries = {p \in Below(op.src) : Present(p) /\ (op.recursive \/ Parent[p] = op.src)}

\* A search of contents that does not say it is truncated has found every hit of every
\* text file, those of the last file too when it stopped at the limit, and has counted
\* every file it left out because it is no text (skipped_binary_files).
UntruncatedContentSearchIsComplete ==
    (op.kind = "content" /\ answer = "ok" /\ ~found.truncated) =>
        LET files == {p \in Below(op.src) : IsFile(disk[p])}
            binary == {p \in files : disk[p][1] = BinaryVersion}
        IN  /\ \A p \in files : disk[p][1] # LargeVersion
            /\ found.skipped = Cardinality(binary)
            /\ found.hits = MapThenSumSet(LAMBDA p : disk[p][1], files \ binary)

\* A search returns exactly the entries whose names the pattern describes, and
\* only some of them if it says it is truncated.
SearchFollowsThePattern ==
    (op.kind = "search" /\ answer = "ok") =>
        LET wanted == {p \in Below(op.src) : Present(p) /\ Matches(op.pattern, Name[p])}
        IN  /\ found.entries \subseteq wanted
            /\ ~found.truncated => found.entries = wanted

\* A listing or a search that does not say it is truncated has all there is, or counts
\* what it left out, also when it ends exactly at its budget (service.rs, list, search
\* and search_content).
ResultsAreComplete ==
    /\ UntruncatedListingIsComplete
    /\ UntruncatedContentSearchIsComplete
    /\ SearchFollowsThePattern
=============================================================================
