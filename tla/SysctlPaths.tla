---------------------------- MODULE SysctlPaths ----------------------------
(***************************************************************************)
(* fs/proc, proc_sysctl.c: __register_sysctl_paths, which registers a      *)
(* table with tables in it as many tables of files, one for each directory *)
(* that needs one (Sysctl has what is done with each of those), and its    *)
(* undoing.  The headers it gets are kept in an array behind a header of   *)
(* its own, for which they are counted beforehand; each step may fail.     *)
(***************************************************************************)
EXTENDS Integers, Sequences, FiniteSets

CONSTANTS Width         \* bound: directories in one directory

VARIABLES table,        \* table: how many files, and the tables of its directories
          stage,        \* "paths", "leaves", "in", "unwind", "remove" or "over"
          todo,         \* what the registration has left to do
          new_path, header,     \* is it allocated
          subheaders,   \* the headers in the array: [path, copy], of which copy says
                        \* that the table of files is a copy
          files,        \* the copy at hand that has no header, or FALSE
          registered,   \* the paths at which tables are registered
          copies,       \* those of them, or at hand, whose table is a copy
          refused       \* history: "Not a file"

pathsVars == <<table, stage, todo, new_path, header, subheaders, files, registered,
               copies, refused>>

Table(n, ts) == [files |-> n, dirs |-> ts]
Lists(T)     == UNION {[1 .. n -> T] : n \in 0 .. Width}
Flat         == {Table(n, <<>>) : n \in {0, 2}}
Nested       == {Table(n, ts) : n \in {0, 2}, ts \in Lists(Flat)}
Tables       == {Table(n, ts) : n \in {0, 2}, ts \in Lists(Nested)}

\* How many headers there will be.
RECURSIVE count_subheaders(_)
count_subheaders(t) ==
    IF t.files = 0 /\ t.dirs = <<>> THEN 1
    ELSE LET sum[i \in 0 .. Len(t.dirs)] ==
                 IF i = 0 THEN 0 ELSE sum[i - 1] + count_subheaders(t.dirs[i])
         IN  sum[Len(t.dirs)] + IF t.files > 0 THEN 1 ELSE 0

\* register_leaf_sysctl_tables: a copy of the files, if there are directories as well;
\* the table, unless it has nothing but directories; and each directory in turn.
RECURSIVE Leaves(_, _)
Leaves(t, path) ==
    LET below[i \in 0 .. Len(t.dirs)] ==
            IF i = 0 THEN <<>>
            ELSE below[i - 1] \o <<<<"append", Append(path, i)>>>>
                   \o Leaves(t.dirs[i], Append(path, i))
    IN  (IF t.files > 0 /\ t.dirs # <<>> THEN <<<<"copy", path>>>> ELSE <<>>)
          \o (IF t.files > 0 \/ t.dirs = <<>> THEN <<<<"register", path>>>> ELSE <<>>)
          \o below[Len(t.dirs)]

\* The path leads through directories that have but one directory in them.
RECURSIVE Inner(_)
Inner(t)  == IF t.files = 0 /\ Len(t.dirs) = 1 THEN Inner(t.dirs[1]) ELSE t
RECURSIVE Common(_)
Common(t) == IF t.files = 0 /\ Len(t.dirs) = 1 THEN <<1>> \o Common(t.dirs[1]) ELSE <<>>

PathsInit == /\ table \in Tables
             /\ stage = "paths" /\ todo = <<>>
             /\ new_path = FALSE /\ header = FALSE /\ subheaders = <<>> /\ files = FALSE
             /\ registered = {} /\ copies = {} /\ refused = FALSE

Over == stage' = "over" /\ todo' = <<>> /\ new_path' = FALSE

\* __register_sysctl_table, which wants files only, and may fail for its own reasons.
Registers(path, t, copied) == /\ refused' = (refused \/ (t.dirs # <<>> /\ ~copied))
                              /\ registered' = registered \cup {path}

\* One header will do, or the header with the array is allocated.
Allocate == /\ stage = "paths" /\ ~new_path
            /\ new_path' \in BOOLEAN /\ stage' = IF new_path' THEN "paths" ELSE "over"
            /\ UNCHANGED <<table, todo, header, subheaders, files, registered, copies, refused>>
Single == /\ stage = "paths" /\ new_path /\ count_subheaders(table) = 1
          /\ \/ /\ Registers(Common(table), Inner(table), FALSE)
                /\ header' = TRUE /\ stage' = "in"
             \/ UNCHANGED <<registered, header, refused>> /\ stage' = "over"
          /\ new_path' = FALSE
          /\ UNCHANGED <<table, todo, subheaders, files, copies>>
Many == /\ stage = "paths" /\ new_path /\ count_subheaders(table) # 1
        /\ \/ /\ header' = TRUE /\ stage' = "leaves"
              /\ todo' = Leaves(Inner(table), Common(table)) /\ UNCHANGED new_path
           \/ UNCHANGED header /\ Over
        /\ UNCHANGED <<table, subheaders, files, registered, copies, refused>>

\* The steps of register_leaf_sysctl_tables.
RECURSIVE At(_, _)
At(t, path) == IF path = <<>> THEN t ELSE At(t.dirs[Head(path)], Tail(path))
Leaf ==
    LET op == Head(todo)[1]  path == Head(todo)[2] IN
    /\ stage = "leaves" /\ todo # <<>>
    /\ CASE op = "append" -> UNCHANGED <<files, copies, subheaders, registered, refused>>
         [] op = "copy" -> /\ files' = TRUE /\ copies' = copies \cup {path}
                           /\ UNCHANGED <<subheaders, registered, refused>>
         [] OTHER -> /\ Registers(path, At(table, path), files) /\ files' = FALSE
                     /\ subheaders' = Append(subheaders, [path |-> path, copy |-> files])
                     /\ UNCHANGED copies
    /\ todo' = Tail(todo)
    /\ UNCHANGED <<table, stage, new_path, header>>
Succeed == /\ stage = "leaves" /\ todo = <<>>
           /\ stage' = "in" /\ new_path' = FALSE
           /\ UNCHANGED <<table, todo, header, subheaders, files, registered, copies, refused>>

\* No memory, a path that is too long, or a table that is refused: the caller
\* unregisters what is in the array.  A copy that got no header is freed here.
LeafFails == /\ stage = "leaves" /\ todo # <<>>
             /\ copies' = IF files THEN copies \ {Head(todo)[2]} ELSE copies
             /\ stage' = "unwind" /\ todo' = <<>> /\ files' = FALSE
             /\ UNCHANGED <<table, new_path, header, subheaders, registered, refused>>

\* Headers are unregistered, and copies freed, from the last one on: how many there
\* are says the position in the array, or, later on, the table again.
Last == subheaders[Len(subheaders)]
Undo == /\ stage = "unwind" /\ subheaders # <<>>
        /\ registered' = registered \ {Last.path}
        /\ copies' = IF Last.copy THEN copies \ {Last.path} ELSE copies
        /\ subheaders' = SubSeq(subheaders, 1, Len(subheaders) - 1)
        /\ UNCHANGED <<table, stage, todo, new_path, header, files, refused>>
Undone == /\ stage = "unwind" /\ subheaders = <<>>
          /\ header' = FALSE /\ Over
          /\ UNCHANGED <<table, subheaders, files, registered, copies, refused>>
Unregister ==
    /\ stage = "in"
    /\ IF count_subheaders(table) > 1
       THEN LET n == count_subheaders(table)
                S == {subheaders[i] : i \in (1 .. n) \cap DOMAIN subheaders}
            IN  /\ registered' = registered \ {s.path : s \in S}
                /\ copies' = copies \ {s.path : s \in {s \in S : s.copy}}
       ELSE registered' = registered \ {Common(table)} /\ UNCHANGED copies
    /\ header' = FALSE /\ subheaders' = <<>> /\ stage' = "over"
    /\ UNCHANGED <<table, todo, new_path, files, refused>>

PathsNext == \/ Allocate \/ Single \/ Many \/ Leaf \/ Succeed
             \/ LeafFails \/ Undo \/ Undone \/ Unregister

-----------------------------------------------------------------------------
\* Every directory that has files, and every one that is empty.
RECURSIVE Wanted(_, _)
Wanted(t, path) ==
    (IF t.files > 0 \/ t.dirs = <<>> THEN {path} ELSE {})
      \cup UNION {Wanted(t.dirs[i], Append(path, i)) : i \in DOMAIN t.dirs}

\* The array has room for the headers, whatever the table; a table that is in has
\* each of its directories registered, exactly those, with a header in the array; no
\* directory is handed over as if it were a file; and a registration that failed, or
\* that was undone, leaves nothing behind.
PathsRight ==
    /\ Len(subheaders) <= count_subheaders(table)
    /\ ~refused
    /\ stage = "in" => /\ registered = Wanted(table, <<>>) /\ header /\ ~new_path /\ ~files
                       /\ Cardinality(registered) = count_subheaders(table)
                       /\ subheaders # <<>> => Len(subheaders) = count_subheaders(table)
    /\ stage = "over" => registered = {} /\ copies = {} /\ ~header /\ ~new_path /\ ~files
=============================================================================
