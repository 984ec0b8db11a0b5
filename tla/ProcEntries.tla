---------------------------- MODULE ProcEntries ----------------------------
(***************************************************************************)
(* fs/proc, generic.c and inode.c: the entries that kernel modules create  *)
(* under /proc, the processes that look them up, open, use and close them, *)
(* and their removal, after which no code of the module may run.  An entry *)
(* is the memory of one proc_dir_entry; several may bear the same name one *)
(* after the other.  Each process has at most one inode and one file.      *)
(***************************************************************************)
EXTENDS Integers, FiniteSets

CONSTANTS Users,            \* processes
          Ents, Root,       \* entries, and proc_root
          Dir, Name,        \* the directory and the name of each
          Releasing,        \* the entries whose proc_fops have a release
          BIAS,             \* what a removal adds to in_use: -2^31 in the code
          NULL

\* Directories lie in /proc itself, so that a walk down the tree has two steps.
ASSUME Tree == /\ Dir \in [Ents -> Ents \cup {Root}] /\ Root \notin Ents
               /\ \A e \in Ents : Dir[e] # Root => Dir[Dir[e]] = Root
ASSUME Few  == IsFiniteSet(Users) /\ BIAS \in Int /\ Cardinality(Users) < -BIAS
ASSUME Null == NULL \notin Users \cup Ents

VARIABLES life,         \* how far the creation and removal of each entry is
          count,        \* references to it
          in_use,       \* callers in progress, with BIAS once it is going away
          completed,    \* the entries whose pde_unload_completion is complete
          openers,      \* the files opened and not released
          closing,      \* those whose release has begun
          closer,       \* whose file the removal releases or waits for
          pc, ent,      \* where each process is, and with what entry
          releases      \* history: calls of release for its open file

vars == <<life, count, in_use, completed, openers, closing, closer, pc, ent, releases>>

Files == {e \in Ents : \A c \in Ents : Dir[c] # e}

Going   == {"draining", "closing", "releasing", "waiting"}     \* in proc_entry_rundown
Handler == {"opening", "calling", "releasing"}                 \* in the module's code

Init == /\ life = [e \in Ents |-> "absent"] /\ count = [e \in Ents |-> 0]
        /\ in_use = [e \in Ents |-> 0] /\ completed = {}
        /\ openers = [e \in Ents |-> {}] /\ closing = {}
        /\ closer = [e \in Ents |-> NULL]
        /\ pc = [p \in Users |-> "user"] /\ ent = [p \in Users |-> NULL]
        /\ releases = [p \in Users |-> 0]

-----------------------------------------------------------------------------
Children(e) == {c \in Ents : Dir[c] = e /\ life[c] = "linked"}
Pending(e)  == {c \in Ents : Dir[c] = e /\ life[c] \in Going \cup {"erased"}}

\* proc_create, proc_mkdir and proc_symlink: the parent is there, and there is
\* no entry of this name in it (if so, or without memory, nothing changes).
Create(e) ==
    /\ life[e] = "absent"
    /\ Dir[e] # Root => life[Dir[e]] = "linked"
    /\ \A c \in Children(Dir[e]) : Name[c] # Name[e]
    /\ life' = [life EXCEPT ![e] = "linked"]
    /\ count' = [count EXCEPT ![e] = 1]
    /\ in_use' = [in_use EXCEPT ![e] = 0]
    /\ completed' = completed \ {e}
    /\ UNCHANGED <<openers, closing, closer, pc, ent, releases>>

\* remove_proc_subtree takes the entry and the first one below it out of the tree
\* (remove_proc_entry does the same for one without children) ...
Remove(e) ==
    /\ life[e] = "linked"
    /\ LET below == Children(e) IN
       \/ below = {} /\ life' = [life EXCEPT ![e] = "erased"]
       \/ \E c \in below : life' = [life EXCEPT ![e] = "erased", ![c] = "erased"]
    /\ UNCHANGED <<count, in_use, completed, openers, closing, closer, pc, ent, releases>>

\* ... comes back for the next one when that is gone ...
RemoveNext(e) ==
    /\ life[e] = "erased" /\ Pending(e) = {}
    /\ \E c \in Children(e) : life' = [life EXCEPT ![c] = "erased"]
    /\ UNCHANGED <<count, in_use, completed, openers, closing, closer, pc, ent, releases>>

\* ... and runs each down when nothing is below it: from here on nobody can begin
\* to use it.  Mutant: those who use it are not waited for.
RundownNoWait(e) ==
    /\ life[e] = "erased" /\ Pending(e) = {} /\ Children(e) = {}
    /\ in_use' = [in_use EXCEPT ![e] = @ + BIAS]
    /\ life' = [life EXCEPT ![e] = "closing"]
    /\ UNCHANGED <<count, completed, openers, closing, closer, pc, ent, releases>>
Rundown(e) ==
    /\ life[e] = "erased" /\ Pending(e) = {} /\ Children(e) = {}
    /\ in_use' = [in_use EXCEPT ![e] = @ + BIAS]
    /\ life' = [life EXCEPT ![e] = IF in_use'[e] = BIAS THEN "closing" ELSE "draining"]
    /\ UNCHANGED <<count, completed, openers, closing, closer, pc, ent, releases>>
Drained(e) ==
    /\ life[e] = "draining" /\ e \in completed
    /\ life' = [life EXCEPT ![e] = "closing"]
    /\ UNCHANGED <<count, in_use, completed, openers, closing, closer, pc, ent, releases>>

-----------------------------------------------------------------------------
\* close_pdeo by the removal: release a file that is still open, or wait for the
\* process that is closing it.
CloseOne(e, p) ==
    /\ life[e] = "closing" /\ p \in openers[e]
    /\ closer' = [closer EXCEPT ![e] = p]
    /\ IF p \in closing
       THEN /\ life' = [life EXCEPT ![e] = "waiting"]
            /\ UNCHANGED <<closing, releases>>
       ELSE /\ life' = [life EXCEPT ![e] = "releasing"]
            /\ closing' = closing \cup {p}
            /\ releases' = [releases EXCEPT ![p] = @ + 1]
    /\ UNCHANGED <<count, in_use, completed, openers, pc, ent>>

\* After release, whoever did it drops the pdeo and wakes the other, if it waits.
Drop(e, p) == /\ openers' = [openers EXCEPT ![e] = @ \ {p}]
              /\ closing' = closing \ {p}
CloseDone(e) ==
    LET p == closer[e] IN
    /\ life[e] = "releasing"
    /\ Drop(e, p)
    /\ life' = [life EXCEPT ![e] = "closing"]
    /\ closer' = [closer EXCEPT ![e] = NULL]
    /\ pc' = IF pc[p] = "waiting" THEN [pc EXCEPT ![p] = "found"] ELSE pc
    /\ UNCHANGED <<count, in_use, completed, ent, releases>>

\* pde_put frees the entry with the last reference.
Put(e) == count' = [count EXCEPT ![e] = @ - 1]
Removed(e) ==
    /\ life[e] = "closing" /\ openers[e] = {}
    /\ Put(e)
    /\ life' = [life EXCEPT ![e] = IF count'[e] = 0 THEN "absent" ELSE "removed"]
    /\ UNCHANGED <<in_use, completed, openers, closing, closer, pc, ent, releases>>

-----------------------------------------------------------------------------
Goto(p, from, to) == pc[p] = from /\ pc' = [pc EXCEPT ![p] = to]

\* proc_lookup_de finds an entry in the tree and makes an inode, which holds a
\* reference until it is evicted (at once if there is no memory for it).
\* Mutant: without a reference.
LookupNoRef(p, e) ==
    /\ Goto(p, "user", "found") /\ life[e] = "linked"
    /\ ent' = [ent EXCEPT ![p] = e]
    /\ UNCHANGED <<life, count, in_use, completed, openers, closing, closer, releases>>
Lookup(p, e) ==
    /\ Goto(p, "user", "found") /\ life[e] = "linked"
    /\ ent' = [ent EXCEPT ![p] = e]
    /\ count' = [count EXCEPT ![e] = @ + 1]
    /\ UNCHANGED <<life, in_use, completed, openers, closing, closer, releases>>
Evict(p) ==
    LET e == ent[p] IN
    /\ Goto(p, "found", "user")
    /\ ent' = [ent EXCEPT ![p] = NULL]
    /\ Put(e)
    /\ life' = IF count'[e] = 0 THEN [life EXCEPT ![e] = "absent"] ELSE life
    /\ UNCHANGED <<in_use, completed, openers, closing, closer, releases>>

\* use_pde, refused once the entry is going away.
Use(p, from, to) ==
    LET e == ent[p] IN
    /\ Goto(p, from, to) /\ in_use[e] >= 0
    /\ in_use' = [in_use EXCEPT ![e] = @ + 1]
    /\ UNCHANGED <<life, count, completed, openers, closing, closer, ent, releases>>
\* unuse_pde: the last one to leave completes what the removal waits for.
Unuse(e) == /\ in_use' = [in_use EXCEPT ![e] = @ - 1]
            /\ completed' = IF in_use'[e] = BIAS THEN completed \cup {e} ELSE completed
\* Mutant: the last one to leave says nothing.
LeaveSilently(p, from, to) ==
    /\ Goto(p, from, to)
    /\ in_use' = [in_use EXCEPT ![ent[p]] = @ - 1]
    /\ UNCHANGED <<life, count, completed, openers, closing, closer, ent, releases>>
Leave(p, from, to) ==
    /\ Goto(p, from, to) /\ Unuse(ent[p])
    /\ UNCHANGED <<life, count, openers, closing, closer, ent, releases>>

\* proc_reg_open: in the module's open; an open that succeeded is remembered if
\* there is a release; then the entry is left.
Open(p) == ent[p] \in Files /\ Use(p, "found", "opening")
OpenReturns(p) ==
    LET e == ent[p] IN
    /\ Goto(p, "opening", "opened")
    /\ openers' = IF e \in Releasing THEN [openers EXCEPT ![e] = @ \cup {p}] ELSE openers
    /\ releases' = [releases EXCEPT ![p] = 0]
    /\ UNCHANGED <<life, count, in_use, completed, closing, closer, ent>>
OpenFails(p) == Leave(p, "opening", "found")
OpenDone(p)  == Leave(p, "opened", "open")

\* proc_reg_read, write, llseek, poll, ioctl, mmap and get_unmapped_area, and a
\* symbolic link from proc_get_link to proc_put_link.
Call(p)        == Use(p, "open", "calling")
CallReturns(p) == Leave(p, "calling", "open")

\* proc_reg_release: call release, unless there is none or it was called, and
\* wait if the removal is calling it.
Close(p) ==
    LET e == ent[p] IN
    /\ pc[p] = "open"
    /\ \/ /\ p \notin openers[e]
          /\ Goto(p, "open", "found")
          /\ UNCHANGED <<closing, releases>>
       \/ /\ p \in openers[e] \cap closing
          /\ Goto(p, "open", "waiting")
          /\ UNCHANGED <<closing, releases>>
       \/ /\ p \in openers[e] \ closing
          /\ Goto(p, "open", "releasing")
          /\ closing' = closing \cup {p}
          /\ releases' = [releases EXCEPT ![p] = @ + 1]
    /\ UNCHANGED <<life, count, in_use, completed, openers, closer, ent>>
CloseReturns(p) ==
    LET e == ent[p] IN
    /\ Goto(p, "releasing", "found")
    /\ Drop(e, p)
    /\ IF closer[e] = p
       THEN /\ life' = [life EXCEPT ![e] = "closing"]
            /\ closer' = [closer EXCEPT ![e] = NULL]
       ELSE UNCHANGED <<life, closer>>
    /\ UNCHANGED <<count, in_use, completed, ent, releases>>

-----------------------------------------------------------------------------
\* What goes on by itself once it has begun: removals, and calls into a module.
Removal(e) == \/ RemoveNext(e) \/ Rundown(e) \/ Drained(e)
              \/ (\E p \in Users : CloseOne(e, p)) \/ CloseDone(e) \/ Removed(e)
Return(p)  == \/ OpenReturns(p) \/ OpenFails(p) \/ OpenDone(p)
              \/ CallReturns(p) \/ CloseReturns(p)
User(p)    == \/ (\E e \in Ents : Lookup(p, e)) \/ Evict(p)
              \/ Open(p) \/ Call(p) \/ Close(p) \/ Return(p)

Next == \/ \E e \in Ents : Create(e) \/ Remove(e) \/ Removal(e)
        \/ \E p \in Users : User(p)
Spec == Init /\ [][Next]_vars

\* Handlers of a module return, and rmmod goes on.
Fairness == /\ \A e \in Ents : WF_vars(Removal(e))
            /\ \A p \in Users : WF_vars(Return(p))

-----------------------------------------------------------------------------
TypeOK == /\ life \in [Ents -> Going \cup {"absent", "linked", "erased", "removed"}]
          /\ count \in [Ents -> Nat] /\ in_use \in [Ents -> Int]
          /\ completed \subseteq Ents /\ closing \subseteq Users
          /\ openers \in [Ents -> SUBSET Users]
          /\ closer \in [Ents -> Users \cup {NULL}]
          /\ pc \in [Users -> Handler \cup {"user", "found", "opened", "open", "waiting"}]
          /\ ent \in [Users -> Ents \cup {NULL}] /\ releases \in [Users -> Nat]

Inside(e) == {p \in Users : ent[p] = e /\ pc[p] \in {"opening", "opened", "calling"}}
Known(e)  == {p \in Users : ent[p] = e}

\* in_use counts the callers, with the BIAS from the beginning of the rundown.
UseCounted ==
    \A e \in Ents :
        /\ life[e] # "absent" =>
              in_use[e] = Cardinality(Inside(e))
                          + IF life[e] \in Going \cup {"removed"} THEN BIAS ELSE 0
        /\ life[e] \in Going \cup {"removed"} /\ (life[e] # "draining" \/ e \in completed)
              => Inside(e) = {}
        /\ life[e] \in {"linked", "erased"} => e \notin completed

\* An entry that a process has found is not freed: the references are those of the
\* processes and, until its removal is over, one of the tree.
RefsCounted ==
    \A e \in Ents : /\ count[e] = Cardinality(Known(e))
                                  + IF life[e] \in {"absent", "removed"} THEN 0 ELSE 1
                    /\ life[e] = "absent" => Known(e) = {}
                    /\ life[e] = "removed" => Known(e) # {}

\* Each file is on the list of its own entry, which has a release, and it is
\* released by one at a time.
OpenersConsistent ==
    /\ \A p \in Users : pc[p] = "user" <=> ent[p] = NULL
    /\ \A e \in Ents : \A p \in openers[e] :
          /\ ent[p] = e /\ e \in Releasing
          /\ pc[p] \in {"opened", "open", "calling", "releasing", "waiting"}
          /\ pc[p] = "opened" => p \notin closing
          /\ life[e] \in {"linked", "erased"} \cup Going
          /\ p \in closing <=>
                pc[p] = "releasing" \/ (life[e] = "releasing" /\ closer[e] = p)
          /\ pc[p] = "releasing" => ~(life[e] = "releasing" /\ closer[e] = p)
    /\ \A p \in Users : pc[p] \in {"releasing", "waiting"} => p \in openers[ent[p]]
    /\ \A p \in Users : pc[p] = "waiting" =>
          life[ent[p]] = "releasing" /\ closer[ent[p]] = p
    /\ \A p \in closing : ent[p] # NULL /\ p \in openers[ent[p]]
    /\ \A e \in Ents : IF life[e] \in {"releasing", "waiting"}
                       THEN /\ closer[e] \in openers[e]
                            /\ life[e] = "waiting" => pc[closer[e]] = "releasing"
                       ELSE closer[e] = NULL

\* What makes removal sound, an inductive invariant.
IInv == TypeOK /\ UseCounted /\ RefsCounted /\ OpenersConsistent

\* When the removal of an entry is over no process is in a handler of the module
\* that created it, nor will one be: its code can be unloaded.
NoCallIntoGone ==
    \A p \in Users : pc[p] \in Handler => life[ent[p]] \notin {"absent", "removed"}

\* A file that was opened is released once: by its close or by the removal,
\* whichever comes first, and while the struct file is still there.
ReleasedOnce ==
    \A p \in Users :
        /\ releases[p] <= 1
        /\ pc[p] \in {"opened", "open", "calling", "releasing", "waiting"} =>
              releases[p] = IF ent[p] \in Releasing /\ p \notin openers[ent[p]] \ closing
                            THEN 1 ELSE 0
        /\ \A e \in Ents : life[e] = "releasing" =>
              ent[closer[e]] = e /\ pc[closer[e]] \in {"open", "waiting"}

\* The counts of an entry's users and references, and its files, fit together.
Consistent == IInv /\ ReleasedOnce

\* rmmod comes to an end although files stay open.
RemovalReturns ==
    \A e \in Ents : life[e] = "erased" ~> life[e] \in {"absent", "removed"}
=============================================================================
