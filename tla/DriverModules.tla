--------------------------- MODULE DriverModules ---------------------------
(***************************************************************************)
(* insmod and rmmod of the repository's drivers, over ProcEntries: linked  *)
(* and simple (cw06/sync), circular (cw03), which wants linked's number,   *)
(* and broken (cw04/debug, cw05/debug).  Each makes an entry under /proc,  *)
(* registers a number, allocates, or some of these, in an order of its     *)
(* own, and undoes what it can when a step fails.  What a driver has left  *)
(* to do is kept as a sequence of steps, so that everything may            *)
(* interleave.  No driver has an owner: rmmod waits for nobody but those   *)
(* whom proc_remove waits for.                                             *)
(***************************************************************************)
EXTENDS ProcEntries, Sequences

Drivers == {"linked", "circular", "broken", "simple"}   \* each has an entry of its name
Major   == [d \in Drivers |-> IF d = "broken" THEN 899 ELSE IF d = "simple" THEN 198 ELSE 199]
\* Nine modules are called broken, and only one of them can be in: those of cw05/debug,
\* those of cw04/debug/oops, and cw04/debug/broken_example.
Versions(d) == IF d = "broken" THEN {"broken", "oops", "example"} ELSE {d}

CONSTANT Visitors       \* bound: the processes that meet the drivers' entries

ASSUME Own == /\ \A d \in Drivers : d \in Ents /\ Dir[d] = Root
              /\ Visitors \subseteq Users

VARIABLES drivers,          \* which are used (none: the entries of the kernel are)
          version,          \* which of those called broken
          loaded, todo,     \* of each driver: is it in, what is left to do
          proc_entry,       \* those whose pointer to their entry is set
          owner,            \* who has registered each number
          left, foreign, starved, misread, damaged  \* history: whose entry or number was
                            \* left behind; who unregistered another's number; memory ran
                            \* out; a read had none; an entry was removed when freed

hist    == <<left, foreign, starved, misread, damaged>>
modules == <<drivers, version, loaded, todo, proc_entry, owner, hist>>
allVars == <<vars, modules>>

ModulesInit == /\ Init
               /\ drivers \in {{}, {"linked", "circular"}, {"broken"}, {"simple"}}
               /\ version = "broken"
               /\ loaded = {} /\ todo = [d \in Drivers |-> <<>>] /\ proc_entry = {}
               /\ owner = [m \in {198, 199, 899} |-> NULL]
               /\ left = {} /\ foreign = {} 
               /\ starved = FALSE /\ misread = FALSE /\ damaged = FALSE

-----------------------------------------------------------------------------
\* The steps of *_init in order, and of *_exit.
linked_init   == <<"create", "register", "in">>
linked_exit   == <<"unregister", "remove", "wait", "out">>
circular_init == <<"register", "create", "kmalloc", "in">>
circular_exit == <<"remove", "wait", "unregister", "out">>
broken_init   == <<"create", "register", "kmalloc", "in">>
broken_exit   == <<"unregister", "remove", "wait", "out">>
oops_init     == <<"create", "register", "kmalloc", "in">>
oops_exit     == <<"unregister", "remove", "wait", "out">>
example_init  == <<"register", "in">>
example_exit  == <<"unregister", "out">>
simple_init   == <<"register", "in">>
simple_exit   == <<"unregister", "out">>
Insert == [linked |-> linked_init, circular |-> circular_init, broken |-> broken_init,
           oops |-> oops_init, example |-> example_init, simple |-> simple_init]
Exit   == [linked |-> linked_exit, circular |-> circular_exit, broken |-> broken_exit,
           oops |-> oops_exit, example |-> example_exit, simple |-> simple_exit]

\* What is done instead when a step of *_init fails.  linked and circular return 0
\* when proc_create fails, and stay; broken and oops do not look, and go away without a
\* word to /proc when the number is taken; oops does not give the number back either if
\* there was no memory.  circular does, and example gives up a number that it has not
\* got.  Mutant: circular does as well, as linked.
create_err(v)  == [linked   |-> <<"unregister", "in">>,
                   circular |-> <<"in">>,
                   broken   |-> Tail(broken_init),
                   oops     |-> Tail(oops_init)][v]
linked_err     == <<"remove", "wait", "unregister", "out">>
OnFailureUnregister(v, step, memory) ==
    IF step = "create" THEN create_err(v)
    ELSE IF v = "oops" \/ (step = "register" /\ v \in {"broken", "simple"}) THEN <<"out">>
    ELSE IF v \in {"broken", "example"} THEN Exit[v] ELSE linked_err
OnFailure(v, step, memory) ==
    IF step = "create" THEN create_err(v)
    ELSE IF \/ v = "oops" \/ (step = "register" /\ v \in {"broken", "simple"})
            \/ (step = "register" /\ v = "circular" /\ memory) THEN <<"out">>
    ELSE IF v \in {"broken", "example"} THEN Exit[v] ELSE linked_err

Of(d)          == IF d = "broken" THEN version ELSE d
Doing(d, step) == todo[d] # <<>> /\ Head(todo[d]) = step
Done(d)        == todo' = [todo EXCEPT ![d] = Tail(@)]
Failed(d, memory) == /\ todo' = [todo EXCEPT ![d] = OnFailure(Of(d), Head(@), memory)]
                     /\ starved' = (starved \/ ~memory)

\* Bound: not while a process still knows the old entry, the only one d has here.
insmod(d) == /\ d \notin loaded /\ todo[d] = <<>> /\ life[d] \in {"absent", "linked"}
             /\ \E v \in Versions(d) : /\ todo' = [todo EXCEPT ![d] = Insert[v]]
                                       /\ version' = IF d = "broken" THEN v ELSE version
             /\ UNCHANGED <<vars, drivers, loaded, proc_entry, owner, hist>>
rmmod(d)  == /\ d \in loaded /\ todo[d] = <<>>
             /\ todo' = [todo EXCEPT ![d] = Exit[Of(d)]]
             /\ UNCHANGED <<vars, drivers, version, loaded, proc_entry, owner, hist>>
\* A read of /dev/broken that gets no memory calls broken_exit, and the module
\* stays.  (An rmmod meanwhile is left out: it would take the code away.)
Misread == /\ version = "broken" /\ "broken" \in loaded /\ todo["broken"] = <<>>
           /\ todo' = [todo EXCEPT !["broken"] = <<"unregister", "remove", "wait">>]
           /\ starved' = TRUE /\ misread' = TRUE
           /\ UNCHANGED <<vars, drivers, version, loaded, proc_entry, owner, left, foreign, damaged>>

CreateEntry(d) == /\ Doing(d, "create") /\ Create(d)
                  /\ proc_entry' = proc_entry \cup {d} /\ Done(d)
                  /\ UNCHANGED <<drivers, version, loaded, owner, hist>>
\* There is no memory, or an entry of this name.
CreateFails(d) == /\ Doing(d, "create") /\ Failed(d, life[d] = "linked")
                  /\ proc_entry' = proc_entry \ {d}
                  /\ UNCHANGED <<vars, drivers, version, loaded, owner, left, foreign, misread, damaged>>
\* proc_remove, which goes on by itself in ProcEntries; it looks the entry up by the
\* name that is in it.
RemoveEntry(d) ==
    /\ Doing(d, "remove")
    /\ IF d \in proc_entry /\ life[d] = "linked" THEN Remove(d) ELSE UNCHANGED vars
    /\ damaged' = (damaged \/ (d \in proc_entry /\ life[d] = "absent"))
    /\ Done(d)
    /\ UNCHANGED <<drivers, version, loaded, proc_entry, owner, left, foreign, starved, misread>>
EntryRemoved(d) == /\ Doing(d, "wait") /\ (d \in proc_entry => life[d] \in {"absent", "removed"})
                   /\ Done(d)
                   /\ UNCHANGED <<vars, drivers, version, loaded, proc_entry, owner, hist>>

Register(d) == /\ Doing(d, "register") /\ owner[Major[d]] = NULL
               /\ owner' = [owner EXCEPT ![Major[d]] = d] /\ Done(d)
               /\ UNCHANGED <<vars, drivers, version, loaded, proc_entry, hist>>
RegisterFails(d) == /\ Doing(d, "register")
                    /\ \E memory \in {owner[Major[d]] # NULL, FALSE} : Failed(d, memory)
                    /\ UNCHANGED <<vars, drivers, version, loaded, proc_entry, owner, left, foreign,
                                   misread, damaged>>
\* unregister_chrdev does not look whose number it is.
Unregister(d) == /\ Doing(d, "unregister") /\ Done(d)
                 /\ owner' = [owner EXCEPT ![Major[d]] = NULL]
                 /\ foreign' = IF owner[Major[d]] \in {NULL, d} THEN foreign ELSE foreign \cup {d}
                 /\ UNCHANGED <<vars, drivers, version, loaded, proc_entry, left, starved, misread, damaged>>
Kmalloc(d) == /\ Doing(d, "kmalloc")
              /\ (Done(d) /\ UNCHANGED starved) \/ Failed(d, FALSE)
              /\ UNCHANGED <<vars, drivers, version, loaded, proc_entry, owner, left, foreign, misread, damaged>>

Finish(d) == /\ Doing(d, "in") /\ loaded' = loaded \cup {d} /\ Done(d)
             /\ UNCHANGED <<vars, drivers, version, proc_entry, owner, hist>>
Unload(d) == /\ Doing(d, "out") /\ loaded' = loaded \ {d} /\ Done(d)
             /\ proc_entry' = proc_entry \ {d}
             /\ left' = IF life[d] = "linked" \/ owner[Major[d]] = d THEN left \cup {d} ELSE left
             /\ UNCHANGED <<vars, drivers, version, owner, foreign, starved, misread, damaged>>

Step(d) == \/ CreateEntry(d) \/ CreateFails(d) \/ RemoveEntry(d) \/ EntryRemoved(d)
           \/ Register(d) \/ RegisterFails(d) \/ Unregister(d) \/ Kmalloc(d)
           \/ Finish(d) \/ Unload(d)

Kernel == drivers = {} /\ \E e \in Ents \ Drivers : Create(e) \/ Remove(e)
Going_on == \/ \E e \in Ents : Removal(e)
            \/ \E p \in IF drivers = {} THEN Users ELSE Visitors : User(p)

ModulesNext == \/ (Kernel \/ Going_on) /\ UNCHANGED modules
               \/ \E d \in drivers : insmod(d) \/ rmmod(d) \/ Step(d)
               \/ "broken" \in drivers /\ Misread

\* No behaviour uses two of these, so that one condition is enough for all of them.
Single == Drivers \ {"circular"}
ModulesFairness == /\ \A e \in Ents \ Single : WF_allVars(Removal(e) /\ UNCHANGED modules)
                   /\ WF_allVars((\E d \in Single : Removal(d)) /\ UNCHANGED modules)
                   /\ \A p \in Users : WF_allVars(Return(p) /\ UNCHANGED modules)
                   /\ WF_allVars(Step("circular")) /\ WF_allVars(\E d \in Single : Step(d))
ModulesSpec == ModulesInit /\ [][ModulesNext]_allVars /\ ModulesFairness

-----------------------------------------------------------------------------
\* A driver that is out has neither a number nor an entry, and no process is in its
\* code, unless a failed insertion left some of it behind, which only broken does.
\* A number is only taken away from its owner when memory runs out or linked is
\* refused it; after that, and only then, even an ordinary rmmod may.  An entry is
\* removed twice only after a read without memory has removed it.
CleanExit ==
    /\ \A d \in Drivers : d \notin loaded /\ todo[d] = <<>> =>
          /\ owner[Major[d]] = d => d \in left
          /\ life[d] = "linked" => d \in left
          /\ d \in left \/ \A p \in Users : pc[p] \in Handler => ent[p] # d
    /\ left \subseteq {"broken"}
    /\ foreign # {} => starved \/ "linked" \in foreign
    /\ damaged => misread

\* insmod, rmmod and every removal return although processes keep files open.
RmmodReturns == /\ RemovalReturns
                /\ todo["circular"] # <<>> ~> todo["circular"] = <<>>
                /\ (\E d \in Single : todo[d] # <<>>) ~> \A d \in Single : todo[d] = <<>>

-----------------------------------------------------------------------------
\* For the runs: a directory d with two entries f and g of the same name, one after
\* the other, and the entries of the drivers.
MCDir  == [e \in Ents |-> IF e \in {"f", "g"} THEN "d" ELSE Root]
MCName == [e \in Ents |-> IF e \in {"f", "g"} THEN "f" ELSE e]
MCBias == -100
=============================================================================
