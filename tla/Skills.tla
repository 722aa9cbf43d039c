-------------------------------- MODULE Skills --------------------------------
(***************************************************************************)
(* claw_skill: the registry of skills read from the documents of several    *)
(* directories, and the skills active in a session, kept in a file of its   *)
(* own.  Nothing here is locked: a reload empties the registry, scans the   *)
(* directories one by one and puts the new or the old entries in place,     *)
(* while other tasks look skills up and rewrite the files of sessions.      *)
(***************************************************************************)
EXTENDS Naturals, Sequences, FiniteSets, SequencesExt

CONSTANTS
  SystemRoot, WritableRoot,   \* directories of skills: of the firmware, of the user
  SkillIds, SkillSessions,
  SkillCallers,               \* tasks that reload, activate and delete
  MaxSkillFiles,              \* CLAW_SKILL_MAX_FILES
  MaxSkillEdits, MaxSkillCalls   \* bounds on changed documents and on calls

SkillsBounds ==
  /\ SystemRoot # WritableRoot /\ IsFiniteSet(SkillIds)
  /\ MaxSkillFiles \in Nat /\ MaxSkillEdits \in Nat /\ MaxSkillCalls \in Nat

VARIABLES
  docs,        \* the document of each skill in each directory
  roots,       \* directories in the order they were added
  entries,     \* the registry
  booting,     \* directories the boot has still to add
  skillJob,    \* what each task is doing, with the data it holds
  activeFile,  \* the skills active in a session, on flash
  editsDone, skillCallsLeft,
  loaded,      \* history: the registry of the last reload that succeeded,
               \*   and the documents it was read from
  reloadsMet,  \* history: two reloads were in progress at once
  wanted,      \* history: the skills a session should have
  disturbed    \* history: calls on a session met each other or a reload

skillVars == <<docs, roots, entries, booting, skillJob, activeFile, editsDone,
               skillCallsLeft, loaded, reloadsMet, wanted, disturbed>>

Roots == {SystemRoot, WritableRoot}
Main == "main"
SkillTasks == SkillCallers \cup {Main}
Entry(id, root) == [id |-> id, root |-> root]
Ids(registry) == {registry[i].id : i \in DOMAIN registry}

NoFile == [state |-> "missing", ids |-> {}]
DamagedFile == [state |-> "damaged", ids |-> {}]
NoSkillJob == [pc |-> "idle", session |-> "none", skill |-> "none", ids |-> {},
               scanned |-> <<>>, next |-> 0, old |-> <<>>, edits |-> 0]

SkillAt(k, pc) == skillJob[k].pc = pc
SkillEnds(k) == skillJob' = [skillJob EXCEPT ![k] = NoSkillJob]
Reloading(k) == skillJob[k].pc \in {"scan", "install"}
SomeReload == \E k \in SkillTasks : Reloading(k)
OnSession(k, s) == skillJob[k].pc \in {"load", "save"} /\ skillJob[k].session = s

-----------------------------------------------------------------------------
(* Reading the directories *)

\* A directory lists its documents in some order; an id the registry has
\* shadows the document.
Documents(root) == {id \in SkillIds : docs[root][id] # "absent"}
\* Mutant: without the check for an earlier entry.
UnshadowedNever(registry, ids) == ids

Unshadowed(registry, ids) == ids \ Ids(registry)

\* A shadowed document needs room too when it is read, so the last place of the
\* registry can only be taken by the document read last.
HasRoomFor(registry, root) ==
  LET new == Cardinality(Unshadowed(registry, Documents(root)))
  IN  Documents(root) = {} \/ Len(registry) + new < MaxSkillFiles
      \/ (new > 0 /\ Len(registry) + new = MaxSkillFiles)
FromRoot(registry, root, order) == registry \o [i \in DOMAIN order |-> Entry(order[i], root)]

\* claw_skill_reload_registry: the entries are set aside.
StartsReload(k) ==
  /\ skillJob' = [skillJob EXCEPT ![k] = [NoSkillJob EXCEPT !.pc = "scan", !.next = 1,
                                            !.old = entries, !.edits = editsDone]]
  /\ entries' = <<>>
  /\ reloadsMet' = (reloadsMet \/ SomeReload)
  /\ disturbed' = [s \in SkillSessions |->
                     disturbed[s] \/ \E t \in SkillTasks : OnSession(t, s)]
  /\ UNCHANGED <<docs, activeFile, editsDone, loaded, wanted>>

\* Mutant: the old entries are not put back.
RestoresNothing(k) ==
  /\ entries' = <<>>
  /\ SkillEnds(k)

RestoresOld(k) ==
  /\ entries' = skillJob[k].old
  /\ SkillEnds(k)

\* One directory; a document that cannot be read or is not valid, or one too
\* many, makes the whole reload fail.
ScansRoot(k) ==
  LET job == skillJob[k]
      root == roots[job.next]
  IN  /\ SkillAt(k, "scan") /\ job.next <= Len(roots)
      /\ \/ /\ \A id \in SkillIds : docs[root][id] # "bad"
            /\ HasRoomFor(job.scanned, root)
            /\ \E order \in SetToSeqs(Unshadowed(job.scanned, Documents(root))) :
                 skillJob' = [skillJob EXCEPT ![k].scanned = FromRoot(@, root, order),
                                              ![k].next = @ + 1]
            /\ UNCHANGED entries
         \/ RestoresOld(k)
      /\ UNCHANGED <<docs, roots, booting, activeFile, editsDone, skillCallsLeft, loaded,
                     reloadsMet, wanted, disturbed>>

InstallsEntries(k) ==
  /\ SkillAt(k, "scan") /\ skillJob[k].next > Len(roots)
  /\ entries' = skillJob[k].scanned
  /\ loaded' = [entries |-> skillJob[k].scanned, edits |-> skillJob[k].edits,
                roots |-> roots]
  /\ SkillEnds(k)
  /\ UNCHANGED <<docs, roots, booting, activeFile, editsDone, skillCallsLeft, reloadsMet,
                 wanted, disturbed>>

\* claw_skill_add_directory in the order of the boot, which ends with the
\* first reload that fails.
AddDirectory ==
  /\ booting # <<>> /\ SkillAt(Main, "idle")
  /\ loaded.roots = roots
  /\ booting' = Tail(booting)
  /\ roots' = IF Head(booting) \in ToSet(roots) THEN roots ELSE Append(roots, Head(booting))
  /\ StartsReload(Main)
  /\ UNCHANGED skillCallsLeft

Reload(k) ==
  /\ StartsReload(k)
  /\ UNCHANGED <<roots, booting>>

-----------------------------------------------------------------------------
(* The skills of a session *)

\* claw_skill_activate_for_session: the skill must be in the registry.
ActivateBegins(k, session, skill) ==
  /\ skill \in Ids(entries)
  /\ skillJob' = [skillJob EXCEPT ![k] = [NoSkillJob EXCEPT !.pc = "load", !.session = session,
                                            !.skill = skill]]
  /\ disturbed' = [disturbed EXCEPT ![session] =
                     @ \/ SomeReload \/ \E t \in SkillTasks : OnSession(t, session)]
  /\ UNCHANGED <<docs, roots, entries, booting, activeFile, editsDone, loaded, reloadsMet,
                 wanted>>

\* Mutant: a list of skills that is there is taken for none.
LoadsActiveNot(k) ==
  /\ SkillAt(k, "load")
  /\ skillJob' = [skillJob EXCEPT ![k].pc = "save"]
  /\ UNCHANGED <<docs, roots, entries, booting, activeFile, editsDone, skillCallsLeft,
                 loaded, reloadsMet, wanted, disturbed>>

\* Ids that the registry does not know are dropped from the list.
LoadsActive(k) ==
  LET file == activeFile[skillJob[k].session]
  IN  /\ SkillAt(k, "load")
      /\ IF file.state = "damaged" THEN SkillEnds(k)
         ELSE skillJob' = [skillJob EXCEPT ![k].pc = "save", ![k].ids = file.ids \cap Ids(entries)]
      /\ UNCHANGED <<docs, roots, entries, booting, activeFile, editsDone, skillCallsLeft,
                     loaded, reloadsMet, wanted, disturbed>>

\* The file is written in place: not opened, cut half-way or complete.
SavesActive(k) ==
  LET job == skillJob[k]
      new == [state |-> "whole", ids |-> job.ids \cup {job.skill}]
  IN  /\ SkillAt(k, "save")
      /\ \/ UNCHANGED <<activeFile, wanted, disturbed>>
         \/ /\ activeFile' = [activeFile EXCEPT ![job.session] = DamagedFile]
            /\ disturbed' = [disturbed EXCEPT ![job.session] = TRUE]
            /\ UNCHANGED wanted
         \/ /\ activeFile' = [activeFile EXCEPT ![job.session] = new]
            /\ wanted' = [wanted EXCEPT ![job.session] = (@ \cap Ids(entries)) \cup {job.skill}]
            /\ UNCHANGED disturbed
      /\ SkillEnds(k)
      /\ UNCHANGED <<docs, roots, entries, booting, editsDone, skillCallsLeft, loaded, reloadsMet>>

\* claw_skill_delete_session_state; the file system may refuse.
DeletesState(session) ==
  /\ \/ activeFile' = [activeFile EXCEPT ![session] = NoFile]
        /\ wanted' = [wanted EXCEPT ![session] = {}]
     \/ UNCHANGED <<activeFile, wanted>>
  /\ disturbed' = [disturbed EXCEPT ![session] =
                     @ \/ \E t \in SkillTasks : OnSession(t, session)]
  /\ UNCHANGED <<docs, roots, entries, booting, skillJob, editsDone, loaded, reloadsMet>>

-----------------------------------------------------------------------------
\* The user writes, spoils or removes a document.
EditsDocument ==
  /\ editsDone < MaxSkillEdits
  /\ \E root \in Roots, id \in SkillIds, doc \in {"absent", "good", "bad"} :
       docs' = [docs EXCEPT ![root][id] = doc]
  /\ editsDone' = editsDone + 1
  /\ UNCHANGED <<roots, entries, booting, skillJob, activeFile, skillCallsLeft, loaded,
                 reloadsMet, wanted, disturbed>>

Booted == booting = <<>> /\ loaded.roots = roots /\ SkillAt(Main, "idle")

SkillCall(k) ==
  /\ Booted /\ SkillAt(k, "idle")
  /\ skillCallsLeft > 0 /\ skillCallsLeft' = skillCallsLeft - 1
  /\ \/ Reload(k)
     \/ \E session \in SkillSessions :
          \/ \E skill \in SkillIds : ActivateBegins(k, session, skill)
          \/ DeletesState(session)

\* init_skills: the directory of the firmware, then that of the user.
BootOrder == <<SystemRoot, WritableRoot>>

Init ==
  /\ docs \in [Roots -> [SkillIds -> {"absent", "good"}]]
  /\ roots = <<>> /\ entries = <<>> /\ booting = BootOrder
  /\ skillJob = [k \in SkillTasks |-> NoSkillJob]
  /\ activeFile = [s \in SkillSessions |-> NoFile]
  /\ editsDone = 0 /\ skillCallsLeft = MaxSkillCalls
  /\ loaded = [entries |-> <<>>, edits |-> 0, roots |-> <<>>]
  /\ reloadsMet = FALSE
  /\ wanted = [s \in SkillSessions |-> {}]
  /\ disturbed = [s \in SkillSessions |-> FALSE]

Next ==
  \/ AddDirectory \/ EditsDocument
  \/ \E k \in SkillTasks : ScansRoot(k) \/ InstallsEntries(k)
  \/ \E k \in SkillCallers : SkillCall(k) \/ LoadsActive(k) \/ SavesActive(k)

Spec == Init /\ [][Next]_skillVars

-----------------------------------------------------------------------------
\* What the documents say: each skill once, from the first directory that has it.
Catalog ==
  {e \in [id : SkillIds, root : Roots] :
     \E i \in DOMAIN roots :
       /\ roots[i] = e.root /\ docs[e.root][e.id] = "good"
       /\ \A j \in 1 .. i - 1 : docs[roots[j]][e.id] # "good"}

TypeOK ==
  /\ docs \in [Roots -> [SkillIds -> {"absent", "good", "bad"}]]
  /\ ToSet(roots) \subseteq Roots /\ ToSet(booting) \subseteq Roots
  /\ ToSet(entries) \subseteq [id : SkillIds, root : Roots]
  /\ \A s \in SkillSessions : activeFile[s].ids \subseteq SkillIds
  /\ skillCallsLeft \in 0 .. MaxSkillCalls /\ editsDone \in 0 .. MaxSkillEdits

\* Between reloads the registry is what the last successful one read, each
\* skill once and an earlier directory first, whichever reloads failed since;
\* two reloads at once may leave it empty (claw_skill.c:1310-1337).
CatalogIsSound ==
  /\ IsInjective([i \in DOMAIN entries |-> entries[i].id])
  /\ ~SomeReload /\ ~reloadsMet =>
       /\ entries = loaded.entries
       /\ loaded.edits = editsDone /\ loaded.roots = roots => ToSet(entries) = Catalog

\* A session has exactly the skills activated in it since its state was last
\* deleted, as long as they exist; unless calls for the session met each other
\* or a reload, or a write was cut (claw_skill.c:1481-1508).
ActiveIsKept ==
  \A s \in SkillSessions : ~disturbed[s] => activeFile[s].ids = wanted[s]

\* "This lets the writable partition override a firmware-baked skill of the
\* same id" (claw_skill.c:857-859): between reloads, with no document changed,
\* a skill of the writable directory is the one in the registry.
WritableOverrides ==
  Booted /\ editsDone = 0 /\ ~SomeReload =>
    \A i \in DOMAIN entries :
      docs[WritableRoot][entries[i].id] = "good" => entries[i].root = WritableRoot
=============================================================================
