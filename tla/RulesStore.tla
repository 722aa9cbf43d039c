------------------------------- MODULE RulesStore -------------------------------
(***************************************************************************)
(* The rules of claw_event_router on flash and in memory.  An editor (the   *)
(* console, a capability of an agent) reads the file, changes the array,    *)
(* writes it through a temporary file and puts the parsed rules in place of *)
(* those in memory; only the last step holds the router's mutex.  The power *)
(* may fail between any two steps.                                          *)
(***************************************************************************)
EXTENDS Integers, Sequences, FiniteSets

CONSTANTS
  Editors,
  RuleIds,
  MaxRules,     \* max_rules
  MaxEdits,     \* bound on the edits begun
  MaxPowerCuts  \* bound on power failures

RulesStoreBounds ==
  MaxRules \in Nat \ {0} /\ MaxEdits \in Nat /\ MaxPowerCuts \in Nat

VARIABLES
  ruleFile,     \* the JSON array on flash, NoRuleFile or HalfWritten
  ruleTmp,      \* its temporary file
  rules,        \* s_runtime->rules
  editor,       \* what each editor does next
  editsLeft, powerCutsLeft,
  accepted,     \* history: the list of rules the successful edits make
  lost,         \* history: a replacement was cut or failed between remove and rename
  overlapped    \* history: two editors were at work together since the last reload

rulesVars == <<ruleFile, ruleTmp, rules, editor, editsLeft, powerCutsLeft, accepted, lost,
               overlapped>>

\* Contents of a file are records, so that every two of them can be compared.
Json(array) == [state |-> "whole", array |-> array]
NoRuleFile == [state |-> "missing", array |-> <<>>]
HalfWritten == [state |-> "half", array |-> <<>>]

-----------------------------------------------------------------------------
(* Rules and their JSON.  Of a rule: its id, whether it is enabled, whether  *)
(* it matches a text, and if so by prefix.  An object has the keys written.  *)

AllRules == [id : RuleIds, enabled : BOOLEAN, text : BOOLEAN, prefix : BOOLEAN]
Keys == {"disabled", "text", "prefix"}
Objects == [id : RuleIds, keys : SUBSET Keys]

\* What editors write: also a prefix without the text it is a prefix of.
Offered == [id : RuleIds, keys : {{"disabled"}, {"text", "prefix"}, {"prefix"}}]

\* A key is left out where parsing supplies the same value.
RuleToJson(rule) ==
  [id |-> rule.id,
   keys |-> {k \in Keys : \/ k = "disabled" /\ ~rule.enabled
                          \/ k = "text" /\ rule.text
                          \/ k = "prefix" /\ rule.prefix}]

IsValid(object) == "prefix" \in object.keys => "text" \in object.keys

ParseRule(object) ==
  [id |-> object.id, enabled |-> "disabled" \notin object.keys,
   text |-> "text" \in object.keys, prefix |-> "prefix" \in object.keys]

RulesOfRoot(array) == [i \in DOMAIN array |-> ParseRule(array[i])]
RootLoads(array) == Len(array) <= MaxRules /\ \A i \in DOMAIN array : IsValid(array[i])

\* A missing file is an empty array, a damaged one an error.
ReadFile == IF ruleFile = NoRuleFile THEN Json(<<>>) ELSE ruleFile
FileLoads == ReadFile.state = "whole" /\ RootLoads(ReadFile.array)

Ids(array) == {array[i].id : i \in DOMAIN array}
IndexOf(array, id) == CHOOSE i \in DOMAIN array :
                        array[i].id = id /\ \A j \in 1 .. i - 1 : array[j].id # id

\* What an edit makes of a list of objects or of rules.
AddFirst(list, x) == <<x>> \o list
Replace(list, x) == [list EXCEPT ![IndexOf(list, x.id)] = x]
Delete(list, id) ==
  LET at == IndexOf(list, id)
  IN  SubSeq(list, 1, at - 1) \o SubSeq(list, at + 1, Len(list))

Applied(op, list, x) ==
  CASE op = "add"    -> AddFirst(list, x)
    [] op = "update" -> Replace(list, x)
    [] op = "delete" -> Delete(list, x.id)
    [] OTHER         -> list

-----------------------------------------------------------------------------
(* The steps of an editor *)

Resting == [pc |-> "idle", op |-> "none", rule |-> <<>>, root |-> <<>>, alone |-> FALSE]
At(e, pc) == editor[e].pc = pc
To(e, pc) == editor' = [editor EXCEPT ![e].pc = pc]
Ends(e) == editor' = [editor EXCEPT ![e] = Resting]
OthersRest(e) == \A o \in Editors \ {e} : At(o, "idle")

Begins(e, op, rule) ==
  /\ At(e, "idle") /\ editsLeft > 0
  /\ editsLeft' = editsLeft - 1
  /\ editor' = [o \in Editors |->
                 IF o = e THEN [pc |-> "load", op |-> op, rule |-> rule, root |-> <<>>,
                                alone |-> OthersRest(e)]
                 ELSE [editor[o] EXCEPT !.alone = FALSE]]
  /\ overlapped' = (overlapped \/ ~OthersRest(e))
  /\ UNCHANGED <<ruleFile, ruleTmp, rules, powerCutsLeft, accepted, lost>>

\* A rule comes as JSON and is parsed before the file is read.
BeginEdit(e) ==
  \E op \in {"add", "update"}, object \in Offered :
    IsValid(object) /\ Begins(e, op, ParseRule(object))

BeginDelete(e) == \E id \in RuleIds : Begins(e, "delete", ParseRule([id |-> id, keys |-> {}]))

BeginReload(e) == Begins(e, "reload", <<>>)

\* Mutant: an add does not look for the id.
EditAllowedAgain(op, array, id) ==
  CASE op = "add" -> Len(array) < MaxRules
    [] op = "reload" -> TRUE
    [] OTHER -> id \in Ids(array)

\* A new id for add, a known one for update and delete.
EditAllowed(op, array, id) ==
  CASE op = "add" -> Len(array) < MaxRules /\ id \notin Ids(array)
    [] op = "reload" -> TRUE
    [] OTHER -> id \in Ids(array)

LoadAndEdit(e) ==
  LET op == editor[e].op
      array == ReadFile.array
      id == IF op = "reload" THEN {} ELSE editor[e].rule.id
      x == IF op = "reload" THEN {} ELSE RuleToJson(editor[e].rule)
  IN  /\ At(e, "load")
      /\ IF FileLoads /\ EditAllowed(op, array, id) /\ RootLoads(Applied(op, array, x))
         THEN editor' = [editor EXCEPT ![e].pc = IF op = "reload" THEN "adopt" ELSE "open",
                                       ![e].root = Applied(op, array, x)]
         ELSE Ends(e)
      /\ UNCHANGED <<ruleFile, ruleTmp, rules, editsLeft, powerCutsLeft, accepted, lost,
                     overlapped>>

\* fopen "wb" of the temporary file, after its directory was made.
OpenTmp(e) ==
  /\ At(e, "open")
  /\ \/ ruleTmp' = HalfWritten /\ To(e, "write")
     \/ UNCHANGED ruleTmp /\ Ends(e)
  /\ UNCHANGED <<ruleFile, rules, editsLeft, powerCutsLeft, accepted, lost, overlapped>>

\* Mutant: a failed write leaves the half-written file to be put in place.
WriteTmpGoesOn(e) ==
  /\ At(e, "write")
  /\ \/ ruleTmp' = Json(editor[e].root)
     \/ UNCHANGED ruleTmp
  /\ To(e, "remove")
  /\ UNCHANGED <<ruleFile, rules, editsLeft, powerCutsLeft, accepted, lost, overlapped>>

WriteTmp(e) ==
  /\ At(e, "write")
  /\ \/ ruleTmp' = Json(editor[e].root) /\ To(e, "remove")
     \/ ruleTmp' = NoRuleFile /\ Ends(e)
  /\ UNCHANGED <<ruleFile, rules, editsLeft, powerCutsLeft, accepted, lost, overlapped>>

RemoveFile(e) ==
  /\ At(e, "remove")
  /\ \/ ruleFile' = NoRuleFile /\ To(e, "rename") /\ UNCHANGED ruleTmp
     \/ ruleTmp' = NoRuleFile /\ Ends(e) /\ UNCHANGED ruleFile
  /\ UNCHANGED <<rules, editsLeft, powerCutsLeft, accepted, lost, overlapped>>

RenameTmp(e) ==
  /\ At(e, "rename")
  /\ \/ /\ ruleTmp # NoRuleFile
        /\ ruleFile' = ruleTmp
        /\ accepted' = IF overlapped THEN accepted
                       ELSE Applied(editor[e].op, accepted, editor[e].rule)
        /\ To(e, "adopt")
        /\ UNCHANGED lost
     \/ /\ lost' = TRUE
        /\ Ends(e)
        /\ UNCHANGED <<ruleFile, accepted>>
  /\ ruleTmp' = NoRuleFile
  /\ UNCHANGED <<rules, editsLeft, powerCutsLeft, overlapped>>

\* The rules parsed from the array replace those in memory, under the mutex.
\* After a reload that nobody disturbed memory and file agree again.
Adopt(e) ==
  LET settles == editor[e].op = "reload" /\ editor[e].alone
  IN  /\ At(e, "adopt")
      /\ rules' = RulesOfRoot(editor[e].root)
      /\ Ends(e)
      /\ overlapped' = (overlapped /\ ~settles)
      /\ lost' = (lost /\ ~settles)
      /\ accepted' = IF settles THEN RulesOfRoot(editor[e].root) ELSE accepted
      /\ UNCHANGED <<ruleFile, ruleTmp, editsLeft, powerCutsLeft>>

\* The next boot loads the file, and starts without rules when there is none; a
\* router whose file does not load does not start.
PowerFails ==
  /\ powerCutsLeft > 0
  /\ powerCutsLeft' = powerCutsLeft - 1
  /\ FileLoads
  /\ editor' = [e \in Editors |-> Resting]
  /\ rules' = RulesOfRoot(ReadFile.array)
  /\ lost' = (lost \/ \E e \in Editors : At(e, "rename"))
  /\ UNCHANGED <<ruleFile, ruleTmp, editsLeft, accepted, overlapped>>

Init ==
  /\ ruleFile = NoRuleFile /\ ruleTmp = NoRuleFile
  /\ rules = <<>> /\ accepted = <<>>
  /\ editor = [e \in Editors |-> Resting]
  /\ editsLeft = MaxEdits /\ powerCutsLeft = MaxPowerCuts
  /\ lost = FALSE /\ overlapped = FALSE

Next ==
  \/ \E e \in Editors :
       \/ BeginEdit(e) \/ BeginDelete(e) \/ BeginReload(e) \/ LoadAndEdit(e) \/ OpenTmp(e) \/ WriteTmp(e)
       \/ RemoveFile(e) \/ RenameTmp(e) \/ Adopt(e)
  \/ PowerFails

Spec == Init /\ [][Next]_rulesVars

-----------------------------------------------------------------------------
Files == {NoRuleFile, HalfWritten} \cup [state : {"whole"}, array : Seq(Objects)]
Quiet == \A e \in Editors : At(e, "idle")

TypeOK ==
  /\ ruleFile \in Files /\ ruleTmp \in Files
  /\ rules \in Seq(AllRules) /\ Len(rules) <= MaxRules
  /\ accepted \in Seq(AllRules)
  /\ \A e \in Editors : editor[e].root \in Seq(Objects)
  /\ editsLeft \in 0 .. MaxEdits /\ powerCutsLeft \in 0 .. MaxPowerCuts
  /\ lost \in BOOLEAN /\ overlapped \in BOOLEAN

\* Whoever edits, the rules in force have different ids and are valid ones
\* (claw_event_router.c:2691 and 518-543).
RulesAreSound ==
  /\ \A i, j \in DOMAIN rules : rules[i].id = rules[j].id => i = j
  /\ \A i \in DOMAIN rules : rules[i].prefix => rules[i].text

\* As long as no two editors work together, the rules file loads or is missing at
\* every moment, so that a router starts after any power failure; between edits
\* file and memory hold the list of rules that the edits one after the other make,
\* through failed writes and power failures, unless a failure came between remove
\* and rename (claw_event_router.c:1011-1055, 1057-1131).
EditsAreKept ==
  ~overlapped =>
    /\ FileLoads
    /\ Quiet /\ ~lost => RulesOfRoot(ReadFile.array) = accepted /\ rules = accepted
=============================================================================
