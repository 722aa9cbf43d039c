--------------------------- MODULE Stores_proofs ----------------------------
(***************************************************************************)
(* Proofs about what is kept in files, for every value of the constants.   *)
(***************************************************************************)
EXTENDS Stores, Integers, FiniteSetTheorems, SequenceTheorems, FunctionTheorems, TLAPS

-----------------------------------------------------------------------------
(***************************************************************************)
(* The rules of the event router.                                          *)
(***************************************************************************)
RuDistinct(list) == \A i, j \in DOMAIN list : list[i].id = list[j].id => i = j

(* An array that may be written, and its rules.                            *)
RuGood(array) == array \in Seq(Rules!Objects) /\ Rules!RootLoads(array) /\ RuDistinct(array)

RuGoodFile(file) ==
  \/ file = Rules!NoRuleFile
  \/ file = Rules!HalfWritten
  \/ file = Rules!Json(file.array) /\ RuGood(file.array)

RuEdits == {"add", "update", "delete"}
RuWriting == {"open", "write", "remove", "rename"}
RuPlaces == {"idle", "load", "adopt"} \cup RuWriting
RuEditorRecords == [pc : RuPlaces, op : RuEdits \cup {"reload", "none"}, rule : Rules!AllRules \cup {<<>>},
                  root : Seq(Rules!Objects), alone : BOOLEAN]

(* What an editor has in its hands.                                        *)
RuHandOf(e) ==
  /\ ~Rules!At(e, "idle") => editor[e].op # "none"
  /\ editor[e].op \in RuEdits => editor[e].rule \in Rules!AllRules
  /\ editor[e].pc \in RuWriting => editor[e].op \in RuEdits
  /\ editor[e].pc \in RuWriting \cup {"adopt"} => RuGood(editor[e].root)

RuSoundInv ==
  /\ editor \in [Editors -> RuEditorRecords]
  /\ \A e \in Editors : RuHandOf(e)
  /\ RuGoodFile(ruleFile) /\ RuGoodFile(ruleTmp)
  /\ Rules!RulesAreSound

(* Who works alone does, and nobody overlaps unnoticed.                    *)
RuAloneInv ==
  /\ \A e \in Editors : editor[e].alone /\ ~Rules!At(e, "idle") => Rules!OthersRest(e)
  /\ ~overlapped => \A e \in Editors : ~Rules!At(e, "idle") => Rules!OthersRest(e)
  /\ overlapped \in BOOLEAN /\ lost \in BOOLEAN

(* What the file and the memory hold in the course of an edit.             *)
RuInHand(e) ==
  /\ editor[e].pc \in RuWriting =>
       Rules!RulesOfRoot(editor[e].root) = Rules!Applied(editor[e].op, accepted, editor[e].rule)
  /\ editor[e].pc \in {"remove", "rename"} => ruleTmp = Rules!Json(editor[e].root)
  /\ Rules!At(e, "adopt") => Rules!ReadFile = Rules!Json(editor[e].root)

RuFileIsKept ==
  (\A e \in Editors : ~Rules!At(e, "rename")) => Rules!FileLoads /\ Rules!RulesOfRoot(Rules!ReadFile.array) = accepted

RuMemoryIsKept ==
  (\A e \in Editors : Rules!At(e, "adopt") => editor[e].op = "reload") => rules = accepted

RuKeptInv ==
  /\ \A e \in Editors : Rules!At(e, "adopt") /\ editor[e].op = "reload" /\ editor[e].alone =>
       Rules!ReadFile = Rules!Json(editor[e].root)
  /\ ~lost /\ ~overlapped => RuFileIsKept /\ RuMemoryIsKept /\ \A e \in Editors : RuInHand(e)

RulesInv == RuSoundInv /\ RuAloneInv /\ RuKeptInv

-----------------------------------------------------------------------------
(* Arrays and rules.                                                        *)

LEMMA RuJsonIsWhole ==
  \A array : /\ Rules!Json(array).array = array /\ Rules!Json(array).state = "whole"
             /\ Rules!Json(array) # Rules!NoRuleFile /\ Rules!Json(array) # Rules!HalfWritten
BY DEF Rules!Json, Rules!NoRuleFile, Rules!HalfWritten

(* The file is what it was when a rule is written and read again.           *)
LEMMA RuRuleSurvives ==
  ASSUME NEW r \in Rules!AllRules
  PROVE  /\ Rules!RuleToJson(r) \in Rules!Objects /\ Rules!RuleToJson(r).id = r.id /\ Rules!ParseRule(Rules!RuleToJson(r)) = r
<1>1. Rules!RuleToJson(r) \in Rules!Objects /\ Rules!RuleToJson(r).id = r.id
  BY DEF Rules!RuleToJson, Rules!Objects, Rules!AllRules, Rules!Keys
<1>2. /\ "disabled" \in Rules!RuleToJson(r).keys <=> ~r.enabled
      /\ "text" \in Rules!RuleToJson(r).keys <=> r.text
      /\ "prefix" \in Rules!RuleToJson(r).keys <=> r.prefix
  BY DEF Rules!RuleToJson, Rules!Keys
<1>3. r.enabled \in BOOLEAN /\ r.text \in BOOLEAN /\ r.prefix \in BOOLEAN
  BY DEF Rules!AllRules
<1>. DEFINE K == Rules!RuleToJson(r).keys
<1>. HIDE DEF K
<1>4. /\ ("disabled" \notin K) = r.enabled
      /\ ("text" \in K) = r.text
      /\ ("prefix" \in K) = r.prefix
  <2>1. /\ "disabled" \notin K <=> r.enabled
        /\ "text" \in K <=> r.text
        /\ "prefix" \in K <=> r.prefix
    BY <1>2 DEF K
  <2>. QED BY <1>3, <2>1, SMT
<1>5. r = [id |-> r.id, enabled |-> r.enabled, text |-> r.text, prefix |-> r.prefix]
  BY DEF Rules!AllRules
<1>. QED BY <1>1, <1>4, <1>5, Zenon DEF Rules!ParseRule, K

LEMMA RuGoodParses ==
  ASSUME NEW array, RuGood(array)
  PROVE  LET list == Rules!RulesOfRoot(array)
         IN  /\ RuDistinct(list) /\ DOMAIN list = DOMAIN array
             /\ \A i \in DOMAIN array : list[i].id = array[i].id
             /\ \A i \in DOMAIN list : list[i].prefix => list[i].text
<1>1. /\ DOMAIN Rules!RulesOfRoot(array) = DOMAIN array
      /\ \A i \in DOMAIN array : Rules!RulesOfRoot(array)[i] = Rules!ParseRule(array[i])
  BY DEF Rules!RulesOfRoot
<1>2. \A i \in DOMAIN array : Rules!RulesOfRoot(array)[i].id = array[i].id
  BY <1>1 DEF Rules!ParseRule
<1>3. RuDistinct(Rules!RulesOfRoot(array))
  BY <1>1, <1>2 DEF RuDistinct, RuGood
<1>4. ASSUME NEW i \in DOMAIN array, Rules!RulesOfRoot(array)[i].prefix PROVE Rules!RulesOfRoot(array)[i].text
  <2>1. Rules!IsValid(array[i])
    BY DEF RuGood, Rules!RootLoads
  <2>2. Rules!ParseRule(array[i]).prefix
    BY <1>1, <1>4
  <2>3. "prefix" \in array[i].keys
    BY <2>2, Zenon DEF Rules!ParseRule
  <2>4. "text" \in array[i].keys
    BY <2>1, <2>3 DEF Rules!IsValid
  <2>5. Rules!ParseRule(array[i]).text
    BY <2>4, Zenon DEF Rules!ParseRule
  <2>. QED BY <1>1, <2>5
<1>. QED BY <1>1, <1>2, <1>3, <1>4

LEMMA RuNothingIsGood == ASSUME Rules!RulesStoreBounds PROVE RuGood(<<>>) /\ Rules!RulesOfRoot(<<>>) = <<>>
BY DEF Rules!RulesStoreBounds, RuGood, Rules!RootLoads, RuDistinct, Rules!RulesOfRoot

(* The id that is there once is found where it is.                          *)
LEMMA RuFound ==
  ASSUME NEW list, RuDistinct(list), NEW i \in DOMAIN list, NEW n \in Nat, DOMAIN list = 1..n
  PROVE  Rules!IndexOf(list, list[i].id) = i
<1>1. \A j \in 1 .. i - 1 : list[j].id # list[i].id
  BY DEF RuDistinct
<1>2. \E k \in DOMAIN list : list[k].id = list[i].id /\ \A j \in 1 .. k - 1 : list[j].id # list[i].id
  BY <1>1
<1>3. /\ Rules!IndexOf(list, list[i].id) \in DOMAIN list
      /\ list[Rules!IndexOf(list, list[i].id)].id = list[i].id
  BY <1>2 DEF Rules!IndexOf
<1>. QED BY <1>3 DEF RuDistinct

(* An edit of the array is the edit of its rules, and leaves ids distinct.  *)
LEMMA RuEditParses ==
  ASSUME NEW array, RuGood(array), NEW op \in RuEdits, NEW r \in Rules!AllRules,
         Rules!EditAllowed(op, array, r.id)
  PROVE  LET root == Rules!Applied(op, array, Rules!RuleToJson(r))
         IN  /\ root \in Seq(Rules!Objects) /\ RuDistinct(root)
             /\ Rules!RulesOfRoot(root) = Rules!Applied(op, Rules!RulesOfRoot(array), r)
<1>. DEFINE list == Rules!RulesOfRoot(array)  x == Rules!RuleToJson(r)  n == Len(array)
<1>0. /\ array \in Seq(Rules!Objects) /\ n \in Nat /\ DOMAIN array = 1..n /\ RuDistinct(array)
      /\ x \in Rules!Objects /\ x.id = r.id /\ Rules!ParseRule(x) = r
  BY RuRuleSurvives DEF RuGood
<1>1. /\ RuDistinct(list) /\ DOMAIN list = 1..n
      /\ \A i \in 1..n : list[i].id = array[i].id /\ list[i] = Rules!ParseRule(array[i])
  BY <1>0, RuGoodParses DEF Rules!RulesOfRoot
<1>2. list \in Seq({Rules!ParseRule(y) : y \in Rules!Objects}) /\ Len(list) = n
  BY <1>0, <1>1 DEF Rules!RulesOfRoot
<1>. HIDE DEF list, x, n
<1>3. CASE op = "add"
  <2>1. /\ Rules!Applied(op, array, x) = <<x>> \o array
        /\ Rules!Applied(op, list, r) = <<r>> \o list
    BY <1>3 DEF Rules!Applied, Rules!AddFirst
  <2>2. /\ <<x>> \o array \in Seq(Rules!Objects) /\ DOMAIN (<<x>> \o array) = 1..(n + 1)
        /\ \A i \in 1..(n + 1) : (<<x>> \o array)[i] = IF i = 1 THEN x ELSE array[i - 1]
    BY <1>0 DEF n
  <2>3. \A i \in 1..n : array[i].id # x.id
    BY <1>0, <1>3 DEF Rules!EditAllowed, Rules!Ids
  <2>4. RuDistinct(<<x>> \o array)
    BY <1>0, <2>2, <2>3 DEF RuDistinct
  <2>5. /\ DOMAIN (<<r>> \o list) = 1..(n + 1)
        /\ \A i \in 1..(n + 1) : (<<r>> \o list)[i] = IF i = 1 THEN r ELSE list[i - 1]
        /\ <<r>> \o list = [i \in 1..(n + 1) |-> (<<r>> \o list)[i]]
    BY <1>0, <1>2
  <2>6. \A i \in 1..(n + 1) : Rules!ParseRule((<<x>> \o array)[i]) = (<<r>> \o list)[i]
    BY <1>0, <1>1, <2>2, <2>5
  <2>7. Rules!RulesOfRoot(<<x>> \o array) = <<r>> \o list
    BY <2>2, <2>5, <2>6 DEF Rules!RulesOfRoot
  <2>. QED BY <2>1, <2>2, <2>4, <2>7 DEF list, x
<1>4. ASSUME op # "add" PROVE \E i \in 1..n : /\ array[i].id = r.id /\ Rules!IndexOf(array, r.id) = i
                                              /\ Rules!IndexOf(list, r.id) = i
  <2>1. PICK i \in 1..n : array[i].id = r.id
    BY <1>0, <1>4 DEF Rules!EditAllowed, Rules!Ids, RuEdits
  <2>2. Rules!IndexOf(array, r.id) = i
    BY <1>0, <2>1, RuFound
  <2>3. Rules!IndexOf(list, r.id) = i
    BY <1>0, <1>1, <2>1, RuFound
  <2>. QED BY <2>1, <2>2, <2>3
<1>5. CASE op = "update"
  <2>1. PICK i \in 1..n : /\ array[i].id = r.id /\ Rules!IndexOf(array, r.id) = i
                          /\ Rules!IndexOf(list, r.id) = i
    BY <1>4, <1>5
  <2>2. /\ Rules!Applied(op, array, x) = [array EXCEPT ![i] = x]
        /\ Rules!Applied(op, list, r) = [list EXCEPT ![i] = r]
    BY <1>0, <1>5, <2>1 DEF Rules!Applied, Rules!Replace
  <2>3. [array EXCEPT ![i] = x] \in Seq(Rules!Objects) /\ DOMAIN [array EXCEPT ![i] = x] = 1..n
    BY <1>0, <2>1
  <2>4. \A j \in 1..n : [array EXCEPT ![i] = x][j].id = array[j].id
    BY <1>0, <2>1
  <2>5. RuDistinct([array EXCEPT ![i] = x])
    BY <1>0, <2>3, <2>4 DEF RuDistinct
  <2>6. \A j \in 1..n : Rules!ParseRule([array EXCEPT ![i] = x][j]) = [list EXCEPT ![i] = r][j]
    BY <1>0, <1>1, <2>1
  <2>7. Rules!RulesOfRoot([array EXCEPT ![i] = x]) = [list EXCEPT ![i] = r]
    BY <1>1, <2>3, <2>6 DEF Rules!RulesOfRoot
  <2>. QED BY <2>2, <2>3, <2>5, <2>7 DEF list, x
<1>6. CASE op = "delete"
  <2>1. PICK i \in 1..n : /\ array[i].id = r.id /\ Rules!IndexOf(array, r.id) = i
                          /\ Rules!IndexOf(list, r.id) = i
    BY <1>4, <1>6
  <2>. DEFINE rest == SubSeq(array, 1, i - 1) \o SubSeq(array, i + 1, n)
              left == SubSeq(list, 1, i - 1) \o SubSeq(list, i + 1, n)
  <2>2. Rules!Applied(op, array, x) = rest /\ Rules!Applied(op, list, r) = left
    BY <1>0, <1>2, <1>6, <2>1 DEF Rules!Applied, Rules!Delete, n
  <2>3. /\ rest \in Seq(Rules!Objects) /\ DOMAIN rest = 1..(n - 1)
        /\ \A j \in 1..(n - 1) : rest[j] = IF j < i THEN array[j] ELSE array[j + 1]
    <3>1. array \in Seq(Rules!Objects) /\ n \in Nat /\ i \in 1..n /\ Len(array) = n
      BY <1>0, <2>1 DEF n
    <3>2. /\ SubSeq(array, 1, i - 1) \in Seq(Rules!Objects) /\ Len(SubSeq(array, 1, i - 1)) = i - 1
          /\ \A j \in 1..(i - 1) : SubSeq(array, 1, i - 1)[j] = array[j]
      BY <3>1
    <3>3. /\ SubSeq(array, i + 1, n) \in Seq(Rules!Objects) /\ Len(SubSeq(array, i + 1, n)) = n - i
          /\ \A j \in 1..(n - i) : SubSeq(array, i + 1, n)[j] = array[i + j]
      BY <3>1
    <3>4. rest \in Seq(Rules!Objects) /\ Len(rest) = n - 1
      BY <3>1, <3>2, <3>3
    <3>5. \A j \in 1..(n - 1) : rest[j] = IF j < i THEN array[j] ELSE array[j + 1]
      BY <3>1, <3>2, <3>3
    <3>. QED BY <3>1, <3>4, <3>5
  <2>4. /\ DOMAIN left = 1..(n - 1)
        /\ \A j \in 1..(n - 1) : left[j] = IF j < i THEN list[j] ELSE list[j + 1]
        /\ left = [j \in 1..(n - 1) |-> left[j]]
    <3>0. PICK R : list \in Seq(R)
      BY <1>2
    <3>1. list \in Seq(R) /\ n \in Nat /\ i \in 1..n /\ Len(list) = n
      BY <1>0, <1>2, <2>1, <3>0
    <3>2. /\ SubSeq(list, 1, i - 1) \in Seq(R) /\ Len(SubSeq(list, 1, i - 1)) = i - 1
          /\ \A j \in 1..(i - 1) : SubSeq(list, 1, i - 1)[j] = list[j]
      BY <3>1
    <3>3. /\ SubSeq(list, i + 1, n) \in Seq(R) /\ Len(SubSeq(list, i + 1, n)) = n - i
          /\ \A j \in 1..(n - i) : SubSeq(list, i + 1, n)[j] = list[i + j]
      BY <3>1
    <3>4. left \in Seq(R) /\ Len(left) = n - 1
      BY <3>1, <3>2, <3>3
    <3>5. \A j \in 1..(n - 1) : left[j] = IF j < i THEN list[j] ELSE list[j + 1]
      BY <3>1, <3>2, <3>3
    <3> HIDE DEF left
    <3>6. n - 1 \in Nat /\ DOMAIN left = 1..(n - 1) /\ left \in [1..(n - 1) -> R]
      <4>1. n - 1 \in Nat
        BY <3>1
      <4> QED BY <3>4, <4>1
    <3>7. left = [j \in 1..(n - 1) |-> left[j]]
      BY <3>6
    <3>. QED BY <3>5, <3>6, <3>7
  <2>. HIDE DEF rest, left
  <2>5. RuDistinct(rest)
    <3>. SUFFICES ASSUME NEW j \in 1..(n - 1), NEW k \in 1..(n - 1), rest[j].id = rest[k].id
                  PROVE  j = k
      BY <2>3 DEF RuDistinct
    <3>1. PICK u \in 1..n : u = (IF j < i THEN j ELSE j + 1) /\ rest[j] = array[u]
      BY <1>0, <2>1, <2>3
    <3>2. PICK v \in 1..n : v = (IF k < i THEN k ELSE k + 1) /\ rest[k] = array[v]
      BY <1>0, <2>1, <2>3
    <3>3. u = v
      BY <1>0, <3>1, <3>2 DEF RuDistinct
    <3>. QED BY <1>0, <3>1, <3>2, <3>3
  <2>6. \A j \in 1..(n - 1) : Rules!ParseRule(rest[j]) = left[j]
    BY <1>0, <1>1, <2>1, <2>3, <2>4
  <2>7. Rules!RulesOfRoot(rest) = left
    BY <2>3, <2>4, <2>6 DEF Rules!RulesOfRoot
  <2>. QED BY <2>2, <2>3, <2>5, <2>7 DEF list, x
<1>. QED BY <1>3, <1>5, <1>6 DEF RuEdits

-----------------------------------------------------------------------------
(* The steps of one editor.                                                 *)

LEMMA RuSameFile ==
  ASSUME ruleFile' = ruleFile PROVE Rules!ReadFile' = Rules!ReadFile /\ (Rules!FileLoads' <=> Rules!FileLoads)
BY DEF Rules!ReadFile, Rules!FileLoads

LEMMA RuReadIsGood ==
  ASSUME Rules!RulesStoreBounds, RuGoodFile(ruleFile), Rules!FileLoads
  PROVE  Rules!ReadFile = Rules!Json(Rules!ReadFile.array) /\ RuGood(Rules!ReadFile.array)
BY RuNothingIsGood, RuJsonIsWhole DEF Rules!ReadFile, Rules!FileLoads, RuGoodFile, Rules!HalfWritten, Rules!NoRuleFile

LEMMA RuWrittenLoads ==
  ASSUME NEW array, RuGood(array), Rules!ReadFile = Rules!Json(array) PROVE Rules!FileLoads /\ Rules!ReadFile.array = array
BY RuJsonIsWhole DEF Rules!FileLoads, RuGood

(* What KeptInv says when only e is at work.                                *)
RuKeptBy(e) ==
  /\ ~Rules!At(e, "rename") => Rules!FileLoads /\ Rules!RulesOfRoot(Rules!ReadFile.array) = accepted
  /\ ~(Rules!At(e, "adopt") /\ editor[e].op # "reload") => rules = accepted
  /\ RuInHand(e)

LEMMA RuKeptAlone ==
  ASSUME NEW e \in Editors, Rules!OthersRest(e)
  PROVE  RuFileIsKept /\ RuMemoryIsKept /\ (\A o \in Editors : RuInHand(o)) <=> RuKeptBy(e)
<1>1. \A o \in Editors \ {e} : /\ ~Rules!At(o, "rename") /\ ~Rules!At(o, "adopt") /\ RuInHand(o)
  BY DEF Rules!OthersRest, Rules!At, RuInHand, RuWriting
<1>. QED BY <1>1 DEF RuFileIsKept, RuMemoryIsKept, RuKeptBy

LEMMA RuKeptAloneNext ==
  ASSUME NEW e \in Editors, Rules!OthersRest(e)', RuKeptBy(e)'
  PROVE  RuFileIsKept' /\ RuMemoryIsKept' /\ \A o \in Editors : RuInHand(o)'
<1>1. \A o \in Editors \ {e} : /\ ~Rules!At(o, "rename")' /\ ~Rules!At(o, "adopt")' /\ RuInHand(o)'
  BY DEF Rules!OthersRest, Rules!At, RuInHand, RuWriting
<1>. QED BY <1>1 DEF RuFileIsKept, RuMemoryIsKept, RuKeptBy

(* A step of an editor at work leaves the others as they are.               *)
RuStep(e) ==
  /\ ~Rules!At(e, "idle") /\ UNCHANGED overlapped /\ lost' \in BOOLEAN
  /\ editor' \in [Editors -> RuEditorRecords]
  /\ \A o \in Editors \ {e} : editor'[o] = editor[o]
  /\ editor'[e].alone = editor[e].alone \/ Rules!At(e, "idle")'

LEMMA RuStepAlone == ASSUME RulesInv, NEW e \in Editors, RuStep(e) PROVE RuAloneInv'
<1>1. \A o \in Editors : ~Rules!At(o, "idle")' => ~Rules!At(o, "idle") /\ editor'[o].alone = editor[o].alone
  BY DEF RuStep, Rules!At
<1>2. \A o \in Editors : Rules!OthersRest(o) => Rules!OthersRest(o)'
  BY <1>1 DEF Rules!OthersRest
<1>. QED BY <1>1, <1>2 DEF RulesInv, RuAloneInv, RuStep

LEMMA RuStepSound ==
  ASSUME RulesInv, NEW e \in Editors, RuStep(e), RuHandOf(e)', RuGoodFile(ruleFile)', RuGoodFile(ruleTmp)',
         Rules!RulesAreSound'
  PROVE  RuSoundInv'
<1>1. \A o \in Editors \ {e} : RuHandOf(o)'
  BY DEF RulesInv, RuSoundInv, RuStep, RuHandOf, Rules!At
<1>. QED BY <1>1 DEF RuSoundInv, RuStep

LEMMA RuStepKept ==
  ASSUME RulesInv, NEW e \in Editors, RuStep(e),
         Rules!At(e, "adopt")' /\ editor'[e].op = "reload" => Rules!ReadFile' = Rules!Json(editor'[e].root),
         ~lost' => ~lost, ~lost /\ RuKeptBy(e) /\ ~lost' => RuKeptBy(e)'
  PROVE  RuKeptInv'
<1>1. ASSUME NEW o \in Editors, Rules!At(o, "adopt")', editor'[o].op = "reload", editor'[o].alone
      PROVE  Rules!ReadFile' = Rules!Json(editor'[o].root)
  <2>1. CASE o = e
    BY <1>1, <2>1
  <2>2. CASE o # e
    <3>1. Rules!At(o, "adopt") /\ editor[o].alone
      BY <1>1, <2>2 DEF RuStep, Rules!At
    <3>2. Rules!OthersRest(o)
      BY <3>1 DEF RulesInv, RuAloneInv, Rules!At
    <3>. QED BY <2>2, <3>2 DEF Rules!OthersRest, RuStep
  <2>. QED BY <2>1, <2>2
<1>2. ASSUME ~lost', ~overlapped'
      PROVE  RuFileIsKept' /\ RuMemoryIsKept' /\ \A o \in Editors : RuInHand(o)'
  <2>1. ~lost /\ ~overlapped /\ Rules!OthersRest(e)
    BY <1>2 DEF RuStep, RulesInv, RuAloneInv
  <2>2. RuKeptBy(e)
    BY <2>1, RuKeptAlone DEF RulesInv, RuKeptInv
  <2>3. Rules!OthersRest(e)'
    BY <2>1 DEF Rules!OthersRest, RuStep, Rules!At
  <2>. QED BY <1>2, <2>1, <2>2, <2>3, RuKeptAloneNext
<1>. QED BY <1>1, <1>2 DEF RuKeptInv

(* An edit that ends without having changed anything, or goes on to its     *)
(* next step.                                                               *)
LEMMA RuEndsTyped ==
  ASSUME RulesInv, NEW e \in Editors, ~Rules!At(e, "idle"), Rules!Ends(e), UNCHANGED overlapped, lost' \in BOOLEAN
  PROVE  /\ RuStep(e) /\ RuHandOf(e)' /\ Rules!At(e, "idle")'
         /\ (Rules!ReadFile' = Rules!ReadFile /\ (Rules!FileLoads' <=> Rules!FileLoads) /\ UNCHANGED <<accepted, rules>>
              /\ RuKeptBy(e) /\ ~Rules!At(e, "rename") /\ ~Rules!At(e, "adopt") => RuKeptBy(e)')
<1>1. Rules!Resting \in RuEditorRecords /\ Rules!Resting.pc = "idle" /\ Rules!Resting.op = "none"
  BY DEF Rules!Resting, RuEditorRecords, RuPlaces, RuWriting
<1>2. /\ editor' \in [Editors -> RuEditorRecords] /\ editor'[e] = Rules!Resting
      /\ \A o \in Editors \ {e} : editor'[o] = editor[o]
  BY <1>1 DEF Rules!Ends, RulesInv, RuSoundInv
<1>. HIDE DEF Rules!Resting
<1>3. RuStep(e) /\ Rules!At(e, "idle")'
  BY <1>1, <1>2 DEF RuStep, Rules!At
<1>4. RuHandOf(e)'
  BY <1>1, <1>2 DEF RuHandOf, Rules!At, RuWriting, RuEdits
<1>5. RuInHand(e)'
  BY <1>1, <1>2 DEF RuInHand, Rules!At, RuWriting
<1>. QED BY <1>3, <1>4, <1>5 DEF RuKeptBy, Rules!At

LEMMA RuGoesOn ==
  ASSUME RulesInv, NEW e \in Editors, ~Rules!At(e, "idle"), NEW p \in RuWriting \cup {"adopt"}, Rules!To(e, p),
         UNCHANGED overlapped, lost' \in BOOLEAN, editor[e].pc \in RuWriting
  PROVE  /\ RuStep(e) /\ RuHandOf(e)' /\ editor'[e].pc = p
         /\ editor'[e].op = editor[e].op /\ editor'[e].op \in RuEdits
         /\ editor'[e].rule = editor[e].rule /\ editor'[e].root = editor[e].root
<1>1. editor[e] \in RuEditorRecords /\ p \in RuPlaces
  BY DEF RulesInv, RuSoundInv, RuPlaces
<1>2. /\ editor' \in [Editors -> RuEditorRecords]
      /\ editor'[e] = [editor[e] EXCEPT !.pc = p]
      /\ \A o \in Editors \ {e} : editor'[o] = editor[o]
  BY <1>1 DEF Rules!To, RulesInv, RuSoundInv, RuEditorRecords
<1>3. /\ editor'[e].pc = p /\ editor'[e].op = editor[e].op /\ editor'[e].alone = editor[e].alone
      /\ editor'[e].rule = editor[e].rule /\ editor'[e].root = editor[e].root
  BY <1>1, <1>2 DEF RuEditorRecords
<1>4. RuHandOf(e)
  BY DEF RulesInv, RuSoundInv
<1>. QED BY <1>2, <1>3, <1>4 DEF RuStep, RuHandOf, Rules!At, RuWriting

-----------------------------------------------------------------------------
LEMMA RuStepKeeps ==
  ASSUME RulesInv, NEW e \in Editors, RuStep(e), RuHandOf(e)', RuGoodFile(ruleFile)', RuGoodFile(ruleTmp)',
         Rules!RulesAreSound',
         Rules!At(e, "adopt")' /\ editor'[e].op = "reload" => Rules!ReadFile' = Rules!Json(editor'[e].root),
         ~lost' => ~lost, ~lost /\ RuKeptBy(e) /\ ~lost' => RuKeptBy(e)'
  PROVE  RulesInv'
BY RuStepAlone, RuStepSound, RuStepKept DEF RulesInv

LEMMA RuEndsKeeps ==
  ASSUME RulesInv, NEW e \in Editors, ~Rules!At(e, "idle"), ~Rules!At(e, "rename"), ~Rules!At(e, "adopt"), Rules!Ends(e),
         UNCHANGED <<ruleFile, rules, accepted, lost, overlapped>>, RuGoodFile(ruleTmp)'
  PROVE  RulesInv'
<1>1. lost' \in BOOLEAN /\ RuGoodFile(ruleFile)' /\ Rules!RulesAreSound'
  BY DEF RulesInv, RuSoundInv, RuAloneInv, Rules!RulesAreSound
<1>2. RuStep(e) /\ RuHandOf(e)' /\ Rules!At(e, "idle")' /\ (RuKeptBy(e) => RuKeptBy(e)')
  BY <1>1, RuSameFile, RuEndsTyped
<1>3. ~Rules!At(e, "adopt")'
  BY <1>2 DEF Rules!At
<1>. QED BY <1>1, <1>2, <1>3, RuStepKeeps

LEMMA RuBeginKeeps ==
  ASSUME RulesInv, NEW e \in Editors, NEW op \in RuEdits \cup {"reload"}, NEW r,
         op \in RuEdits => r \in Rules!AllRules, r \in Rules!AllRules \cup {<<>>}, Rules!Begins(e, op, r)
  PROVE  RulesInv'
<1>0. /\ Rules!At(e, "idle") /\ overlapped' = (overlapped \/ ~Rules!OthersRest(e))
      /\ UNCHANGED <<ruleFile, ruleTmp, rules, accepted, lost>>
  BY DEF Rules!Begins
<1>. DEFINE new == [pc |-> "load", op |-> op, rule |-> r, root |-> <<>>, alone |-> Rules!OthersRest(e)]
<1>1. Rules!OthersRest(e) \in BOOLEAN /\ new \in RuEditorRecords
  BY DEF RuEditorRecords, RuPlaces, RuWriting, Rules!OthersRest
<1>2. /\ editor' \in [Editors -> RuEditorRecords] /\ editor'[e] = new
      /\ \A o \in Editors \ {e} : editor'[o] = [editor[o] EXCEPT !.alone = FALSE]
  BY <1>1 DEF Rules!Begins, RulesInv, RuSoundInv, RuEditorRecords
<1>3. /\ editor'[e].pc = "load" /\ editor'[e].op = op /\ editor'[e].rule = r
      /\ editor'[e].alone = Rules!OthersRest(e)
  BY <1>2
<1>4. \A o \in Editors \ {e} :
        /\ editor'[o].pc = editor[o].pc /\ editor'[o].op = editor[o].op
        /\ editor'[o].rule = editor[o].rule /\ editor'[o].root = editor[o].root
        /\ editor'[o].alone = FALSE
  BY <1>2 DEF RulesInv, RuSoundInv, RuEditorRecords
<1>5. Rules!OthersRest(e)' <=> Rules!OthersRest(e)
  BY <1>4 DEF Rules!OthersRest, Rules!At
<1>6. RuSoundInv'
  <2>1. RuHandOf(e)'
    BY <1>3 DEF RuHandOf, Rules!At, RuWriting, RuEdits
  <2>2. \A o \in Editors \ {e} : RuHandOf(o)'
    BY <1>4 DEF RuHandOf, Rules!At, RulesInv, RuSoundInv
  <2>. QED BY <1>0, <1>2, <2>1, <2>2 DEF RuSoundInv, RulesInv, Rules!RulesAreSound
<1>7. RuAloneInv'
  <2>1. \A o \in Editors : editor'[o].alone /\ ~Rules!At(o, "idle")' => Rules!OthersRest(o)'
    BY <1>3, <1>4, <1>5
  <2>2. ASSUME ~overlapped', NEW o \in Editors, ~Rules!At(o, "idle")' PROVE Rules!OthersRest(o)'
    <3>1. o = e
      BY <1>0, <1>4, <2>2 DEF Rules!OthersRest, Rules!At
    <3>. QED BY <1>0, <1>5, <2>2, <3>1
  <2>3. overlapped' \in BOOLEAN /\ lost' \in BOOLEAN
    BY <1>0, <1>1 DEF RulesInv, RuAloneInv
  <2>. QED BY <2>1, <2>2, <2>3 DEF RuAloneInv
<1>8. RuKeptInv'
  <2>1. ASSUME NEW o \in Editors PROVE ~(Rules!At(o, "adopt")' /\ editor'[o].alone)
    BY <1>3, <1>4 DEF Rules!At
  <2>2. ASSUME ~lost', ~overlapped'
        PROVE  RuFileIsKept' /\ RuMemoryIsKept' /\ \A o \in Editors : RuInHand(o)'
    <3>1. RuKeptBy(e) /\ Rules!OthersRest(e)'
      BY <1>0, <1>5, <2>2, RuKeptAlone DEF RulesInv, RuKeptInv
    <3>2. RuKeptBy(e)'
      BY <1>0, <1>3, <3>1, RuSameFile DEF RuKeptBy, RuInHand, Rules!At, RuWriting
    <3>. QED BY <3>1, <3>2, RuKeptAloneNext
  <2>. QED BY <2>1, <2>2 DEF RuKeptInv
<1>. QED BY <1>6, <1>7, <1>8 DEF RulesInv

LEMMA RuLoadKeeps ==
  ASSUME Rules!RulesStoreBounds, RulesInv, NEW e \in Editors, Rules!LoadAndEdit(e) PROVE RulesInv'
<1>0. /\ Rules!At(e, "load") /\ ~Rules!At(e, "idle") /\ ~Rules!At(e, "rename") /\ ~Rules!At(e, "adopt")
      /\ editor[e] \in RuEditorRecords /\ RuHandOf(e)
      /\ UNCHANGED <<ruleFile, ruleTmp, rules, accepted, lost, overlapped>>
  BY DEF Rules!LoadAndEdit, Rules!At, RulesInv, RuSoundInv
<1>1. /\ RuGoodFile(ruleFile)' /\ RuGoodFile(ruleTmp)' /\ Rules!RulesAreSound' /\ lost' \in BOOLEAN
      /\ Rules!ReadFile' = Rules!ReadFile /\ (Rules!FileLoads' <=> Rules!FileLoads)
  BY <1>0, RuSameFile DEF RulesInv, RuSoundInv, RuAloneInv, Rules!RulesAreSound
<1>2. CASE Rules!Ends(e)
  BY <1>0, <1>1, <1>2, RuEndsKeeps
<1>3. CASE ~Rules!Ends(e)
  <2>. DEFINE op == editor[e].op  array == Rules!ReadFile.array
              x == IF op = "reload" THEN {} ELSE Rules!RuleToJson(editor[e].rule)
              p == IF op = "reload" THEN "adopt" ELSE "open"
              root == Rules!Applied(op, array, x)
  <2>1. /\ Rules!FileLoads /\ Rules!EditAllowed(op, array, IF op = "reload" THEN {} ELSE editor[e].rule.id)
        /\ Rules!RootLoads(root)
        /\ editor' = [editor EXCEPT ![e].pc = p, ![e].root = root]
    BY <1>3 DEF Rules!LoadAndEdit
  <2>2. Rules!ReadFile = Rules!Json(array) /\ RuGood(array)
    BY <2>1, RuReadIsGood DEF RulesInv, RuSoundInv
  <2>3. op \in RuEdits \cup {"reload"}
    BY <1>0 DEF RuHandOf, RuEditorRecords
  <2>4. ASSUME op \in RuEdits
        PROVE  /\ root \in Seq(Rules!Objects) /\ RuDistinct(root)
               /\ Rules!RulesOfRoot(root) = Rules!Applied(op, Rules!RulesOfRoot(array), editor[e].rule)
    BY <1>0, <2>1, <2>2, <2>4, RuEditParses DEF RuHandOf, RuEdits
  <2>5. op = "reload" => root = array
    BY DEF Rules!Applied
  <2>6. RuGood(root)
    BY <2>1, <2>2, <2>3, <2>4, <2>5 DEF RuGood
  <2>. HIDE DEF root, array, x
  <2>7. /\ editor' \in [Editors -> RuEditorRecords]
        /\ editor'[e] = [editor[e] EXCEPT !.pc = p, !.root = root]
        /\ \A o \in Editors \ {e} : editor'[o] = editor[o]
    BY <1>0, <2>1, <2>6 DEF RulesInv, RuSoundInv, RuEditorRecords, RuPlaces, RuWriting, RuGood
  <2>8. /\ editor'[e].pc = p /\ editor'[e].op = op /\ editor'[e].root = root
        /\ editor'[e].rule = editor[e].rule /\ editor'[e].alone = editor[e].alone
    BY <1>0, <2>7 DEF RuEditorRecords
  <2>. HIDE DEF op
  <2>9. RuStep(e)
    BY <1>0, <1>1, <2>7, <2>8 DEF RuStep
  <2>10. RuHandOf(e)'
    BY <1>0, <2>3, <2>6, <2>8 DEF RuHandOf, Rules!At, RuWriting, RuEdits, op
  <2>11. Rules!At(e, "adopt")' /\ editor'[e].op = "reload" => Rules!ReadFile' = Rules!Json(editor'[e].root)
    BY <1>1, <2>2, <2>5, <2>8
  <2>12. ASSUME RuKeptBy(e) PROVE RuKeptBy(e)'
    <3>1. Rules!FileLoads /\ Rules!RulesOfRoot(array) = accepted /\ rules = accepted
      BY <1>0, <2>12 DEF RuKeptBy, array
    <3>2. Rules!At(e, "adopt")' => op = "reload"
      BY <2>8 DEF Rules!At
    <3>3. RuInHand(e)'
      BY <1>0, <1>1, <2>2, <2>3, <2>4, <2>5, <2>8, <3>1 DEF RuInHand, Rules!At, RuWriting
    <3>. QED BY <1>0, <1>1, <2>8, <3>1, <3>2, <3>3 DEF RuKeptBy, array
  <2>. QED BY <1>0, <1>1, <2>9, <2>10, <2>11, <2>12, RuStepKeeps
<1>. QED BY <1>2, <1>3

(* The steps that write the file.                                          *)
LEMMA RuOpenKeeps == ASSUME RulesInv, NEW e \in Editors, Rules!OpenTmp(e) PROVE RulesInv'
<1>0. /\ Rules!At(e, "open") /\ editor[e].pc \in RuWriting /\ ~Rules!At(e, "idle") /\ ~Rules!At(e, "rename") /\ ~Rules!At(e, "adopt")
      /\ UNCHANGED <<ruleFile, rules, accepted, lost, overlapped>>
      /\ lost' \in BOOLEAN /\ RuGoodFile(ruleFile)' /\ Rules!RulesAreSound'
  BY DEF Rules!OpenTmp, Rules!At, RuWriting, RulesInv, RuSoundInv, RuAloneInv, Rules!RulesAreSound
<1>1. CASE UNCHANGED ruleTmp /\ Rules!Ends(e)
  BY <1>0, <1>1, RuEndsKeeps DEF RulesInv, RuSoundInv
<1>2. CASE ruleTmp' = Rules!HalfWritten /\ Rules!To(e, "write")
  <2>1. /\ RuStep(e) /\ RuHandOf(e)' /\ editor'[e].pc = "write" /\ editor'[e].op = editor[e].op
        /\ editor'[e].rule = editor[e].rule /\ editor'[e].root = editor[e].root
    BY <1>0, <1>2, RuGoesOn DEF RuWriting
  <2>2. ASSUME RuKeptBy(e) PROVE RuKeptBy(e)'
    BY <1>0, <2>1, <2>2, RuSameFile DEF RuKeptBy, RuInHand, Rules!At, RuWriting
  <2>. QED BY <1>0, <1>2, <2>1, <2>2, RuStepKeeps DEF RuGoodFile, Rules!At
<1>. QED BY <1>1, <1>2 DEF Rules!OpenTmp

LEMMA RuWriteKeeps == ASSUME RulesInv, NEW e \in Editors, Rules!WriteTmp(e) PROVE RulesInv'
<1>0. /\ Rules!At(e, "write") /\ editor[e].pc \in RuWriting /\ ~Rules!At(e, "idle") /\ ~Rules!At(e, "rename") /\ ~Rules!At(e, "adopt")
      /\ UNCHANGED <<ruleFile, rules, accepted, lost, overlapped>>
      /\ lost' \in BOOLEAN /\ RuGoodFile(ruleFile)' /\ Rules!RulesAreSound'
  BY DEF Rules!WriteTmp, Rules!At, RuWriting, RulesInv, RuSoundInv, RuAloneInv, Rules!RulesAreSound
<1>1. CASE ruleTmp' = Rules!NoRuleFile /\ Rules!Ends(e)
  BY <1>0, <1>1, RuEndsKeeps DEF RuGoodFile
<1>2. CASE ruleTmp' = Rules!Json(editor[e].root) /\ Rules!To(e, "remove")
  <2>1. /\ RuStep(e) /\ RuHandOf(e)' /\ editor'[e].pc = "remove" /\ editor'[e].op = editor[e].op
        /\ editor'[e].rule = editor[e].rule /\ editor'[e].root = editor[e].root
    BY <1>0, <1>2, RuGoesOn DEF RuWriting
  <2>2. ASSUME RuKeptBy(e) PROVE RuKeptBy(e)'
    BY <1>0, <1>2, <2>1, <2>2, RuSameFile DEF RuKeptBy, RuInHand, Rules!At, RuWriting
  <2>3. RuGoodFile(ruleTmp)'
    BY <1>0, <1>2, RuJsonIsWhole DEF RuGoodFile, RulesInv, RuSoundInv, RuHandOf
  <2>. QED BY <1>0, <2>1, <2>2, <2>3, RuStepKeeps DEF Rules!At
<1>. QED BY <1>1, <1>2 DEF Rules!WriteTmp

LEMMA RuRemoveKeeps == ASSUME RulesInv, NEW e \in Editors, Rules!RemoveFile(e) PROVE RulesInv'
<1>0. /\ Rules!At(e, "remove") /\ editor[e].pc \in RuWriting /\ ~Rules!At(e, "idle") /\ ~Rules!At(e, "rename") /\ ~Rules!At(e, "adopt")
      /\ UNCHANGED <<rules, accepted, lost, overlapped>>
      /\ lost' \in BOOLEAN /\ Rules!RulesAreSound'
  BY DEF Rules!RemoveFile, Rules!At, RuWriting, RulesInv, RuSoundInv, RuAloneInv, Rules!RulesAreSound
<1>1. CASE ruleTmp' = Rules!NoRuleFile /\ Rules!Ends(e) /\ UNCHANGED ruleFile
  BY <1>0, <1>1, RuEndsKeeps DEF RuGoodFile
<1>2. CASE ruleFile' = Rules!NoRuleFile /\ Rules!To(e, "rename") /\ UNCHANGED ruleTmp
  <2>1. /\ RuStep(e) /\ RuHandOf(e)' /\ editor'[e].pc = "rename" /\ editor'[e].op = editor[e].op
        /\ editor'[e].rule = editor[e].rule /\ editor'[e].root = editor[e].root
    BY <1>0, <1>2, RuGoesOn DEF RuWriting
  <2>2. ASSUME RuKeptBy(e) PROVE RuKeptBy(e)'
    BY <1>0, <1>2, <2>1, <2>2 DEF RuKeptBy, RuInHand, Rules!At, RuWriting
  <2>3. RuGoodFile(ruleTmp)' /\ RuGoodFile(ruleFile)'
    BY <1>2 DEF RuGoodFile, RulesInv, RuSoundInv
  <2>. QED BY <1>0, <2>1, <2>2, <2>3, RuStepKeeps DEF Rules!At
<1>. QED BY <1>1, <1>2 DEF Rules!RemoveFile

LEMMA RuRenameKeeps == ASSUME RulesInv, NEW e \in Editors, Rules!RenameTmp(e) PROVE RulesInv'
<1>0. /\ Rules!At(e, "rename") /\ editor[e].pc \in RuWriting /\ ~Rules!At(e, "idle")
      /\ UNCHANGED <<rules, overlapped>> /\ ruleTmp' = Rules!NoRuleFile
      /\ Rules!RulesAreSound' /\ RuGoodFile(ruleTmp)'
  BY DEF Rules!RenameTmp, Rules!At, RuWriting, RulesInv, RuSoundInv, Rules!RulesAreSound, RuGoodFile
<1>1. CASE lost' = TRUE /\ Rules!Ends(e) /\ UNCHANGED <<ruleFile, accepted>>
  <2>1. RuStep(e) /\ RuHandOf(e)' /\ Rules!At(e, "idle")'
    BY <1>0, <1>1, RuEndsTyped
  <2>2. ~Rules!At(e, "adopt")' /\ RuGoodFile(ruleFile)'
    BY <1>1, <2>1 DEF Rules!At, RulesInv, RuSoundInv
  <2>. QED BY <1>0, <1>1, <2>1, <2>2, RuStepKeeps
<1>2. CASE /\ ruleTmp # Rules!NoRuleFile /\ ruleFile' = ruleTmp /\ Rules!To(e, "adopt") /\ UNCHANGED lost
           /\ accepted' = IF overlapped THEN accepted
                          ELSE Rules!Applied(editor[e].op, accepted, editor[e].rule)
  <2>0. lost' \in BOOLEAN
    BY <1>2 DEF RulesInv, RuAloneInv
  <2>1. /\ RuStep(e) /\ RuHandOf(e)' /\ editor'[e].pc = "adopt" /\ editor'[e].op = editor[e].op
        /\ editor'[e].op \in RuEdits /\ editor'[e].root = editor[e].root
    BY <1>0, <1>2, <2>0, RuGoesOn
  <2>2. RuGoodFile(ruleFile)' /\ editor'[e].op # "reload"
    BY <1>2, <2>1 DEF RulesInv, RuSoundInv, RuGoodFile, RuEdits
  <2>3. CASE overlapped
    <3>1. RuSoundInv' /\ RuAloneInv'
      BY <1>0, <2>1, <2>2, RuStepSound, RuStepAlone
    <3>2. ASSUME NEW o \in Editors, Rules!At(o, "adopt")', editor'[o].op = "reload", editor'[o].alone
          PROVE  FALSE
      <4>1. o # e
        BY <2>2, <3>2
      <4>2. editor[o].alone /\ ~Rules!At(o, "idle")
        BY <2>1, <3>2, <4>1 DEF RuStep, Rules!At
      <4>. QED BY <1>0, <4>1, <4>2 DEF RulesInv, RuAloneInv, Rules!OthersRest
    <3>3. RuKeptInv'
      BY <1>0, <2>3, <3>2 DEF RuKeptInv
    <3>. QED BY <3>1, <3>3 DEF RulesInv
  <2>4. CASE ~overlapped
    <3>1. ASSUME RuKeptBy(e) PROVE RuKeptBy(e)'
      <4>1. ruleFile' = Rules!Json(editor[e].root)
              /\ Rules!RulesOfRoot(editor[e].root) = accepted'
        BY <1>0, <1>2, <2>4, <3>1 DEF RuKeptBy, RuInHand, Rules!At
      <4>2. Rules!ReadFile' = Rules!Json(editor[e].root)
        BY <4>1, RuJsonIsWhole DEF Rules!ReadFile
      <4>3. RuGood(editor[e].root)
        BY <1>0 DEF RulesInv, RuSoundInv, RuHandOf
      <4>4. Rules!FileLoads' /\ Rules!ReadFile'.array = editor[e].root
        BY <4>2, <4>3, RuJsonIsWhole DEF Rules!FileLoads, RuGood
      <4>5. RuInHand(e)'
        BY <2>1, <4>2 DEF RuInHand, Rules!At, RuWriting
      <4>. QED BY <2>1, <2>2, <4>1, <4>4, <4>5 DEF RuKeptBy, Rules!At
    <3>. QED BY <1>0, <1>2, <2>1, <2>2, <3>1, RuStepKeeps
  <2>. QED BY <2>0, <2>3, <2>4 DEF RulesInv, RuAloneInv
<1>. QED BY <1>0, <1>1, <1>2 DEF Rules!RenameTmp

(* Adopting what was written or read.                                       *)
LEMMA RuAdoptKeeps == ASSUME RulesInv, NEW e \in Editors, Rules!Adopt(e) PROVE RulesInv'
<1>. DEFINE root == editor[e].root  settles == editor[e].op = "reload" /\ editor[e].alone
<1>0. /\ Rules!At(e, "adopt") /\ ~Rules!At(e, "idle") /\ ~Rules!At(e, "rename") /\ RuGood(root)
      /\ rules' = Rules!RulesOfRoot(root) /\ Rules!Ends(e) /\ UNCHANGED <<ruleFile, ruleTmp>>
      /\ overlapped' = (overlapped /\ ~settles) /\ lost' = (lost /\ ~settles)
      /\ accepted' = IF settles THEN Rules!RulesOfRoot(root) ELSE accepted
  BY DEF Rules!Adopt, Rules!At, RulesInv, RuSoundInv, RuHandOf
<1>1. /\ editor' \in [Editors -> RuEditorRecords] /\ editor'[e] = Rules!Resting
      /\ Rules!Resting.pc = "idle" /\ Rules!Resting.op = "none"
      /\ \A o \in Editors \ {e} : editor'[o] = editor[o]
  BY <1>0 DEF Rules!Ends, RulesInv, RuSoundInv, Rules!Resting, RuEditorRecords, RuPlaces, RuWriting
<1>. HIDE DEF Rules!Resting
<1>2. RuGoodFile(ruleFile)' /\ RuGoodFile(ruleTmp)' /\ Rules!ReadFile' = Rules!ReadFile /\ (Rules!FileLoads' <=> Rules!FileLoads)
  BY <1>0, RuSameFile DEF RulesInv, RuSoundInv
<1>3. Rules!RulesAreSound'
  BY <1>0, RuGoodParses DEF Rules!RulesAreSound, RuDistinct
<1>4. RuSoundInv'
  <2>1. \A o \in Editors : RuHandOf(o)'
    BY <1>1 DEF RulesInv, RuSoundInv, RuHandOf, Rules!At, RuWriting, RuEdits
  <2>. QED BY <1>1, <1>2, <1>3, <2>1 DEF RuSoundInv
<1>5. Rules!At(e, "idle")' /\ ~Rules!At(e, "adopt")' /\ RuInHand(e)'
  BY <1>1 DEF Rules!At, RuInHand, RuWriting
<1>6. CASE settles
  <2>1. Rules!OthersRest(e)
    BY <1>0, <1>6 DEF RulesInv, RuAloneInv
  <2>2. \A o \in Editors : Rules!At(o, "idle")'
    BY <1>1, <1>5, <2>1 DEF Rules!OthersRest, Rules!At
  <2>3. RuAloneInv'
    BY <1>0, <1>6, <2>2 DEF RuAloneInv
  <2>4. Rules!ReadFile = Rules!Json(root)
    BY <1>0, <1>6 DEF RulesInv, RuKeptInv
  <2>5. Rules!FileLoads' /\ Rules!ReadFile'.array = root /\ accepted' = Rules!RulesOfRoot(root)
    BY <1>0, <1>2, <1>6, <2>4, RuWrittenLoads
  <2>6. RuKeptBy(e)' /\ Rules!OthersRest(e)'
    BY <1>0, <1>5, <2>2, <2>5 DEF RuKeptBy, Rules!OthersRest
  <2>7. \A o \in Editors : ~Rules!At(o, "adopt")'
    BY <2>2 DEF Rules!At
  <2>8. RuKeptInv'
    BY <2>6, <2>7, RuKeptAloneNext DEF RuKeptInv
  <2>. QED BY <1>4, <2>3, <2>8 DEF RulesInv
<1>7. CASE ~settles
  <2>1. UNCHANGED <<overlapped, lost, accepted>>
    BY <1>0, <1>7 DEF RulesInv, RuAloneInv
  <2>2. RuStep(e) /\ RuHandOf(e)'
    BY <1>0, <1>4, <1>5, <1>1, <2>1 DEF RuStep, RulesInv, RuAloneInv, RuSoundInv
  <2>3. ASSUME RuKeptBy(e) PROVE RuKeptBy(e)'
    <3>1. Rules!ReadFile = Rules!Json(root) /\ Rules!FileLoads /\ Rules!RulesOfRoot(Rules!ReadFile.array) = accepted
      BY <1>0, <2>3 DEF RuKeptBy, RuInHand
    <3>2. rules' = accepted
      BY <1>0, <3>1, RuJsonIsWhole
    <3>. QED BY <1>2, <1>5, <2>1, <3>1, <3>2 DEF RuKeptBy
  <2>. QED BY <1>2, <1>3, <1>5, <2>1, <2>2, <2>3, RuStepKeeps
<1>. QED BY <1>6, <1>7

(* The power fails, and the next boot reads the file.                      *)
LEMMA RuPowerKeeps == ASSUME Rules!RulesStoreBounds, RulesInv, Rules!PowerFails PROVE RulesInv'
<1>0. /\ Rules!FileLoads /\ rules' = Rules!RulesOfRoot(Rules!ReadFile.array)
      /\ editor' = [e \in Editors |-> Rules!Resting]
      /\ lost' = (lost \/ \E e \in Editors : Rules!At(e, "rename"))
      /\ UNCHANGED <<ruleFile, ruleTmp, accepted, overlapped>>
  BY DEF Rules!PowerFails
<1>1. \A e \in Editors : editor'[e] = Rules!Resting
  BY <1>0
<1>2. Rules!Resting \in RuEditorRecords /\ Rules!Resting.pc = "idle" /\ Rules!Resting.op = "none"
  BY DEF Rules!Resting, RuEditorRecords, RuPlaces, RuWriting
<1>3. \A e \in Editors : /\ Rules!At(e, "idle")' /\ ~Rules!At(e, "adopt")' /\ ~Rules!At(e, "rename")'
                         /\ RuHandOf(e)' /\ RuInHand(e)'
  BY <1>1, <1>2 DEF Rules!At, RuHandOf, RuInHand, RuWriting, RuEdits
<1>4. RuGood(Rules!ReadFile.array)
  BY <1>0, RuReadIsGood DEF RulesInv, RuSoundInv
<1>5. Rules!RulesAreSound'
  BY <1>0, <1>4, RuGoodParses DEF Rules!RulesAreSound, RuDistinct
<1>6. RuSoundInv'
  BY <1>0, <1>2, <1>3, <1>5 DEF RuSoundInv, RulesInv
<1>7. RuAloneInv'
  BY <1>0, <1>3 DEF RuAloneInv, RulesInv
<1>8. RuKeptInv'
  <2>1. ASSUME ~lost', ~overlapped' PROVE RuFileIsKept' /\ RuMemoryIsKept'
    <3>1. Rules!FileLoads /\ Rules!RulesOfRoot(Rules!ReadFile.array) = accepted
      BY <1>0, <2>1 DEF RulesInv, RuKeptInv, RuFileIsKept
    <3>. QED BY <1>0, <3>1, RuSameFile DEF RuFileIsKept, RuMemoryIsKept
  <2>. QED BY <1>3, <2>1 DEF RuKeptInv
<1>. QED BY <1>6, <1>7, <1>8 DEF RulesInv

-----------------------------------------------------------------------------
LEMMA RulesStart == ASSUME Rules!RulesStoreBounds, Rules!Init PROVE RulesInv
<1>0. RuGood(<<>>) /\ Rules!RulesOfRoot(<<>>) = <<>>
  BY RuNothingIsGood
<1>1. Rules!Resting \in RuEditorRecords /\ Rules!Resting.pc = "idle" /\ Rules!Resting.op = "none"
  BY DEF Rules!Resting, RuEditorRecords, RuPlaces, RuWriting
<1>2. \A e \in Editors : /\ editor[e] = Rules!Resting /\ Rules!At(e, "idle") /\ ~Rules!At(e, "adopt")
                         /\ RuHandOf(e) /\ RuInHand(e)
  BY <1>1 DEF Rules!Init, Rules!At, RuHandOf, RuInHand, RuWriting, RuEdits
<1>3. RuSoundInv
  BY <1>1, <1>2 DEF Rules!Init, RuSoundInv, RuGoodFile, Rules!RulesAreSound
<1>4. RuAloneInv
  BY <1>2 DEF Rules!Init, RuAloneInv
<1>5. Rules!FileLoads /\ Rules!RulesOfRoot(Rules!ReadFile.array) = accepted /\ rules = accepted
  BY <1>0, RuJsonIsWhole DEF Rules!Init, Rules!FileLoads, Rules!ReadFile, RuGood
<1>6. RuKeptInv
  BY <1>2, <1>5 DEF RuKeptInv, RuFileIsKept, RuMemoryIsKept
<1>. QED BY <1>3, <1>4, <1>6 DEF RulesInv

LEMMA RulesStep == ASSUME Rules!RulesStoreBounds, RulesInv, [Rules!Next]_(Rules!rulesVars) PROVE RulesInv'
<1>1. ASSUME NEW e \in Editors, Rules!BeginEdit(e) \/ Rules!BeginDelete(e) \/ Rules!BeginReload(e) PROVE RulesInv'
  <2>1. CASE Rules!BeginEdit(e)
    <3>1. PICK op \in {"add", "update"}, object \in Rules!Offered : Rules!Begins(e, op, Rules!ParseRule(object))
      BY <2>1 DEF Rules!BeginEdit
    <3>2. Rules!ParseRule(object) \in Rules!AllRules
      BY DEF Rules!ParseRule, Rules!AllRules, Rules!Offered
    <3>. QED BY <3>1, <3>2, RuBeginKeeps DEF RuEdits
  <2>2. CASE Rules!BeginDelete(e)
    <3>1. PICK id \in RuleIds : Rules!Begins(e, "delete", Rules!ParseRule([id |-> id, keys |-> {}]))
      BY <2>2 DEF Rules!BeginDelete
    <3>2. Rules!ParseRule([id |-> id, keys |-> {}]) \in Rules!AllRules
      BY DEF Rules!ParseRule, Rules!AllRules
    <3>. QED BY <3>1, <3>2, RuBeginKeeps DEF RuEdits
  <2>3. CASE Rules!BeginReload(e)
    BY <2>3, RuBeginKeeps DEF Rules!BeginReload, RuEdits
  <2>. QED BY <1>1, <2>1, <2>2, <2>3
<1>2. ASSUME NEW e \in Editors,
             \/ Rules!LoadAndEdit(e) \/ Rules!OpenTmp(e) \/ Rules!WriteTmp(e) \/ Rules!RemoveFile(e) \/ Rules!RenameTmp(e)
             \/ Rules!Adopt(e)
      PROVE  RulesInv'
  BY <1>2, RuLoadKeeps, RuOpenKeeps, RuWriteKeeps, RuRemoveKeeps, RuRenameKeeps, RuAdoptKeeps
<1>3. CASE UNCHANGED Rules!rulesVars
  BY <1>3 DEF Rules!rulesVars, RulesInv, RuSoundInv, RuAloneInv, RuKeptInv, Rules!RulesAreSound, RuHandOf, Rules!At, Rules!OthersRest,
     RuFileIsKept, RuMemoryIsKept, RuInHand, Rules!ReadFile, Rules!FileLoads
<1>. QED BY <1>1, <1>2, <1>3, RuPowerKeeps DEF Rules!Next

-----------------------------------------------------------------------------
(* The file loads at every moment: what an editor that is alone renames is a *)
(* whole array.                                                             *)
RuLoadsInv ==
  ~overlapped =>
    /\ Rules!FileLoads
    /\ \A e \in Editors : editor[e].pc \in {"remove", "rename"} => ruleTmp = Rules!Json(editor[e].root)

LEMMA RuNoFileLoads == ASSUME Rules!RulesStoreBounds, ruleFile = Rules!NoRuleFile PROVE Rules!FileLoads
BY RuNothingIsGood, RuJsonIsWhole DEF Rules!FileLoads, Rules!ReadFile, RuGood

LEMMA RuArrayLoads ==
  ASSUME NEW array, RuGood(array), ruleFile = Rules!Json(array) PROVE Rules!FileLoads
<1>1. Rules!ReadFile = Rules!Json(array)
  BY RuJsonIsWhole DEF Rules!ReadFile
<1>. QED BY <1>1, RuWrittenLoads

LEMMA RuLoadsStart == ASSUME Rules!RulesStoreBounds, Rules!Init PROVE RuLoadsInv
BY RuNoFileLoads DEF RuLoadsInv, Rules!Init, Rules!Resting

(* An editor that is not yet at the remove step, and begins or ends.        *)
LEMMA RuLoadsAside ==
  ASSUME RuLoadsInv, ~overlapped, UNCHANGED ruleFile, NEW e \in Editors, Rules!OthersRest(e),
         \A o \in Editors \ {e} : editor'[o].pc = editor[o].pc,
         editor'[e].pc \notin {"remove", "rename"}
  PROVE  RuLoadsInv'
<1>1. \A o \in Editors : editor'[o].pc \notin {"remove", "rename"}
  BY DEF Rules!OthersRest, Rules!At
<1>. QED BY <1>1, RuSameFile DEF RuLoadsInv

LEMMA RuLoadsStep ==
  ASSUME Rules!RulesStoreBounds, RulesInv, RuLoadsInv, [Rules!Next]_(Rules!rulesVars) PROVE RuLoadsInv'
<1>. SUFFICES ASSUME ~overlapped' PROVE RuLoadsInv'
  BY DEF RuLoadsInv
<1>0. /\ editor \in [Editors -> RuEditorRecords]
      /\ \A o \in Editors : RuHandOf(o)
      /\ ~overlapped => \A o \in Editors : ~Rules!At(o, "idle") => Rules!OthersRest(o)
  BY DEF RulesInv, RuSoundInv, RuAloneInv
<1>1. ASSUME NEW e \in Editors, Rules!Resting.pc = "idle", Rules!Ends(e), UNCHANGED <<ruleFile, overlapped>>,
             ~Rules!At(e, "idle")
      PROVE  RuLoadsInv'
  <2>1. editor'[e].pc = "idle" /\ \A o \in Editors \ {e} : editor'[o].pc = editor[o].pc
    BY <1>0, <1>1 DEF Rules!Ends
  <2>. QED BY <1>0, <1>1, <2>1, RuLoadsAside
<1>2. Rules!Resting.pc = "idle"
  BY DEF Rules!Resting
<1>3. ASSUME NEW e \in Editors, NEW op, NEW rule, Rules!Begins(e, op, rule) PROVE RuLoadsInv'
  <2>1. ~overlapped /\ Rules!OthersRest(e) /\ UNCHANGED ruleFile
    BY <1>3 DEF Rules!Begins
  <2>2. editor'[e].pc = "load" /\ \A o \in Editors \ {e} : editor'[o].pc = editor[o].pc
    BY <1>0, <1>3 DEF Rules!Begins, RuEditorRecords
  <2>. QED BY <2>1, <2>2, RuLoadsAside
<1>4. ASSUME NEW e \in Editors, Rules!LoadAndEdit(e) \/ Rules!OpenTmp(e) PROVE RuLoadsInv'
  <2>1. ~Rules!At(e, "idle") /\ UNCHANGED <<ruleFile, overlapped>> /\ ~overlapped
    BY <1>4 DEF Rules!LoadAndEdit, Rules!OpenTmp, Rules!At
  <2>2. \A o \in Editors \ {e} : editor'[o].pc = editor[o].pc
    BY <1>0, <1>4 DEF Rules!LoadAndEdit, Rules!OpenTmp, Rules!Ends, Rules!To
  <2>3. editor'[e].pc \in {"idle", "adopt", "open", "write"}
    BY <1>0, <1>2, <1>4 DEF Rules!LoadAndEdit, Rules!OpenTmp, Rules!Ends, Rules!To, RuEditorRecords
  <2>. QED BY <1>0, <2>1, <2>2, <2>3, RuLoadsAside
<1>5. ASSUME NEW e \in Editors, Rules!WriteTmp(e) PROVE RuLoadsInv'
  <2>1. Rules!At(e, "write") /\ ~Rules!At(e, "idle") /\ UNCHANGED <<ruleFile, overlapped>> /\ ~overlapped
    BY <1>5 DEF Rules!WriteTmp, Rules!At
  <2>2. CASE Rules!Ends(e)
    BY <1>1, <1>2, <2>1, <2>2
  <2>3. CASE ruleTmp' = Rules!Json(editor[e].root) /\ Rules!To(e, "remove")
    <3>1. editor'[e].root = editor[e].root
      BY <1>0, <2>3 DEF Rules!To, RuEditorRecords
    <3>2. \A o \in Editors \ {e} : editor'[o].pc = "idle"
      BY <1>0, <2>1, <2>3 DEF Rules!To, Rules!OthersRest, Rules!At
    <3>. QED BY <2>1, <2>3, <3>1, <3>2, RuSameFile DEF RuLoadsInv
  <2>. QED BY <1>5, <2>2, <2>3 DEF Rules!WriteTmp
<1>6. ASSUME NEW e \in Editors, Rules!RemoveFile(e) PROVE RuLoadsInv'
  <2>1. Rules!At(e, "remove") /\ ~Rules!At(e, "idle") /\ UNCHANGED overlapped /\ ~overlapped
    BY <1>6 DEF Rules!RemoveFile, Rules!At
  <2>2. CASE Rules!Ends(e) /\ UNCHANGED ruleFile
    BY <1>1, <1>2, <2>1, <2>2
  <2>3. CASE ruleFile' = Rules!NoRuleFile /\ Rules!To(e, "rename") /\ UNCHANGED ruleTmp
    <3>1. editor'[e].root = editor[e].root /\ ruleTmp = Rules!Json(editor[e].root)
      BY <1>0, <2>1, <2>3 DEF Rules!To, RuEditorRecords, RuLoadsInv, Rules!At
    <3>2. \A o \in Editors \ {e} : editor'[o].pc = "idle"
      BY <1>0, <2>1, <2>3 DEF Rules!To, Rules!OthersRest, Rules!At
    <3>3. Rules!FileLoads'
      BY <2>3, RuNothingIsGood, RuJsonIsWhole DEF Rules!FileLoads, Rules!ReadFile, RuGood
    <3>. QED BY <2>3, <3>1, <3>2, <3>3 DEF RuLoadsInv
  <2>. QED BY <1>6, <2>2, <2>3 DEF Rules!RemoveFile
<1>7. ASSUME NEW e \in Editors, Rules!RenameTmp(e) PROVE RuLoadsInv'
  <2>1. Rules!At(e, "rename") /\ ~Rules!At(e, "idle") /\ UNCHANGED overlapped /\ ~overlapped
    BY <1>7 DEF Rules!RenameTmp, Rules!At
  <2>2. CASE Rules!Ends(e) /\ UNCHANGED ruleFile
    BY <1>1, <1>2, <2>1, <2>2
  <2>3. CASE ruleFile' = ruleTmp /\ Rules!To(e, "adopt")
    <3>1. ruleFile' = Rules!Json(editor[e].root) /\ RuGood(editor[e].root)
      BY <1>0, <2>1, <2>3 DEF RuLoadsInv, RuHandOf, Rules!At, RuWriting
    <3>2. Rules!ReadFile' = Rules!Json(editor[e].root)
      BY <3>1, RuJsonIsWhole DEF Rules!ReadFile
    <3>3. Rules!FileLoads'
      BY <3>1, <3>2, RuJsonIsWhole DEF Rules!FileLoads, RuGood
    <3>4. \A o \in Editors : editor'[o].pc \notin {"remove", "rename"}
      BY <1>0, <2>1, <2>3 DEF Rules!To, Rules!OthersRest, Rules!At, RuEditorRecords
    <3>. QED BY <3>3, <3>4 DEF RuLoadsInv
  <2>. QED BY <1>7, <2>2, <2>3 DEF Rules!RenameTmp
<1>8. ASSUME NEW e \in Editors, Rules!Adopt(e) PROVE RuLoadsInv'
  <2>1. Rules!At(e, "adopt") /\ ~Rules!At(e, "idle") /\ Rules!Ends(e) /\ UNCHANGED ruleFile
    BY <1>8 DEF Rules!Adopt, Rules!At
  <2>2. editor'[e].pc = "idle" /\ \A o \in Editors \ {e} : editor'[o].pc = editor[o].pc
    BY <1>0, <1>2, <2>1 DEF Rules!Ends
  <2>3. CASE editor[e].op = "reload" /\ editor[e].alone
    <3>1. Rules!ReadFile = Rules!Json(editor[e].root) /\ RuGood(editor[e].root)
      BY <1>0, <2>1, <2>3 DEF RulesInv, RuKeptInv, RuHandOf, Rules!At
    <3>2. Rules!FileLoads'
      BY <2>1, <3>1, RuWrittenLoads, RuSameFile
    <3>3. \A o \in Editors : editor'[o].pc = "idle"
      BY <2>1, <2>2, <2>3 DEF RulesInv, RuAloneInv, Rules!OthersRest, Rules!At
    <3>. QED BY <3>2, <3>3 DEF RuLoadsInv
  <2>4. CASE ~(editor[e].op = "reload" /\ editor[e].alone)
    <3>1. UNCHANGED overlapped
      BY <1>8, <2>4 DEF Rules!Adopt, RulesInv, RuAloneInv
    <3>. QED BY <1>1, <1>2, <2>1, <3>1
  <2>. QED BY <2>3, <2>4
<1>9. CASE Rules!PowerFails
  <2>1. Rules!FileLoads' /\ \A o \in Editors : editor'[o].pc = "idle"
    BY <1>2, <1>9, RuSameFile DEF Rules!PowerFails
  <2>. QED BY <2>1 DEF RuLoadsInv
<1>10. CASE UNCHANGED Rules!rulesVars
  BY <1>10 DEF Rules!rulesVars, RuLoadsInv, Rules!FileLoads, Rules!ReadFile
<1>11. CASE Rules!Next
  BY <1>3, <1>4, <1>5, <1>6, <1>7, <1>8, <1>9, <1>11
     DEF Rules!Next, Rules!BeginEdit, Rules!BeginDelete, Rules!BeginReload
<1>. QED BY <1>10, <1>11

LEMMA RulesInvariant == ASSUME Rules!RulesStoreBounds PROVE Rules!Spec => [](RulesInv /\ RuLoadsInv)
<1>1. Rules!Init => RulesInv /\ RuLoadsInv
  BY RulesStart, RuLoadsStart
<1>2. (RulesInv /\ RuLoadsInv) /\ [Rules!Next]_(Rules!rulesVars) => (RulesInv /\ RuLoadsInv)'
  BY RulesStep, RuLoadsStep
<1>. QED BY <1>1, <1>2, PTL DEF Rules!Spec

(* Whoever edits, and whenever the power fails, the rules in force have     *)
(* different ids and are valid (claw_event_router.c:518-543, 2691).         *)
THEOREM RulesStaySound == ASSUME Rules!RulesStoreBounds PROVE Rules!Spec => []Rules!RulesAreSound
<1>1. RulesInv => Rules!RulesAreSound
  BY DEF RulesInv, RuSoundInv
<1>. QED BY <1>1, RulesInvariant, PTL

(* As long as no two editors work together the rules file loads or is       *)
(* missing, whatever fails and whenever the power does, and between edits    *)
(* file and memory hold what the edits that returned ESP_OK made, and        *)
(* nothing else, unless a failure came between remove and rename             *)
(* (claw_event_router.c:1011-1055, 1057-1131).                              *)
THEOREM EditsStayKept == ASSUME Rules!RulesStoreBounds PROVE Rules!Spec => []Rules!EditsAreKept
<1>1. RulesInv /\ RuLoadsInv => Rules!EditsAreKept
  BY DEF RulesInv, RuKeptInv, RuLoadsInv, Rules!EditsAreKept, Rules!Quiet, RuFileIsKept, RuMemoryIsKept, Rules!At
<1>. QED BY <1>1, RulesInvariant, PTL

-----------------------------------------------------------------------------
(***************************************************************************)
(* The sessions of a chat and the subagents of a session.                  *)
(***************************************************************************)

MaAliases == Maps!Aliases \cup {Maps!NoAlias}
MaFiles == [state : {"missing", "damaged", "whole"}, sessions : Seq(Maps!Aliases), current : MaAliases]
MaChildFiles == [state : {"missing", "damaged", "whole"}, next : 1..(MaxSuffix + 1), ids : Seq(Maps!ChildIds)]

(* A map that is whole was checked before it was written.                   *)
MaChats ==
  /\ chatMap \in [ChatKeys -> MaFiles]
  /\ \A c \in ChatKeys : /\ chatMap[c].state = "whole" => Maps!IsSound(chatMap[c])
                         /\ chatMap[c].state = "missing" => chatMap[c].sessions = <<>>

MaRest ==
  /\ configured \in BOOLEAN /\ faultsLeft \in 0..MaxFaults
  /\ unopened \subseteq ChatKeys \cup Maps!Parents
  /\ sessionFiles \subseteq Maps!SessionIds /\ late \subseteq Maps!SessionIds
  /\ turns \in Seq(Maps!SessionIds)

(* A map of children that was never damaged nor taken for a missing one.    *)
MaTold(p) == childMap[p].state # "damaged" /\ p \notin unopened

(* The suffixes from the next one on are new.                               *)
MaChildren ==
  /\ childMap \in [Maps!Parents -> MaChildFiles]
  /\ \A p \in Maps!Parents : Len(childMap[p].ids) <= MaxChildren
  /\ handedOut \in [Maps!ChildIds -> Nat]
  /\ \A id \in Maps!ChildIds : id[1] \in unopened \/ handedOut[id] <= 1
  /\ childFiles \subseteq Maps!ChildIds
  /\ \A p \in Maps!Parents : childMap[p].state # "damaged" =>
       \A i \in 1..MaxSuffix : Maps!HasChild(childMap[p], <<p, i>>) => i < childMap[p].next
  /\ \A p \in Maps!Parents : MaTold(p) =>
       \A i \in 1..MaxSuffix : handedOut[<<p, i>>] # 0 => i < childMap[p].next
  /\ \A id \in childFiles : MaTold(id[1]) => Maps!HasChild(childMap[id[1]], id)

MapsInv == MaChats /\ MaRest /\ MaChildren /\ Maps!HistoriesAreListed

MaOutcomes == {"refused", "half", "whole"}

(* An opening that fails is noted.                                          *)
LEMMA MaOpens ==
  ASSUME MaRest, Maps!SessionMapsBounds, NEW owner \in ChatKeys \cup Maps!Parents, NEW map,
         NEW opens \in BOOLEAN, Maps!Opening(owner, map, opens)
  PROVE  /\ faultsLeft' \in 0..MaxFaults /\ unopened' \subseteq ChatKeys \cup Maps!Parents
         /\ unopened \subseteq unopened' /\ unopened' \subseteq unopened \cup {owner}
         /\ ~opens => owner \in unopened'
<1>1. MaxFaults \in Nat /\ faultsLeft \in 0..MaxFaults
  BY DEF MaRest, Maps!SessionMapsBounds
<1>2. CASE opens
  BY <1>1, <1>2 DEF MaRest, Maps!Opening, Maps!faultVars
<1>3. CASE ~opens
  <2>1. faultsLeft' = faultsLeft - 1 /\ faultsLeft > 0 /\ unopened' = unopened \cup {owner}
    BY <1>3 DEF Maps!Opening
  <2>2. faultsLeft' \in 0..MaxFaults
    BY <1>1, <2>1
  <2> QED BY <2>1, <2>2 DEF MaRest
<1> QED BY <1>2, <1>3

LEMMA MaWithout ==
  ASSUME NEW S, NEW s \in Seq(S), NEW x, x \in Maps!ToSet(s)
  PROVE  /\ Maps!Without(s, x) \in Seq(S) /\ Len(Maps!Without(s, x)) = Len(s) - 1
         /\ \A y \in Maps!ToSet(s) : y # x => y \in Maps!ToSet(Maps!Without(s, x))
         /\ Maps!ToSet(Maps!Without(s, x)) \subseteq Maps!ToSet(s)
<1> DEFINE i == CHOOSE k \in DOMAIN s : s[k] = x
           n == Len(s)
           w == Maps!Without(s, x)
<1>1. i \in 1..n /\ s[i] = x /\ n \in Nat
  BY DEF Maps!ToSet
<1>2. w = SubSeq(s, 1, i - 1) \o SubSeq(s, i + 1, n)
  BY DEF Maps!Without, Maps!RemoveAt
<1> HIDE DEF i, w, n
<1>3. /\ SubSeq(s, 1, i - 1) \in Seq(S) /\ Len(SubSeq(s, 1, i - 1)) = i - 1
      /\ \A k \in 1..(i - 1) : SubSeq(s, 1, i - 1)[k] = s[k]
  BY <1>1 DEF n
<1>4. /\ SubSeq(s, i + 1, n) \in Seq(S) /\ Len(SubSeq(s, i + 1, n)) = n - i
      /\ \A k \in 1..(n - i) : SubSeq(s, i + 1, n)[k] = s[i + k]
  BY <1>1 DEF n
<1>5. w \in Seq(S) /\ Len(w) = n - 1
  BY <1>1, <1>2, <1>3, <1>4
<1>6. ASSUME NEW k \in 1..(n - 1) PROVE w[k] = IF k < i THEN s[k] ELSE s[k + 1]
  <2> DEFINE a == SubSeq(s, 1, i - 1)
             b == SubSeq(s, i + 1, n)
  <2>1. a \in Seq(S) /\ b \in Seq(S) /\ Len(a) = i - 1 /\ Len(b) = n - i /\ w = a \o b
    BY <1>2, <1>3, <1>4
  <2>2. (k < i => a[k] = s[k]) /\ (~(k < i) => b[k - (i - 1)] = s[k + 1])
    <3>1. CASE k < i
      BY <1>1, <1>3, <3>1
    <3>2. CASE ~(k < i)
      <4>1. k - (i - 1) \in 1..(n - i) /\ i + (k - (i - 1)) = k + 1
        BY <1>1, <3>2
      <4> QED BY <1>4, <3>2, <4>1
    <3> QED BY <3>1, <3>2
  <2> HIDE DEF a, b
  <2>3. w[k] = IF k <= Len(a) THEN a[k] ELSE b[k - Len(a)]
    BY <1>1, <2>1
  <2> QED BY <1>1, <2>1, <2>2, <2>3
<1>7. ASSUME NEW y \in Maps!ToSet(s), y # x PROVE y \in Maps!ToSet(w)
  <2>1. PICK k \in 1..n : s[k] = y
    BY DEF Maps!ToSet, n
  <2>2. k # i
    BY <1>1, <1>7, <2>1
  <2>3. PICK j \in 1..(n - 1) : w[j] = y
    <3>1. CASE k < i
      BY <1>1, <1>6, <2>1, <3>1
    <3>2. CASE k > i
      <4>1. k - 1 \in 1..(n - 1) /\ ~(k - 1 < i) /\ (k - 1) + 1 = k
        BY <1>1, <3>2
      <4>2. w[k - 1] = s[k]
        BY <1>6, <4>1
      <4> QED BY <2>1, <4>1, <4>2
    <3> QED BY <1>1, <2>2, <3>1, <3>2
  <2> QED BY <1>5, <2>3 DEF Maps!ToSet
<1>8. ASSUME NEW y \in Maps!ToSet(w) PROVE y \in Maps!ToSet(s)
  <2>1. PICK k \in 1..(n - 1) : w[k] = y
    BY <1>1, <1>5, <1>8 DEF Maps!ToSet
  <2>2. k \in 1..n /\ k + 1 \in 1..n /\ (y = s[k] \/ y = s[k + 1])
    BY <1>1, <1>6, <2>1
  <2> QED BY <2>2 DEF Maps!ToSet, n
<1> QED BY <1>5, <1>7, <1>8 DEF n, w

LEMMA MaAppend ==
  ASSUME NEW S, NEW s \in Seq(S), NEW x \in S
  PROVE  /\ Append(s, x) \in Seq(S) /\ Len(Append(s, x)) = Len(s) + 1
         /\ Maps!ToSet(Append(s, x)) = Maps!ToSet(s) \cup {x}
<1> DEFINE n == Len(s)
           a == Append(s, x)
<1>1. n \in Nat /\ a \in Seq(S) /\ Len(a) = n + 1 /\ DOMAIN s = 1..n /\ DOMAIN a = 1..(n + 1)
  OBVIOUS
<1>2. a[n + 1] = x /\ \A i \in 1..n : a[i] = s[i]
  OBVIOUS
<1> HIDE DEF n, a
<1>3. Maps!ToSet(a) = Maps!ToSet(s) \cup {x}
  <2>1. ASSUME NEW y \in Maps!ToSet(a) PROVE y \in Maps!ToSet(s) \cup {x}
    BY <1>1, <1>2, <2>1 DEF Maps!ToSet
  <2>2. ASSUME NEW y \in Maps!ToSet(s) \cup {x} PROVE y \in Maps!ToSet(a)
    <3>1. CASE y = x
      BY <1>1, <1>2, <3>1 DEF Maps!ToSet
    <3>2. CASE y \in Maps!ToSet(s)
      BY <1>1, <1>2, <3>2 DEF Maps!ToSet
    <3> QED BY <2>2, <3>1, <3>2
  <2> QED BY <2>1, <2>2
<1> QED BY <1>1, <1>3 DEF n, a

LEMMA MaDefaults == /\ Len(TwoDefaults) = 2 /\ DOMAIN TwoDefaults = {1, 2}
                    /\ \A i \in {1, 2} : TwoDefaults[i] \in Maps!Aliases
<1>1. Len(TwoDefaults) = 2 /\ DOMAIN TwoDefaults = {1, 2}
  BY DEF TwoDefaults
<1>2. \A i \in {1, 2} : TwoDefaults[i] \in Maps!ToSet(TwoDefaults)
  BY <1>1, Zenon DEF Maps!ToSet
<1> QED BY <1>1, <1>2 DEF Maps!Aliases

(* A map that is written is the one before, damaged or the new one.         *)
LEMMA MaWrites ==
  ASSUME MaChats, NEW chat \in ChatKeys, NEW map \in MaFiles, map.state = "whole",
         NEW outcome \in MaOutcomes, Maps!WriteMapping(chat, map, outcome)
  PROVE  /\ MaChats'
         /\ \A c \in ChatKeys : c # chat => chatMap'[c] = chatMap[c]
         /\ chatMap'[chat] \in {chatMap[chat], Maps!DamagedMap, map}
<1>1. CASE chatMap' = chatMap
  BY <1>1 DEF MaChats
<1>2. ASSUME NEW new \in {Maps!DamagedMap, map}, chatMap' = [chatMap EXCEPT ![chat] = new], Maps!IsSound(map)
      PROVE  MaChats' /\ (\A c \in ChatKeys : c # chat => chatMap'[c] = chatMap[c]) /\ chatMap'[chat] = new
  <2>1. new \in MaFiles /\ (new.state = "whole" => Maps!IsSound(new)) /\ new.state # "missing"
    <3>1. Maps!DamagedMap \in MaFiles /\ Maps!DamagedMap.state = "damaged"
      BY DEF Maps!DamagedMap, Maps!File, MaFiles, MaAliases
    <3> QED BY <1>2, <3>1
  <2> QED BY <1>2, <2>1 DEF MaChats
<1>3. chatMap' = chatMap \/ \E new \in {Maps!DamagedMap, map} : chatMap' = [chatMap EXCEPT ![chat] = new] /\ Maps!IsSound(map)
  BY DEF Maps!WriteMapping
<1> QED BY <1>1, <1>2, <1>3

(* Where a new map lists what the one before listed, a history stays listed. *)
MaHeld(id) == Maps!Listed(id) \/ chatMap[id[1]].state = "damaged" \/ id[1] \in unopened

LEMMA MaHeldStays ==
  ASSUME MaChats, NEW chat \in ChatKeys, NEW map \in MaFiles, map.state = "whole",
         NEW outcome \in MaOutcomes, Maps!WriteMapping(chat, map, outcome), unopened \subseteq unopened',
         NEW id \in Maps!SessionIds, MaHeld(id),
         chat \in unopened'
         \/ /\ chatMap[chat].state # "damaged"
            /\ chatMap[chat].state = "whole" /\ Maps!AliasExists(chatMap[chat], id[2]) => Maps!AliasExists(map, id[2]) \/ id[1] # chat
  PROVE  MaHeld(id)'
<1>0. CASE id[1] \in unopened'
  BY <1>0 DEF MaHeld
<1>1. id[1] \in ChatKeys
  BY DEF Maps!SessionIds
<1>2. CASE id[1] # chat
  <2>1. chatMap'[id[1]] = chatMap[id[1]]
    BY <1>1, <1>2, MaWrites
  <2> QED BY <2>1 DEF MaHeld, Maps!Listed
<1>3. CASE id[1] = chat /\ chatMap'[chat] = chatMap[chat]
  BY <1>3 DEF MaHeld, Maps!Listed
<1>4. CASE id[1] = chat /\ chatMap'[chat] = Maps!DamagedMap
  BY <1>4 DEF MaHeld, Maps!DamagedMap, Maps!File
<1>5. CASE id[1] = chat /\ chatMap'[chat] = map /\ id[1] \notin unopened'
  <2>1. id[2] = Maps!NoAlias \/ chatMap[chat].state = "damaged" \/ Maps!AliasExists(map, id[2])
    BY <1>5 DEF MaHeld, Maps!Listed
  <2>2. CASE id[2] = Maps!NoAlias
    BY <2>2 DEF MaHeld, Maps!Listed
  <2>3. CASE Maps!AliasExists(map, id[2])
    BY <1>5, <2>3 DEF MaHeld, Maps!Listed
  <2>4. CASE chatMap[chat].state = "damaged"
    BY <1>5, <2>4
  <2> QED BY <2>1, <2>2, <2>3, <2>4
<1> QED BY <1>0, <1>2, <1>3, <1>4, <1>5, MaWrites

-----------------------------------------------------------------------------
(* What disturbs only the map of a chat.                                    *)
LEMMA MaRestStays ==
  ASSUME MaRest, UNCHANGED <<configured, Maps!faultVars, turns, sessionFiles, late>> PROVE MaRest'
  BY DEF MaRest, Maps!faultVars

LEMMA MaRestOpens ==
  ASSUME MaRest, Maps!SessionMapsBounds, NEW owner \in ChatKeys \cup Maps!Parents, NEW map,
         NEW opens \in BOOLEAN, Maps!Opening(owner, map, opens),
         UNCHANGED <<configured, turns, sessionFiles, late>>
  PROVE  MaRest'
  BY MaOpens DEF MaRest

LEMMA MaChildrenStay ==
  ASSUME MaChildren, UNCHANGED <<childMap, childFiles, handedOut>>, unopened \subseteq unopened' PROVE MaChildren'
<1> USE DEF MaChildren, Maps!HasChild, Maps!Parents, Maps!ChildIds, MaChildFiles
<1>1. \A p : MaTold(p)' => MaTold(p)
  BY DEF MaTold
<1>2. \A id \in Maps!ChildIds : id[1] \in unopened' \/ handedOut'[id] <= 1
  OBVIOUS
<1> QED BY <1>1, <1>2

LEMMA MaListedStays ==
  ASSUME MapsInv, sessionFiles' \subseteq sessionFiles, UNCHANGED late,
         \A id \in sessionFiles' : MaHeld(id) => MaHeld(id)'
  PROVE  Maps!HistoriesAreListed'
<1>1. \A id \in sessionFiles : MaHeld(id) \/ id \in late
  BY DEF MapsInv, Maps!HistoriesAreListed, MaHeld
<1>2. \A id \in sessionFiles' : MaHeld(id)' \/ id \in late'
  BY <1>1
<1> QED BY <1>2 DEF Maps!HistoriesAreListed, MaHeld

LEMMA MaInitMapping == Maps!InitMapping \in MaFiles /\ Maps!InitMapping.state = "whole"
<1>1. <<TwoDefaults[1]>> \in Seq(Maps!Aliases) /\ TwoDefaults[1] \in MaAliases
  BY MaDefaults DEF MaAliases
<1> QED BY <1>1 DEF Maps!InitMapping, Maps!File, MaFiles

(* A map is initialised only when there is none, or it cannot be opened.    *)
LEMMA MaInits ==
  ASSUME MaChats, MaRest, Maps!SessionMapsBounds, NEW chat \in ChatKeys, NEW opens \in BOOLEAN,
         NEW outcome \in MaOutcomes, Maps!LoadOrInit(chat, opens, outcome)
  PROVE  /\ MaChats' /\ \A id \in Maps!SessionIds : MaHeld(id) => MaHeld(id)'
         /\ unopened \subseteq unopened'
<1>0. unopened \subseteq unopened' /\ (~opens => chat \in unopened')
  BY MaOpens DEF Maps!LoadOrInit
<1>1. CASE Maps!LoadMapping(chat, opens).state = "missing"
  <2>1. Maps!WriteMapping(chat, Maps!InitMapping, outcome)
    BY <1>1 DEF Maps!LoadOrInit
  <2>2. opens => chatMap[chat].state = "missing"
    BY <1>1 DEF Maps!LoadMapping
  <2> QED BY <1>0, <2>1, <2>2, MaInitMapping, MaWrites, MaHeldStays
<1>2. CASE Maps!LoadMapping(chat, opens).state # "missing"
  BY <1>0, <1>2 DEF Maps!LoadOrInit, MaChats, MaHeld, Maps!Listed
<1> QED BY <1>1, <1>2

LEMMA MaListKeeps ==
  ASSUME MapsInv, Maps!SessionMapsBounds, NEW chat \in ChatKeys, NEW opens \in BOOLEAN, NEW outcome \in MaOutcomes,
         Maps!LoadOrInit(chat, opens, outcome),
         UNCHANGED <<configured, childMap, sessionFiles, childFiles, turns, handedOut, late>>
  PROVE  MapsInv'
<1>1. MaChats' /\ (\A id \in Maps!SessionIds : MaHeld(id) => MaHeld(id)') /\ unopened \subseteq unopened'
  BY MaInits DEF MapsInv
<1>2. MaRest' /\ MaChildren'
  BY <1>1, MaRestOpens, MaChildrenStay DEF MapsInv, Maps!LoadOrInit
<1>3. Maps!HistoriesAreListed'
  BY <1>1, MaListedStays DEF MapsInv, MaRest
<1> QED BY <1>1, <1>2, <1>3 DEF MapsInv

LEMMA MaBuildKeeps ==
  ASSUME MapsInv, Maps!SessionMapsBounds, NEW chat \in ChatKeys, NEW opens \in BOOLEAN, NEW outcome \in MaOutcomes,
         Maps!BuildSessionId(chat, opens, outcome)
  PROVE  MapsInv'
<1>1. MaChats' /\ (\A id \in Maps!SessionIds : MaHeld(id) => MaHeld(id)') /\ unopened \subseteq unopened'
  <2>1. CASE configured
    BY <2>1, MaInits DEF MapsInv, Maps!BuildSessionId
  <2>2. CASE ~configured
    BY <2>2 DEF MapsInv, Maps!BuildSessionId, MaChats, MaHeld, Maps!Listed, Maps!faultVars
  <2> QED BY <2>1, <2>2
<1>2. MaChildren'
  BY <1>1, MaChildrenStay DEF MapsInv, Maps!BuildSessionId
<1>3. MaRest'
  <2>1. PICK alias \in MaAliases : turns' = Append(turns, <<chat, alias>>)
    <3>1. Maps!LoadMapping(chat, opens) \in MaFiles
      BY DEF MapsInv, MaChats, Maps!LoadMapping, Maps!NoMap, Maps!File, MaFiles, MaAliases
    <3>2. Maps!InitMapping.current \in MaAliases /\ Maps!NoAlias \in MaAliases
      BY MaInitMapping DEF MaFiles, MaAliases
    <3>3. Maps!CurrentAlias(Maps!LoadMapping(chat, opens), outcome) \in MaAliases
      BY <3>1, <3>2 DEF Maps!CurrentAlias, MaFiles
    <3> QED BY <3>2, <3>3 DEF Maps!BuildSessionId
  <2>2. turns' \in Seq(Maps!SessionIds)
    BY <2>1 DEF MapsInv, MaRest, Maps!SessionIds, MaAliases
  <2>3. UNCHANGED <<configured, sessionFiles, late>>
    BY DEF Maps!BuildSessionId
  <2>4. CASE configured
    BY <2>2, <2>3, <2>4, MaOpens DEF MapsInv, MaRest, Maps!BuildSessionId, Maps!LoadOrInit
  <2>5. CASE ~configured
    BY <2>2, <2>3, <2>5 DEF MapsInv, MaRest, Maps!BuildSessionId, Maps!faultVars
  <2> QED BY <2>4, <2>5
<1>4. Maps!HistoriesAreListed'
  BY <1>1, MaListedStays DEF MapsInv, MaRest, Maps!BuildSessionId
<1> QED BY <1>1, <1>2, <1>3, <1>4 DEF MapsInv

(* A new map that keeps the aliases of the one loaded keeps the invariant.  *)
LEMMA MaWriteKeeps ==
  ASSUME MapsInv, Maps!SessionMapsBounds, NEW chat \in ChatKeys, NEW opens \in BOOLEAN, NEW outcome \in MaOutcomes,
         Maps!Opening(chat, chatMap[chat], opens), Maps!LoadMapping(chat, opens).state # "damaged",
         NEW new \in MaFiles, new.state = "whole",
         \A a : Maps!AliasExists(Maps!LoadMapping(chat, opens), a) => Maps!AliasExists(new, a),
         Maps!WriteMapping(chat, new, outcome),
         UNCHANGED <<configured, childMap, sessionFiles, childFiles, turns, handedOut, late>>
  PROVE  MapsInv'
<1>1. unopened \subseteq unopened' /\ (~opens => chat \in unopened')
  BY MaOpens DEF MapsInv
<1>2. MaChats'
  BY MaWrites DEF MapsInv
<1>3. \A id \in Maps!SessionIds : MaHeld(id) => MaHeld(id)'
  BY <1>1, MaHeldStays DEF MapsInv, Maps!LoadMapping
<1>4. MaRest' /\ MaChildren'
  BY <1>1, MaRestOpens, MaChildrenStay DEF MapsInv
<1>5. Maps!HistoriesAreListed'
  BY <1>3, MaListedStays DEF MapsInv, MaRest
<1> QED BY <1>2, <1>4, <1>5 DEF MapsInv

LEMMA MaLoaded ==
  ASSUME MaChats, NEW chat \in ChatKeys, NEW opens \in BOOLEAN
  PROVE  Maps!LoadMapping(chat, opens) \in MaFiles
BY DEF MaChats, Maps!LoadMapping, Maps!NoMap, Maps!File, MaFiles, MaAliases

LEMMA MaNewKeeps ==
  ASSUME MapsInv, Maps!SessionMapsBounds, NEW chat \in ChatKeys, NEW alias \in Maps!Aliases, NEW opens \in BOOLEAN,
         NEW outcome \in MaOutcomes, Maps!NewChatSession(chat, alias, opens, outcome)
  PROVE  MapsInv'
<1> DEFINE map == Maps!LoadMapping(chat, opens)
           new == Maps!File("whole", Append(map.sessions, alias), alias)
<1>0. map \in MaFiles
  BY MaLoaded DEF MapsInv
<1>1. map.sessions \in Seq(Maps!Aliases) /\ map.state # "damaged"
      /\ Maps!Opening(chat, chatMap[chat], opens) /\ Maps!WriteMapping(chat, new, outcome)
      /\ UNCHANGED <<configured, childMap, sessionFiles, childFiles, turns, handedOut, late>>
  BY <1>0 DEF MaFiles, Maps!NewChatSession
<1> HIDE DEF map
<1>2. new \in MaFiles /\ new.state = "whole" /\ new.sessions = Append(map.sessions, alias)
  BY <1>1 DEF Maps!File, MaFiles, MaAliases
<1>3. \A a : Maps!AliasExists(map, a) => Maps!AliasExists(new, a)
  <2>1. Maps!ToSet(Append(map.sessions, alias)) = Maps!ToSet(map.sessions) \cup {alias}
    BY <1>1, MaAppend
  <2> HIDE DEF new
  <2> QED BY <1>2, <2>1 DEF Maps!AliasExists
<1> HIDE DEF new
<1> QED BY <1>1, <1>2, <1>3, MaWriteKeeps DEF map

(* A default alias is free as long as there are fewer sessions than defaults. *)
LEMMA MaUnnamedKeeps ==
  ASSUME MapsInv, Maps!SessionMapsBounds, NEW chat \in ChatKeys, NEW opens \in BOOLEAN, NEW outcome \in MaOutcomes,
         Maps!NewUnnamedSession(chat, opens, outcome)
  PROVE  MapsInv'
<1> DEFINE map == Maps!LoadMapping(chat, opens)
           free == {i \in DOMAIN TwoDefaults : ~Maps!AliasExists(map, TwoDefaults[i])}
<1>1. Len(map.sessions) \in {0, 1} /\ map.sessions \in Seq(Maps!Aliases)
  <2>1. map.sessions \in Seq(Maps!Aliases)
    BY MaLoaded DEF MapsInv, MaFiles
  <2>2. Len(map.sessions) < 2
    BY MaDefaults DEF Maps!NewUnnamedSession
  <2>3. Len(map.sessions) \in Nat
    BY <2>1
  <2> DEFINE n == Len(map.sessions)
  <2>4. n \in Nat /\ n < 2
    BY <2>2, <2>3
  <2> HIDE DEF n
  <2>5. n \in {0, 1}
    BY <2>4
  <2> QED BY <2>1, <2>5 DEF n
<1>2. free \subseteq {1, 2} /\ free # {}
  <2>1. TwoDefaults[1] # TwoDefaults[2]
    BY DEF TwoDefaults
  <2>2. \A a, b : Maps!AliasExists(map, a) /\ Maps!AliasExists(map, b) => a = b
    BY <1>1 DEF Maps!AliasExists, Maps!ToSet
  <2> QED BY <2>1, <2>2, MaDefaults
<1>3. \E i \in free : \A j \in free : i <= j
  <2>1. CASE 1 \in free
    BY <1>2, <2>1
  <2>2. CASE 1 \notin free
    BY <1>2, <2>2
  <2> QED BY <2>1, <2>2
<1>4. PICK i \in free : Maps!BuildDefaultAlias(map) = TwoDefaults[i]
  BY <1>3 DEF Maps!BuildDefaultAlias
<1>5. Maps!BuildDefaultAlias(map) \in Maps!Aliases
  BY <1>2, <1>4, MaDefaults
<1> QED BY <1>5, MaNewKeeps DEF Maps!NewUnnamedSession

LEMMA MaSwitchKeeps ==
  ASSUME MapsInv, Maps!SessionMapsBounds, NEW chat \in ChatKeys, NEW alias \in Maps!Aliases, NEW opens \in BOOLEAN,
         NEW outcome \in MaOutcomes, Maps!SwitchChatSession(chat, alias, opens, outcome)
  PROVE  MapsInv'
<1> DEFINE map == Maps!LoadMapping(chat, opens)
           new == [map EXCEPT !.current = alias]
<1>0. UNCHANGED <<configured, childMap, sessionFiles, childFiles, turns, handedOut, late>>
  BY DEF Maps!SwitchChatSession
<1>1. CASE Maps!LoadOrInit(chat, opens, outcome)
  BY <1>0, <1>1, MaListKeeps
<1>2. CASE /\ map.state = "whole" /\ Maps!Opening(chat, chatMap[chat], opens)
           /\ Maps!WriteMapping(chat, new, outcome)
  <2>1. map \in MaFiles
    BY MaLoaded DEF MapsInv
  <2> HIDE DEF map
  <2>2. new \in MaFiles /\ new.state = "whole" /\ new.sessions = map.sessions
    BY <1>2, <2>1 DEF MaFiles, MaAliases
  <2>3. \A a : Maps!AliasExists(map, a) => Maps!AliasExists(new, a)
    BY <2>2 DEF Maps!AliasExists
  <2> HIDE DEF new
  <2> QED BY <1>0, <1>2, <2>2, <2>3, MaWriteKeeps DEF map
<1> QED BY <1>1, <1>2 DEF Maps!SwitchChatSession

(* The alias goes only when the history has gone.                           *)
LEMMA MaDeleteKeeps ==
  ASSUME MapsInv, NEW chat \in ChatKeys, NEW alias \in Maps!Aliases, NEW deleted \in BOOLEAN,
         NEW outcome \in MaOutcomes, Maps!DeleteChatSession(chat, alias, deleted, outcome)
  PROVE  MapsInv'
<1> DEFINE map == chatMap[chat]
           rest == [map EXCEPT !.sessions = Maps!Without(@, alias)]
<1>1. map \in MaFiles /\ map.state = "whole" /\ map.sessions \in Seq(Maps!Aliases)
      /\ alias \in Maps!ToSet(map.sessions)
  BY DEF MapsInv, MaChats, MaFiles, Maps!DeleteChatSession, Maps!AliasExists
<1>2. rest \in MaFiles /\ rest.state = "whole"
      /\ \A a : a # alias /\ Maps!AliasExists(map, a) => Maps!AliasExists(rest, a)
  <2>1. Maps!Without(map.sessions, alias) \in Seq(Maps!Aliases)
        /\ \A a \in Maps!ToSet(map.sessions) : a # alias => a \in Maps!ToSet(Maps!Without(map.sessions, alias))
    BY <1>1, MaWithout
  <2> QED BY <1>1, <2>1 DEF MaFiles, Maps!AliasExists
<1>3. sessionFiles' \subseteq sessionFiles /\ unopened' = unopened
      /\ IF deleted THEN <<chat, alias>> \notin sessionFiles' /\ Maps!WriteMapping(chat, rest, outcome)
                    ELSE UNCHANGED chatMap
  BY DEF Maps!DeleteChatSession, Maps!faultVars
<1> HIDE DEF rest
<1>4. MaChats'
  <2>1. CASE deleted
    BY <1>2, <1>3, <2>1, MaWrites DEF MapsInv
  <2>2. CASE ~deleted
    BY <1>3, <2>2 DEF MapsInv, MaChats
  <2> QED BY <2>1, <2>2
<1>5. \A id \in sessionFiles' : MaHeld(id) => MaHeld(id)'
  <2> SUFFICES ASSUME NEW id \in sessionFiles', MaHeld(id) PROVE MaHeld(id)'
    OBVIOUS
  <2>1. id \in Maps!SessionIds
    BY <1>3 DEF MapsInv, MaRest
  <2>2. CASE deleted
    <3>1. id # <<chat, alias>>
      BY <1>3, <2>2
    <3>2. id[1] # chat \/ id[2] # alias
      BY <2>1, <3>1 DEF Maps!SessionIds
    <3> QED BY <1>1, <1>2, <1>3, <2>1, <2>2, <3>2, MaHeldStays DEF MapsInv
  <2>3. CASE ~deleted
    BY <1>3, <2>3 DEF MaHeld, Maps!Listed
  <2> QED BY <2>2, <2>3
<1>6. MaRest'
  BY <1>3 DEF MapsInv, MaRest, Maps!DeleteChatSession, Maps!faultVars
<1>7. MaChildren'
  BY <1>3, MaChildrenStay DEF MapsInv, Maps!DeleteChatSession
<1>8. Maps!HistoriesAreListed'
  BY <1>3, <1>5, MaListedStays DEF MapsInv, Maps!DeleteChatSession
<1> QED BY <1>4, <1>6, <1>7, <1>8 DEF MapsInv

(* A turn that ends in a session that is not listed is noted as late.       *)
LEMMA MaTurnKeeps == ASSUME MapsInv, Maps!TurnEnds PROVE MapsInv'
<1>1. Head(turns) \in Maps!SessionIds /\ Tail(turns) \in Seq(Maps!SessionIds)
  BY DEF MapsInv, MaRest, Maps!TurnEnds
<1>2. MaChats' /\ \A id : MaHeld(id) => MaHeld(id)'
  BY DEF MapsInv, MaChats, MaHeld, Maps!Listed, Maps!TurnEnds, Maps!mapVars, Maps!faultVars
<1>3. MaRest'
  BY <1>1 DEF MapsInv, MaRest, Maps!TurnEnds, Maps!faultVars
<1>4. MaChildren'
  BY MaChildrenStay DEF MapsInv, Maps!TurnEnds, Maps!mapVars, Maps!faultVars
<1>5. Maps!HistoriesAreListed'
  <2>1. \A id \in sessionFiles : MaHeld(id) \/ id \in late
    BY DEF MapsInv, Maps!HistoriesAreListed, MaHeld
  <2>2. \A id \in sessionFiles' : MaHeld(id)' \/ id \in late'
    BY <1>2, <2>1 DEF Maps!TurnEnds, MaHeld
  <2> QED BY <2>2 DEF Maps!HistoriesAreListed, MaHeld
<1> QED BY <1>2, <1>3, <1>4, <1>5 DEF MapsInv

-----------------------------------------------------------------------------
(* What disturbs only the subagents.                                        *)
LEMMA MaChatsStay == ASSUME MaChats, UNCHANGED chatMap PROVE MaChats'
  BY DEF MaChats

LEMMA MaListedUnmoved ==
  ASSUME Maps!HistoriesAreListed, UNCHANGED <<chatMap, sessionFiles, late>>, unopened \subseteq unopened'
  PROVE  Maps!HistoriesAreListed'
  BY DEF Maps!HistoriesAreListed, Maps!Listed

(* The children map that is written is whole, or nobody can read it.        *)
LEMMA MaChildrenWritten ==
  ASSUME NEW parent \in Maps!Parents, NEW map, NEW outcome \in MaOutcomes, childMap \in [Maps!Parents -> MaChildFiles],
         Maps!WriteChildren(parent, map, outcome)
  PROVE  /\ \A p \in Maps!Parents : p # parent => childMap'[p] = childMap[p]
         /\ outcome = "refused" => childMap' = childMap
         /\ outcome = "half" => childMap' = [childMap EXCEPT ![parent] = Maps!DamagedChildren]
                                /\ childMap'[parent] = Maps!DamagedChildren
         /\ outcome = "whole" => childMap' = [childMap EXCEPT ![parent] = map] /\ childMap'[parent] = map
  BY DEF Maps!WriteChildren, MaOutcomes

LEMMA MaNoChildren ==
  ASSUME Maps!SessionMapsBounds
  PROVE  /\ Maps!DamagedChildren \in MaChildFiles /\ Maps!NoChildren \in MaChildFiles
         /\ Maps!DamagedChildren.state = "damaged" /\ Maps!NoChildren.state = "missing" /\ Maps!NoChildren.next = 1
         /\ Len(Maps!DamagedChildren.ids) = 0 /\ Len(Maps!NoChildren.ids) = 0
         /\ \A id : ~Maps!HasChild(Maps!NoChildren, id)
  BY DEF Maps!DamagedChildren, Maps!NoChildren, Maps!Children, MaChildFiles, Maps!SessionMapsBounds, Maps!HasChild, Maps!ToSet

(* The first suffix from the next one on that is in no map.                 *)
LEMMA MaNextSuffix ==
  ASSUME NEW parent \in Maps!Parents, NEW map \in MaChildFiles, MaxSuffix \in Nat, map.next <= MaxSuffix,
         \A i \in 1..MaxSuffix : Maps!HasChild(map, <<parent, i>>) => i < map.next
  PROVE  LET suffix == Maps!NextSuffix(parent, map)
         IN  /\ suffix \in map.next..MaxSuffix /\ suffix \in 1..MaxSuffix
             /\ ~Maps!HasChild(map, <<parent, suffix>>)
<1> DEFINE n == map.next
<1>1. n \in 1..MaxSuffix
  BY DEF MaChildFiles
<1>2. \A i \in n..MaxSuffix : ~Maps!HasChild(map, <<parent, i>>)
  <2> SUFFICES ASSUME NEW i \in n..MaxSuffix PROVE ~Maps!HasChild(map, <<parent, i>>)
    OBVIOUS
  <2>1. i \in 1..MaxSuffix /\ ~(i < n)
    BY <1>1
  <2> QED BY <2>1
<1> HIDE DEF n
<1>3. n \in n..MaxSuffix /\ \A j \in n..n - 1 : Maps!HasChild(map, <<parent, j>>)
  BY <1>1
<1>4. Maps!NextSuffix(parent, map) \in n..MaxSuffix
  <2>1. \E i \in n..MaxSuffix : /\ ~Maps!HasChild(map, <<parent, i>>)
                               /\ \A j \in n..i - 1 : Maps!HasChild(map, <<parent, j>>)
    BY <1>2, <1>3
  <2> QED BY <2>1 DEF Maps!NextSuffix, n
<1> QED BY <1>1, <1>2, <1>4 DEF n

(* A map of children that could not be opened is as good as missing.        *)
LEMMA MaChildrenLoaded ==
  ASSUME MaChildren, Maps!SessionMapsBounds, NEW parent \in Maps!Parents, NEW opens \in BOOLEAN,
         Maps!LoadChildren(parent, opens).state # "damaged"
  PROVE  LET map == Maps!LoadChildren(parent, opens)
         IN  /\ map \in MaChildFiles
             /\ \A i \in 1..MaxSuffix : Maps!HasChild(map, <<parent, i>>) => i < map.next
             /\ opens => map = childMap[parent]
<1>1. CASE opens
  BY <1>1 DEF MaChildren, Maps!LoadChildren
<1>2. CASE ~opens
  BY <1>2, MaNoChildren DEF Maps!LoadChildren
<1> QED BY <1>1, <1>2

LEMMA MaAllocKeeps ==
  ASSUME MapsInv, Maps!SessionMapsBounds, NEW parent \in Maps!Parents, NEW opens \in BOOLEAN, NEW outcome \in MaOutcomes,
         Maps!AllocSubagentSession(parent, opens, outcome)
  PROVE  MapsInv'
<1>0. UNCHANGED <<childFiles, configured, chatMap, sessionFiles, turns, late>>
      /\ Maps!Opening(parent, childMap[parent], opens)
  BY DEF Maps!AllocSubagentSession
<1> DEFINE map == Maps!LoadChildren(parent, opens)
           suffix == Maps!NextSuffix(parent, map)
           id == <<parent, suffix>>
           new == Maps!Children("whole", suffix + 1, Append(map.ids, id))
<1>1. map.state # "damaged" /\ Len(map.ids) < MaxChildren /\ map.next <= MaxSuffix
      /\ Maps!WriteChildren(parent, new, outcome)
      /\ handedOut' = IF outcome = "whole" THEN [handedOut EXCEPT ![id] = @ + 1] ELSE handedOut
  BY DEF Maps!AllocSubagentSession
<1>2. childMap \in [Maps!Parents -> MaChildFiles] /\ map \in MaChildFiles /\ map.ids \in Seq(Maps!ChildIds)
      /\ map.next \in Nat /\ MaxSuffix \in Nat /\ MaxChildren \in Nat
      /\ (\A i \in 1..MaxSuffix : Maps!HasChild(map, <<parent, i>>) => i < map.next)
      /\ (opens => map = childMap[parent])
  <2>1. map \in MaChildFiles /\ (\A i \in 1..MaxSuffix : Maps!HasChild(map, <<parent, i>>) => i < map.next)
        /\ (opens => map = childMap[parent])
    BY <1>1, MaChildrenLoaded DEF MapsInv
  <2> HIDE DEF map
  <2> QED BY <2>1 DEF MapsInv, MaChildren, MaChildFiles, Maps!SessionMapsBounds
<1>20. unopened \subseteq unopened' /\ unopened' \subseteq unopened \cup {parent} /\ (~opens => parent \in unopened')
  BY <1>0, MaOpens DEF MapsInv
<1> HIDE DEF map
<1>3. suffix \in map.next..MaxSuffix /\ suffix \in 1..MaxSuffix /\ ~Maps!HasChild(map, id)
  BY <1>1, <1>2, MaNextSuffix
<1>4. id \in Maps!ChildIds
  BY <1>3 DEF Maps!ChildIds
<1> HIDE DEF suffix
<1>5. /\ Append(map.ids, id) \in Seq(Maps!ChildIds) /\ Len(Append(map.ids, id)) = Len(map.ids) + 1
      /\ Maps!ToSet(Append(map.ids, id)) = Maps!ToSet(map.ids) \cup {id}
  BY <1>2, <1>4, MaAppend
<1>6. new \in MaChildFiles /\ new.state = "whole" /\ new.next = suffix + 1 /\ Len(new.ids) <= MaxChildren
      /\ \A c : Maps!HasChild(new, c) <=> Maps!HasChild(map, c) \/ c = id
  <2>1. new.state = "whole" /\ new.next = suffix + 1 /\ new.ids = Append(map.ids, id)
        /\ DOMAIN new = {"state", "next", "ids"} /\ new = [state |-> "whole", next |-> suffix + 1, ids |-> Append(map.ids, id)]
    BY DEF Maps!Children
  <2> HIDE DEF new, id
  <2>2. suffix + 1 \in 1..(MaxSuffix + 1)
    BY <1>2, <1>3
  <2>3. new \in MaChildFiles
    BY <1>5, <2>1, <2>2 DEF MaChildFiles
  <2>4. Len(new.ids) <= MaxChildren
    <3>1. Len(map.ids) \in Nat
      BY <1>2
    <3> QED BY <1>1, <1>2, <1>5, <2>1, <3>1
  <2>5. \A c : Maps!HasChild(new, c) <=> Maps!HasChild(map, c) \/ c = id
    BY <1>5, <2>1 DEF Maps!HasChild
  <2> QED BY <2>1, <2>3, <2>4, <2>5
<1> HIDE DEF id, new
<1>30. \A c \in Maps!ChildIds : c[1] \in Maps!Parents
  BY DEF Maps!ChildIds
<1>31. \A p \in Maps!Parents, i \in 1..MaxSuffix : <<p, i>> \in Maps!ChildIds
  BY DEF Maps!ChildIds
<1>32. \A p \in Maps!Parents, i \in 1..MaxSuffix : <<p, i>> = id => p = parent /\ i = suffix
  BY DEF id
<1>33. id[1] = parent
  BY DEF id
<1>34. /\ \A p \in Maps!Parents : p # parent => childMap'[p] = childMap[p]
       /\ childMap' \in [Maps!Parents -> MaChildFiles]
       /\ \/ outcome = "refused" /\ childMap'[parent] = childMap[parent]
          \/ outcome = "half" /\ childMap'[parent] = Maps!DamagedChildren
          \/ outcome = "whole" /\ childMap'[parent] = new
  BY <1>1, <1>2, <1>6, MaChildrenWritten, MaNoChildren DEF MaOutcomes
<1>35. /\ handedOut' \in [Maps!ChildIds -> Nat] /\ \A c \in Maps!ChildIds : c # id => handedOut'[c] = handedOut[c]
       /\ handedOut'[id] = IF outcome = "whole" THEN handedOut[id] + 1 ELSE handedOut[id]
  <2>1. handedOut \in [Maps!ChildIds -> Nat]
    BY DEF MapsInv, MaChildren
  <2> QED BY <1>1, <1>4, <2>1
<1>37. MaTold(parent)' => opens /\ map = childMap[parent] /\ MaTold(parent)
  BY <1>1, <1>2, <1>20 DEF MaTold
<1>38. parent \notin unopened' => handedOut[id] = 0
  <2> SUFFICES ASSUME parent \notin unopened' PROVE handedOut[id] = 0
    OBVIOUS
  <2>1. MaTold(parent) /\ map = childMap[parent]
    BY <1>1, <1>2, <1>20 DEF MaTold
  <2>2. handedOut[<<parent, suffix>>] # 0 => suffix < childMap[parent].next
    BY <1>3, <2>1 DEF MapsInv, MaChildren
  <2> QED BY <1>2, <1>3, <2>1, <2>2 DEF id
<1>7. MaChildren'
  <2>1. \A p \in Maps!Parents : Len(childMap'[p].ids) <= MaxChildren
    BY <1>2, <1>6, <1>34, MaNoChildren DEF MapsInv, MaChildren
  <2>2. \A c \in Maps!ChildIds : c[1] \in unopened' \/ handedOut'[c] <= 1
    <3> SUFFICES ASSUME NEW c \in Maps!ChildIds, c[1] \notin unopened' PROVE handedOut'[c] <= 1
      OBVIOUS
    <3>1. c[1] \notin unopened
      BY <1>20
    <3>2. handedOut[c] <= 1
      BY <3>1 DEF MapsInv, MaChildren
    <3>3. CASE c = id
      BY <1>33, <1>35, <1>38, <3>3
    <3> QED BY <1>35, <3>2, <3>3
  <2>3. ASSUME NEW p \in Maps!Parents, childMap'[p].state # "damaged", NEW i \in 1..MaxSuffix,
               Maps!HasChild(childMap'[p], <<p, i>>)
        PROVE  i < childMap'[p].next
    <3>1. CASE p = parent /\ outcome = "whole"
      <4>1. Maps!HasChild(map, <<p, i>>) \/ <<p, i>> = id
        BY <1>6, <1>34, <2>3, <3>1
      <4>2. i < map.next \/ i = suffix
        BY <1>2, <1>32, <3>1, <4>1
      <4>3. childMap'[p].next = suffix + 1
        BY <1>6, <1>34, <3>1
      <4> QED BY <1>2, <1>3, <4>2, <4>3
    <3>2. CASE childMap'[p] = childMap[p]
      BY <2>3, <3>2 DEF MapsInv, MaChildren
    <3>3. CASE p = parent /\ outcome = "half"
      BY <1>34, <2>3, <3>3, MaNoChildren
    <3> QED BY <1>34, <3>1, <3>2, <3>3
  <2>4. ASSUME NEW p \in Maps!Parents, MaTold(p)', NEW i \in 1..MaxSuffix, handedOut'[<<p, i>>] # 0
        PROVE  i < childMap'[p].next
    <3>0. <<p, i>> \in Maps!ChildIds
      BY <1>31
    <3>1. CASE p # parent
      <4>1. MaTold(p) /\ childMap'[p] = childMap[p] /\ <<p, i>> # id
        BY <1>20, <1>32, <1>34, <2>4, <3>1 DEF MaTold
      <4>2. handedOut[<<p, i>>] # 0
        BY <1>35, <2>4, <3>0, <4>1
      <4> QED BY <4>1, <4>2 DEF MapsInv, MaChildren
    <3>2. CASE p = parent
      <4>1. MaTold(parent) /\ map = childMap[parent]
        BY <1>37, <2>4, <3>2
      <4>2. CASE <<p, i>> # id
        <5>1. i < map.next
          BY <1>35, <2>4, <3>0, <3>2, <4>1, <4>2 DEF MapsInv, MaChildren
        <5>2. childMap'[p] = childMap[p] \/ childMap'[p].next = suffix + 1
          BY <1>6, <1>34, <2>4, <3>2, MaNoChildren DEF MaTold
        <5> QED BY <1>2, <1>3, <3>2, <4>1, <5>1, <5>2
      <4>3. CASE <<p, i>> = id
        <5>1. parent \notin unopened'
          BY <2>4, <3>2 DEF MaTold
        <5>2. outcome = "whole"
          BY <1>35, <1>38, <2>4, <4>3, <5>1
        <5>3. childMap'[p].next = suffix + 1 /\ i = suffix
          BY <1>6, <1>32, <1>34, <3>2, <4>3, <5>2
        <5> QED BY <1>3, <5>3
      <4> QED BY <4>2, <4>3
    <3> QED BY <3>1, <3>2
  <2>5. ASSUME NEW c \in childFiles', MaTold(c[1])' PROVE Maps!HasChild(childMap'[c[1]], c)
    <3>1. c \in childFiles /\ c[1] \in Maps!Parents
      BY <1>0, <1>30 DEF MapsInv, MaChildren
    <3>2. CASE c[1] # parent
      <4>1. MaTold(c[1]) /\ childMap'[c[1]] = childMap[c[1]]
        BY <1>20, <1>34, <2>5, <3>1, <3>2 DEF MaTold
      <4> QED BY <3>1, <4>1 DEF MapsInv, MaChildren
    <3>3. CASE c[1] = parent
      <4>1. Maps!HasChild(map, c) /\ map = childMap[parent]
        BY <1>37, <2>5, <3>1, <3>3 DEF MapsInv, MaChildren
      <4>2. childMap'[parent] = childMap[parent] \/ childMap'[parent] = new
        BY <1>34, <2>5, <3>3, MaNoChildren DEF MaTold
      <4> QED BY <1>6, <3>3, <4>1, <4>2
    <3> QED BY <3>2, <3>3
  <2>6. childFiles' \subseteq Maps!ChildIds
    BY <1>0 DEF MapsInv, MaChildren
  <2> QED BY <1>34, <1>35, <2>1, <2>2, <2>3, <2>4, <2>5, <2>6 DEF MaChildren
<1>8. MaChats' /\ MaRest' /\ Maps!HistoriesAreListed'
  BY <1>0, <1>20, MaChatsStay, MaRestOpens, MaListedUnmoved DEF MapsInv
<1> QED BY <1>7, <1>8 DEF MapsInv

LEMMA MaWorksKeeps ==
  ASSUME MapsInv, NEW parent \in Maps!Parents, NEW suffix \in 1..MaxSuffix, Maps!SubagentWorks(parent, suffix)
  PROVE  MapsInv'
<1>1. <<parent, suffix>> \in Maps!ChildIds /\ <<parent, suffix>>[1] = parent
  BY DEF Maps!ChildIds
<1>2. MaChildren'
  BY <1>1 DEF MapsInv, MaChildren, MaTold, Maps!SubagentWorks, Maps!mapVars, Maps!faultVars
<1>3. MaChats' /\ MaRest' /\ Maps!HistoriesAreListed'
  BY MaChatsStay, MaRestStays, MaListedUnmoved DEF MapsInv, Maps!SubagentWorks, Maps!mapVars, Maps!faultVars
<1> QED BY <1>2, <1>3 DEF MapsInv

LEMMA MaDropKeeps ==
  ASSUME MapsInv, Maps!SessionMapsBounds, NEW parent \in Maps!Parents, NEW suffix \in 1..MaxSuffix,
         NEW deleted \in BOOLEAN, NEW outcome \in MaOutcomes, Maps!DeleteSubagentSession(parent, suffix, deleted, outcome)
  PROVE  MapsInv'
<1> DEFINE map == childMap[parent]
           id == <<parent, suffix>>
           rest == [map EXCEPT !.ids = Maps!Without(@, id)]
<1>0. UNCHANGED <<configured, chatMap, sessionFiles, turns, faultsLeft, unopened, handedOut, late>>
  BY DEF Maps!DeleteSubagentSession, Maps!faultVars
<1>1. MaChildren'
  <2>1. CASE ~deleted
    BY <1>0, <2>1, MaChildrenStay DEF MapsInv, Maps!DeleteSubagentSession
  <2>2. CASE deleted
    <3>1. /\ map.state = "whole" /\ id \in Maps!ToSet(map.ids) /\ Maps!WriteChildren(parent, rest, outcome)
          /\ childFiles' = childFiles \ {id}
      BY <2>2 DEF Maps!DeleteSubagentSession, Maps!HasChild
    <3>2. /\ childMap \in [Maps!Parents -> MaChildFiles] /\ map \in MaChildFiles /\ map.ids \in Seq(Maps!ChildIds)
          /\ Len(map.ids) <= MaxChildren /\ MaxChildren \in Nat
      BY DEF MapsInv, MaChildren, MaChildFiles, Maps!SessionMapsBounds
    <3>3. /\ Maps!Without(map.ids, id) \in Seq(Maps!ChildIds)
          /\ Len(Maps!Without(map.ids, id)) = Len(map.ids) - 1
          /\ \A c \in Maps!ToSet(map.ids) : c # id => c \in Maps!ToSet(Maps!Without(map.ids, id))
          /\ Maps!ToSet(Maps!Without(map.ids, id)) \subseteq Maps!ToSet(map.ids)
      BY <3>1, <3>2, MaWithout
    <3>4. /\ rest \in MaChildFiles /\ rest.state = "whole" /\ rest.next = map.next /\ Len(rest.ids) <= MaxChildren
          /\ \A c : Maps!HasChild(rest, c) => Maps!HasChild(map, c)
          /\ \A c : c # id /\ Maps!HasChild(map, c) => Maps!HasChild(rest, c)
      <4> HIDE DEF id
      <4>1. rest.ids = Maps!Without(map.ids, id) /\ rest.state = "whole" /\ rest.next = map.next /\ rest \in MaChildFiles
        BY <3>1, <3>2, <3>3 DEF MaChildFiles
      <4>2. Len(map.ids) \in Nat
        BY <3>2
      <4> QED BY <3>2, <3>3, <4>1, <4>2 DEF Maps!HasChild
    <3> HIDE DEF rest
    <3>5. \A c \in Maps!ChildIds : c[1] \in Maps!Parents
      BY DEF Maps!ChildIds
    <3>6. /\ childMap' \in [Maps!Parents -> MaChildFiles]
          /\ \A p \in Maps!Parents : p # parent => childMap'[p] = childMap[p]
          /\ \/ childMap'[parent] = map
             \/ childMap'[parent] = Maps!DamagedChildren
             \/ childMap'[parent] = rest
      BY <3>1, <3>2, <3>4, MaChildrenWritten, MaNoChildren DEF MaOutcomes
    <3>7. ASSUME NEW p \in Maps!Parents
          PROVE  /\ Len(childMap'[p].ids) <= MaxChildren
                 /\ childMap'[p].state # "damaged" =>
                      childMap[p].state # "damaged" /\ childMap'[p].next = childMap[p].next
                 /\ childMap'[p].state # "damaged" => \A c : Maps!HasChild(childMap'[p], c) => Maps!HasChild(childMap[p], c)
                 /\ childMap'[p].state # "damaged" =>
                      \A c : c # id /\ Maps!HasChild(childMap[p], c) => Maps!HasChild(childMap'[p], c)
      <4>0. Len(childMap[p].ids) <= MaxChildren
        BY DEF MapsInv, MaChildren
      <4>1. CASE childMap'[p] = childMap[p]
        BY <4>0, <4>1
      <4>2. CASE childMap'[p] = Maps!DamagedChildren
        <5>1. childMap'[p].state = "damaged" /\ Len(childMap'[p].ids) = 0 /\ 0 <= MaxChildren
          BY <3>2, <4>2, MaNoChildren
        <5> QED BY <5>1
      <4>3. CASE p = parent /\ childMap'[p] = rest
        BY <3>1, <3>4, <4>3
      <4> QED BY <3>6, <4>1, <4>2, <4>3
    <3> HIDE DEF id, map
    <3>80. \A p \in Maps!Parents : MaTold(p)' => MaTold(p) /\ childMap'[p].state # "damaged"
      BY <1>0, <3>7 DEF MaTold
    <3>8. ASSUME NEW c \in childFiles', MaTold(c[1])' PROVE Maps!HasChild(childMap'[c[1]], c)
      <4>1. c \in childFiles /\ c # id /\ c[1] \in Maps!Parents
        BY <3>1, <3>5 DEF MapsInv, MaChildren
      <4>2. Maps!HasChild(childMap[c[1]], c)
        BY <3>8, <3>80, <4>1 DEF MapsInv, MaChildren
      <4> QED BY <3>7, <3>8, <3>80, <4>1, <4>2
    <3>9. ASSUME NEW p \in Maps!Parents, childMap'[p].state # "damaged", NEW i \in 1..MaxSuffix,
                 Maps!HasChild(childMap'[p], <<p, i>>)
          PROVE  i < childMap'[p].next
      <4>1. childMap[p].state # "damaged" /\ childMap'[p].next = childMap[p].next
            /\ Maps!HasChild(childMap[p], <<p, i>>)
        BY <3>7, <3>9
      <4> QED BY <4>1 DEF MapsInv, MaChildren
    <3>10. childFiles' \subseteq Maps!ChildIds /\ handedOut' = handedOut /\ unopened' = unopened
      BY <1>0, <3>1 DEF MapsInv, MaChildren
    <3>11. ASSUME NEW p \in Maps!Parents, MaTold(p)', NEW i \in 1..MaxSuffix, handedOut'[<<p, i>>] # 0
           PROVE  i < childMap'[p].next
      <4>1. MaTold(p) /\ childMap'[p].next = childMap[p].next
        BY <3>7, <3>11, <3>80
      <4> QED BY <3>10, <3>11, <4>1 DEF MapsInv, MaChildren
    <3> QED BY <3>6, <3>7, <3>8, <3>9, <3>10, <3>11 DEF MapsInv, MaChildren
  <2> QED BY <2>1, <2>2
<1>2. MaChats' /\ MaRest' /\ Maps!HistoriesAreListed'
  BY <1>0, MaChatsStay, MaRestStays, MaListedUnmoved DEF MapsInv, Maps!faultVars
<1> QED BY <1>1, <1>2 DEF MapsInv

-----------------------------------------------------------------------------
LEMMA MaBootKeeps == ASSUME MapsInv, Maps!SessionMapsBounds, Maps!SetSessionRootDir \/ Maps!PowerFails PROVE MapsInv'
<1>1. MaChats' /\ MaChildren' /\ Maps!HistoriesAreListed'
  BY MaChatsStay, MaChildrenStay, MaListedUnmoved DEF MapsInv, Maps!SetSessionRootDir, Maps!PowerFails, Maps!mapVars,
     Maps!faultVars
<1>2. MaRest'
  <2>1. MaxFaults \in Nat /\ faultsLeft \in 0..MaxFaults
    BY DEF MapsInv, MaRest, Maps!SessionMapsBounds
  <2>2. CASE Maps!SetSessionRootDir
    BY <2>2 DEF MapsInv, MaRest, Maps!SetSessionRootDir, Maps!faultVars
  <2>3. CASE Maps!PowerFails
    <3>1. faultsLeft' \in 0..MaxFaults
      BY <2>1, <2>3 DEF Maps!PowerFails
    <3>3. configured' \in BOOLEAN
      BY <2>3 DEF Maps!PowerFails
    <3>4. turns' = <<>>
      BY <2>3 DEF Maps!PowerFails
    <3>5. turns' \in Seq(Maps!SessionIds)
      BY <3>4
    <3>2. sessionFiles' = sessionFiles /\ late' = late /\ unopened' = unopened
      BY <2>3 DEF Maps!PowerFails
    <3> QED BY <3>1, <3>2, <3>3, <3>5 DEF MapsInv, MaRest
  <2> QED BY <2>2, <2>3
<1> QED BY <1>1, <1>2 DEF MapsInv

LEMMA MapsStart == ASSUME Maps!SessionMapsBounds, Maps!Init PROVE MapsInv
<1>1. MaChats
  <2>1. Maps!NoMap \in MaFiles /\ Maps!NoMap.state = "missing" /\ Maps!NoMap.sessions = <<>>
    BY DEF Maps!NoMap, Maps!File, MaFiles, MaAliases
  <2> QED BY <2>1 DEF MaChats, Maps!Init
<1>2. MaRest
  <2>1. MaxFaults \in Nat
    BY DEF Maps!SessionMapsBounds
  <2>2. turns \in Seq(Maps!SessionIds)
    BY DEF Maps!Init
  <2>3. faultsLeft \in 0..MaxFaults
    BY <2>1 DEF Maps!Init
  <2>4. configured \in BOOLEAN /\ sessionFiles \subseteq Maps!SessionIds /\ late \subseteq Maps!SessionIds /\ unopened = {}
    BY DEF Maps!Init
  <2> QED BY <2>2, <2>3, <2>4 DEF MaRest
<1>3. MaChildren
  <2>1. MaxChildren \in Nat /\ \A id \in Maps!ChildIds : handedOut[id] = 0
    BY DEF Maps!Init, Maps!SessionMapsBounds
  <2>2. \A p \in Maps!Parents, i \in 1..MaxSuffix : <<p, i>> \in Maps!ChildIds
    BY DEF Maps!ChildIds
  <2>3. /\ childMap \in [Maps!Parents -> MaChildFiles] /\ handedOut \in [Maps!ChildIds -> Nat] /\ childFiles = {}
        /\ \A p \in Maps!Parents : Len(childMap[p].ids) <= MaxChildren /\ \A id : ~Maps!HasChild(childMap[p], id)
    BY <2>1, MaNoChildren DEF Maps!Init
  <2> QED BY <2>1, <2>2, <2>3 DEF MaChildren
<1>4. Maps!HistoriesAreListed
  BY DEF Maps!HistoriesAreListed, Maps!Init
<1> QED BY <1>1, <1>2, <1>3, <1>4 DEF MapsInv

LEMMA MapsStep == ASSUME Maps!SessionMapsBounds, MapsInv, [Maps!Next]_(Maps!sessionMapVars) PROVE MapsInv'
<1>1. ASSUME NEW opens \in BOOLEAN, NEW outcome \in MaOutcomes, Maps!WritesAMap(opens, outcome) PROVE MapsInv'
  <2>1. ASSUME NEW chat \in ChatKeys,
               Maps!BuildSessionId(chat, opens, outcome) \/ Maps!ListChatSessions(chat, opens, outcome)
               \/ Maps!NewUnnamedSession(chat, opens, outcome)
        PROVE  MapsInv'
    BY <2>1, MaBuildKeeps, MaListKeeps, MaUnnamedKeeps DEF Maps!ListChatSessions
  <2>2. ASSUME NEW chat \in ChatKeys, NEW alias \in Maps!Aliases,
               Maps!NewChatSession(chat, alias, opens, outcome) \/ Maps!SwitchChatSession(chat, alias, opens, outcome)
        PROVE  MapsInv'
    BY <2>2, MaNewKeeps, MaSwitchKeeps
  <2>3. ASSUME NEW parent \in Maps!Parents, Maps!AllocSubagentSession(parent, opens, outcome) PROVE MapsInv'
    BY <2>3, MaAllocKeeps
  <2> QED BY <1>1, <2>1, <2>2, <2>3 DEF Maps!WritesAMap
<1>4. ASSUME NEW outcome \in MaOutcomes, Maps!Deletes(outcome) PROVE MapsInv'
  BY <1>4, MaDeleteKeeps, MaDropKeeps DEF Maps!Deletes
<1>2. ASSUME NEW parent \in Maps!Parents, NEW suffix \in 1..MaxSuffix, Maps!SubagentWorks(parent, suffix) PROVE MapsInv'
  BY <1>2, MaWorksKeeps
<1>3. CASE UNCHANGED Maps!sessionMapVars
  BY <1>3, MaChatsStay, MaRestStays, MaChildrenStay, MaListedUnmoved DEF MapsInv, Maps!sessionMapVars, Maps!mapVars,
     Maps!faultVars
<1> QED BY <1>1, <1>2, <1>3, <1>4, MaTurnKeeps, MaBootKeeps DEF Maps!Next, MaOutcomes

LEMMA MapsSound ==
  ASSUME MapsInv, Maps!SessionMapsBounds PROVE Maps!TypeOK /\ Maps!HistoriesAreListed /\ Maps!ChildrenAreNew
<1>1. \A c \in ChatKeys :
        /\ chatMap[c].state \in {"missing", "damaged", "whole"}
        /\ chatMap[c].state = "whole" => Maps!IsSound(chatMap[c])
  BY DEF MapsInv, MaChats, MaFiles
<1>2. \A p \in Maps!Parents :
        /\ childMap[p].state \in {"missing", "damaged", "whole"}
        /\ childMap[p].next \in 1 .. MaxSuffix + 1 /\ Len(childMap[p].ids) <= MaxChildren
  BY DEF MapsInv, MaChildren, MaChildFiles
<1>3. handedOut \in [Maps!ChildIds -> Nat] /\ \A id \in Maps!ChildIds : id[1] \in unopened \/ handedOut[id] <= 1
  BY DEF MapsInv, MaChildren
<1>4. Maps!TypeOK
  <2>1. MaRest /\ childFiles \subseteq Maps!ChildIds
    BY DEF MapsInv, MaChildren
  <2>2. configured \in BOOLEAN /\ faultsLeft \in 0 .. MaxFaults /\ turns \in Seq(Maps!SessionIds)
        /\ sessionFiles \subseteq Maps!SessionIds /\ late \subseteq Maps!SessionIds
    BY <2>1 DEF MaRest
  <2>3. handedOut \in [Maps!ChildIds -> Nat]
    BY <1>3
  <2>4. childFiles \subseteq Maps!ChildIds
    BY <2>1
  <2>5. configured \in BOOLEAN /\ faultsLeft \in 0 .. MaxFaults
    BY <2>2
  <2>6. sessionFiles \subseteq Maps!SessionIds /\ childFiles \subseteq Maps!ChildIds
        /\ late \subseteq Maps!SessionIds /\ turns \in Seq(Maps!SessionIds)
    BY <2>2, <2>4
  <2>9. unopened \subseteq ChatKeys \cup Maps!Parents
    BY <2>1 DEF MaRest
  <2>7. \A c \in ChatKeys :
       /\ chatMap[c].state \in {"missing", "damaged", "whole"}
       /\ chatMap[c].state = "whole" => Maps!IsSound(chatMap[c])
    BY <1>1
  <2>8. \A p \in Maps!Parents :
       /\ childMap[p].state \in {"missing", "damaged", "whole"}
       /\ childMap[p].next \in 1 .. MaxSuffix + 1 /\ Len(childMap[p].ids) <= MaxChildren
    BY <1>2
  <2> QED BY <2>5, <2>6, <2>7, <2>8, <2>9, <2>3, Zenon DEF Maps!TypeOK
<1>5. Maps!ChildrenAreNew
  BY <1>3 DEF MapsInv, MaChildren, MaTold, Maps!ChildrenAreNew
<1> QED BY <1>4, <1>5 DEF MapsInv

-----------------------------------------------------------------------------
(***************************************************************************)
(* The registry of skills and the skills of a session.                     *)
(***************************************************************************)

SkEntries == [id : SkillIds, root : Skill!Roots]
SkStates == {"missing", "damaged", "whole"}
SkPlaces == {"idle", "scan", "load", "save"}
SkJobs == [pc : SkPlaces, session : SkillSessions \cup {"none"}, skill : SkillIds \cup {"none"},
           ids : SUBSET SkillIds, scanned : Seq(SkEntries), next : Nat, old : Seq(SkEntries), edits : Nat]

SkOnce(registry) == \A i, j \in DOMAIN registry : registry[i].id = registry[j].id => i = j

SkTyped ==
  /\ docs \in [Skill!Roots -> [SkillIds -> {"absent", "good", "bad"}]]
  /\ roots \in Seq(Skill!Roots) /\ booting \in Seq(Skill!Roots)
  /\ entries \in Seq(SkEntries)
  /\ skillJob \in [Skill!SkillTasks -> SkJobs]
  /\ activeFile \in [SkillSessions -> [state : SkStates, ids : SUBSET SkillIds]]
  /\ editsDone \in 0..MaxSkillEdits /\ skillCallsLeft \in 0..MaxSkillCalls
  /\ loaded.entries \in Seq(SkEntries) /\ loaded.edits \in Nat
  /\ wanted \in [SkillSessions -> SUBSET SkillIds]
  /\ disturbed \in [SkillSessions -> BOOLEAN] /\ reloadsMet \in BOOLEAN

(* Directories are added before anybody else is at work.                    *)
SkBooting == booting # <<>> => \A k \in Skill!SkillTasks : k # Skill!Main => Skill!SkillAt(k, "idle")

(* A call for a session knows the session and the skill.                    *)
SkCalled ==
  \A k \in Skill!SkillTasks : skillJob[k].pc \in {"load", "save"} =>
    skillJob[k].session \in SkillSessions /\ skillJob[k].skill \in SkillIds

(* Registries that are kept or put aside have no id twice.                  *)
SkDistinct ==
  /\ SkOnce(entries) /\ SkOnce(loaded.entries)
  /\ \A k \in Skill!SkillTasks : SkOnce(skillJob[k].scanned) /\ SkOnce(skillJob[k].old)

(* What the first n directories hold, an earlier one before a later one.    *)
SkGood(n) == {id \in SkillIds : \E i \in 1..n : docs[roots[i]][id] = "good"}
SkCatalog(n) ==
  {e \in SkEntries : \E i \in 1..n :
     /\ roots[i] = e.root /\ docs[e.root][e.id] = "good"
     /\ \A j \in 1..i - 1 : docs[roots[j]][e.id] # "good"}
SkIsRead(registry, n) ==
  Skill!ToSet(registry) = SkCatalog(n) /\ Skill!Ids(registry) = SkGood(n)

SkScans ==
  /\ \A k \in Skill!SkillTasks : Skill!SkillAt(k, "scan") =>
       /\ skillJob[k].next \in 1..Len(roots) + 1 /\ skillJob[k].edits <= editsDone
       /\ skillJob[k].edits = editsDone => SkIsRead(skillJob[k].scanned, skillJob[k].next - 1)
  /\ loaded.edits <= editsDone
  /\ loaded.edits = editsDone /\ loaded.roots = roots => Skill!ToSet(loaded.entries) = SkCatalog(Len(roots))

(* Unless reloads met, the entries are the loaded ones, or are set aside.   *)
SkReloads ==
  ~reloadsMet =>
    /\ ~Skill!SomeReload => entries = loaded.entries
    /\ \A k \in Skill!SkillTasks : Skill!Reloading(k) =>
         /\ skillJob[k].old = loaded.entries
         /\ \A t \in Skill!SkillTasks : Skill!Reloading(t) => t = k

(* Unless disturbed, one call at a time works on a session, with its file.  *)
SkSession(s) ==
  /\ activeFile[s].ids = wanted[s]
  /\ \A k \in Skill!SkillTasks : Skill!OnSession(k, s) =>
       /\ ~Skill!SomeReload
       /\ \A t \in Skill!SkillTasks : Skill!OnSession(t, s) => t = k
       /\ Skill!SkillAt(k, "save") => skillJob[k].ids = wanted[s] \cap Skill!Ids(entries)
SkSessions == \A s \in SkillSessions : ~disturbed[s] => SkSession(s)

SkInv == SkTyped /\ SkBooting /\ SkCalled /\ SkDistinct /\ SkScans /\ SkReloads /\ SkSessions

-----------------------------------------------------------------------------
LEMMA SkFinite == ASSUME Skill!SkillsBounds, NEW S \in SUBSET SkillIds
                  PROVE  IsFiniteSet(S) /\ Skill!Cardinality(S) = Cardinality(S) /\ Cardinality(S) \in Nat
<1>1. \A T : (Skill!IsFiniteSet(T) <=> IsFiniteSet(T)) /\ Skill!Cardinality(T) = Cardinality(T)
  BY DEF Skill!IsFiniteSet, IsFiniteSet, Skill!Cardinality, Cardinality
<1>2. IsFiniteSet(SkillIds)
  BY <1>1 DEF Skill!SkillsBounds
<1> QED BY <1>1, <1>2, FS_Subset, FS_CardinalityType

(* An order of a set has every member once.                                 *)
LEMMA SkOrder ==
  ASSUME Skill!SkillsBounds, NEW S \in SUBSET SkillIds, NEW order \in Skill!SetToSeqs(S)
  PROVE  /\ order \in Seq(S) /\ \A i, j \in DOMAIN order : order[i] = order[j] => i = j
         /\ \A x \in S : \E i \in DOMAIN order : order[i] = x
<1> DEFINE n == Cardinality(S)
<1>1. n \in Nat /\ IsFiniteSet(S) /\ Skill!Cardinality(S) = n
  BY SkFinite
<1>2. order \in [1..n -> S] /\ \A i, j \in 1..n : i # j => order[i] # order[j]
  BY <1>1 DEF Skill!SetToSeqs
<1> HIDE DEF n
<1>3. order \in Seq(S) /\ DOMAIN order = 1..n
  BY <1>1, <1>2
<1>4. order \in Injection(1..n, S)
  BY <1>2 DEF Injection, IsInjective
<1>5. IsFiniteSet(1..n) /\ Cardinality(1..n) = n
  BY <1>1, FS_Interval
<1>6. order \in Surjection(1..n, S)
  BY <1>1, <1>4, <1>5, FS_Injection DEF n
<1>7. \A x \in S : \E i \in 1..n : order[i] = x
  BY <1>6 DEF Surjection
<1> QED BY <1>2, <1>3, <1>7

(* A directory adds to the registry what an earlier one does not have.      *)
LEMMA SkFromRoot ==
  ASSUME Skill!SkillsBounds, NEW registry \in Seq(SkEntries), SkOnce(registry), NEW root \in Skill!Roots,
         NEW S \in SUBSET SkillIds, S \cap Skill!Ids(registry) = {}, NEW order \in Skill!SetToSeqs(S)
  PROVE  LET new == Skill!FromRoot(registry, root, order)
         IN  /\ new \in Seq(SkEntries) /\ SkOnce(new)
             /\ Skill!Ids(new) = Skill!Ids(registry) \cup S
             /\ Skill!ToSet(new) = Skill!ToSet(registry) \cup {Skill!Entry(id, root) : id \in S}
<1> DEFINE n == Len(registry)
           m == Len(order)
           tail == [i \in DOMAIN order |-> Skill!Entry(order[i], root)]
           new == Skill!FromRoot(registry, root, order)
<1>1. /\ order \in Seq(S) /\ m \in Nat /\ DOMAIN order = 1..m /\ n \in Nat /\ DOMAIN registry = 1..n
      /\ \A i, j \in 1..m : order[i] = order[j] => i = j
      /\ \A x \in S : \E i \in 1..m : order[i] = x
      /\ \A i \in 1..m : order[i] \in S
  BY SkOrder
<1>2. \A id \in S : /\ Skill!Entry(id, root) \in SkEntries /\ Skill!Entry(id, root).id = id
  BY DEF Skill!Entry, SkEntries
<1>3. tail \in Seq(SkEntries) /\ Len(tail) = m /\ \A i \in 1..m : tail[i] = Skill!Entry(order[i], root)
  <2>1. tail = [i \in 1..m |-> Skill!Entry(order[i], root)] /\ \A i \in 1..m : Skill!Entry(order[i], root) \in SkEntries
    BY <1>1, <1>2
  <2> HIDE DEF tail, m
  <2> QED BY <1>1, <2>1
<1>4. new = registry \o tail
  BY DEF Skill!FromRoot
<1> HIDE DEF n, m, tail, new
<1>5. /\ new \in Seq(SkEntries) /\ Len(new) = n + m /\ DOMAIN new = 1..(n + m)
      /\ \A i \in 1..n : new[i] = registry[i]
      /\ \A i \in 1..m : new[n + i] = tail[i]
  <2>1. registry \in Seq(SkEntries) /\ tail \in Seq(SkEntries) /\ Len(registry) = n /\ Len(tail) = m
    BY <1>3 DEF n
  <2>2. new \in Seq(SkEntries) /\ Len(new) = n + m
    <3>1. new \in Seq(SkEntries) /\ Len(new) = Len(registry) + Len(tail)
      BY <2>1, <1>4, ConcatProperties
    <3> QED BY <2>1, <3>1
  <2>3. DOMAIN new = 1..(n + m)
    BY <2>2
  <2>4. \A i \in 1..n : new[i] = registry[i]
    BY <2>1, <1>1, <1>4
  <2>5. \A i \in 1..m : new[n + i] = tail[i]
    <3> SUFFICES ASSUME NEW i \in 1..m PROVE new[n + i] = tail[i]
      OBVIOUS
    <3>1. n + i \in 1..(n + m) /\ n + i > n /\ n + i - n = i
      BY <1>1
    <3> QED BY <2>1, <3>1, <1>1, <1>4
  <2> QED BY <2>2, <2>3, <2>4, <2>5
<1>6. \A i \in 1..(n + m) : i \in 1..n \/ \E j \in 1..m : i = n + j
  <2> SUFFICES ASSUME NEW i \in 1..(n + m), i \notin 1..n PROVE \E j \in 1..m : i = n + j
    OBVIOUS
  <2>1. i - n \in 1..m /\ i = n + (i - n)
    BY <1>1
  <2> QED BY <2>1
<1>7. \A i \in 1..n : i \in 1..(n + m) /\ registry[i].id \in Skill!Ids(registry) /\ registry[i].id \notin S
  BY <1>1 DEF Skill!Ids
<1>8. \A i \in 1..m : n + i \in 1..(n + m) /\ new[n + i] = Skill!Entry(order[i], root) /\ new[n + i].id = order[i]
  BY <1>1, <1>2, <1>3, <1>5
<1>9. SkOnce(new)
  <2> SUFFICES ASSUME NEW i \in 1..(n + m), NEW j \in 1..(n + m), new[i].id = new[j].id PROVE i = j
    BY <1>5 DEF SkOnce
  <2>1. CASE i \in 1..n /\ j \in 1..n
    BY <1>1, <1>5, <2>1 DEF SkOnce
  <2>2. CASE i \in 1..n /\ j \notin 1..n
    <3>1. PICK b \in 1..m : j = n + b
      BY <1>6, <2>2
    <3>2. new[j].id \in S /\ new[i].id \notin S
      BY <1>1, <1>5, <1>7, <1>8, <2>2, <3>1
    <3> QED BY <3>2
  <2>3. CASE i \notin 1..n /\ j \in 1..n
    <3>1. PICK a \in 1..m : i = n + a
      BY <1>6, <2>3
    <3>2. new[i].id \in S /\ new[j].id \notin S
      BY <1>1, <1>5, <1>7, <1>8, <2>3, <3>1
    <3> QED BY <3>2
  <2>4. CASE i \notin 1..n /\ j \notin 1..n
    <3>1. PICK a \in 1..m, b \in 1..m : i = n + a /\ j = n + b
      BY <1>6, <2>4
    <3>2. order[a] = order[b]
      BY <1>8, <3>1
    <3> QED BY <1>1, <3>1, <3>2
  <2> QED BY <2>1, <2>2, <2>3, <2>4
<1>10. Skill!Ids(new) = Skill!Ids(registry) \cup S
  <2>1. ASSUME NEW x \in Skill!Ids(new) PROVE x \in Skill!Ids(registry) \cup S
    <3>1. PICK i \in 1..(n + m) : x = new[i].id
      BY <1>5 DEF Skill!Ids
    <3>2. CASE i \in 1..n
      BY <1>5, <1>7, <3>1, <3>2
    <3>3. CASE i \notin 1..n
      <4>1. PICK a \in 1..m : i = n + a
        BY <1>6, <3>3
      <4>2. x = order[a] /\ order[a] \in S
        BY <1>1, <1>8, <3>1, <4>1
      <4> QED BY <4>2
    <3> QED BY <3>2, <3>3
  <2>2. ASSUME NEW x \in Skill!Ids(registry) PROVE x \in Skill!Ids(new)
    <3>1. PICK i \in 1..n : x = registry[i].id
      BY <1>1 DEF Skill!Ids
    <3> QED BY <1>5, <1>7, <3>1 DEF Skill!Ids
  <2>3. ASSUME NEW x \in S PROVE x \in Skill!Ids(new)
    <3>1. PICK i \in 1..m : x = order[i]
      BY <1>1
    <3> QED BY <1>5, <1>8, <3>1 DEF Skill!Ids
  <2> QED BY <2>1, <2>2, <2>3
<1>11. Skill!ToSet(new) = Skill!ToSet(registry) \cup {Skill!Entry(id, root) : id \in S}
  <2>1. ASSUME NEW x \in Skill!ToSet(new) PROVE x \in Skill!ToSet(registry) \cup {Skill!Entry(id, root) : id \in S}
    <3>1. PICK i \in 1..(n + m) : x = new[i]
      BY <1>5 DEF Skill!ToSet
    <3>2. CASE i \in 1..n
      BY <1>1, <1>5, <3>1, <3>2 DEF Skill!ToSet
    <3>3. CASE i \notin 1..n
      <4>1. PICK a \in 1..m : i = n + a
        BY <1>6, <3>3
      <4>2. x = Skill!Entry(order[a], root) /\ order[a] \in S
        BY <1>1, <1>8, <3>1, <4>1
      <4> QED BY <4>2
    <3> QED BY <3>2, <3>3
  <2>2. ASSUME NEW x \in Skill!ToSet(registry) PROVE x \in Skill!ToSet(new)
    <3>1. PICK i \in 1..n : x = registry[i]
      BY <1>1 DEF Skill!ToSet
    <3> QED BY <1>5, <1>7, <3>1 DEF Skill!ToSet
  <2>3. ASSUME NEW x \in {Skill!Entry(id, root) : id \in S} PROVE x \in Skill!ToSet(new)
    <3>1. PICK id \in S : x = Skill!Entry(id, root)
      OBVIOUS
    <3>2. PICK i \in 1..m : id = order[i]
      BY <1>1
    <3> QED BY <1>5, <1>8, <3>1, <3>2 DEF Skill!ToSet
  <2> QED BY <2>1, <2>2, <2>3
<1> QED BY <1>5, <1>9, <1>10, <1>11 DEF new

(* The next directory makes the catalogue of one directory more.            *)
LEMMA SkNextRoot ==
  ASSUME SkTyped, NEW n \in 1..Len(roots), \A id \in SkillIds : docs[roots[n]][id] # "bad"
  PROVE  LET new == Skill!Documents(roots[n]) \ SkGood(n - 1)
         IN  /\ SkGood(n) = SkGood(n - 1) \cup new
             /\ SkCatalog(n) = SkCatalog(n - 1) \cup {Skill!Entry(id, roots[n]) : id \in new}
<1> DEFINE root == roots[n]
           new == Skill!Documents(root) \ SkGood(n - 1)
<1>1. n \in Nat /\ root \in Skill!Roots /\ Len(roots) \in Nat /\ \A i \in 1..n : roots[i] \in Skill!Roots
  BY DEF SkTyped
<1>2. \A i : i \in 1..n <=> i \in 1..n - 1 \/ i = n
  BY <1>1
<1>3. \A id \in SkillIds : id \in Skill!Documents(root) <=> docs[root][id] = "good"
  BY <1>1 DEF Skill!Documents, SkTyped
<1>4. SkGood(n) = SkGood(n - 1) \cup new
  BY <1>2, <1>3 DEF SkGood, Skill!Documents
<1>5. \A id \in SkillIds : id \in new <=> docs[root][id] = "good" /\ \A j \in 1..n - 1 : docs[roots[j]][id] # "good"
  BY <1>3 DEF SkGood
<1> HIDE DEF new
<1>6. ASSUME NEW e \in SkCatalog(n), e \notin SkCatalog(n - 1) PROVE e \in {Skill!Entry(id, root) : id \in new}
  <2>1. PICK i \in 1..n : /\ roots[i] = e.root /\ docs[e.root][e.id] = "good"
                          /\ \A j \in 1..i - 1 : docs[roots[j]][e.id] # "good"
    BY <1>6 DEF SkCatalog
  <2>2. i = n
    BY <1>2, <1>6, <2>1 DEF SkCatalog
  <2>3. e \in SkEntries /\ e = Skill!Entry(e.id, e.root) /\ e.id \in SkillIds
    BY <1>6 DEF SkCatalog, SkEntries, Skill!Entry
  <2>4. e.id \in new
    BY <1>5, <2>1, <2>2, <2>3
  <2> QED BY <2>1, <2>2, <2>3, <2>4
<1>7. SkCatalog(n - 1) \subseteq SkCatalog(n)
  BY <1>2 DEF SkCatalog
<1>8. ASSUME NEW id \in new PROVE Skill!Entry(id, root) \in SkCatalog(n)
  <2>1. id \in SkillIds
    BY DEF new, Skill!Documents
  <2>2. Skill!Entry(id, root) \in SkEntries /\ Skill!Entry(id, root).id = id /\ Skill!Entry(id, root).root = root
    BY <1>1, <2>1 DEF Skill!Entry, SkEntries
  <2>3. docs[root][id] = "good" /\ \A j \in 1..n - 1 : docs[roots[j]][id] # "good"
    BY <1>5, <2>1
  <2>4. n \in 1..n
    BY <1>1
  <2> QED BY <2>2, <2>3, <2>4 DEF SkCatalog
<1> QED BY <1>4, <1>6, <1>7, <1>8 DEF new

(* Nothing of the directories changes, so the catalogue does not.           *)
LEMMA SkSameCatalog == ASSUME UNCHANGED <<docs, roots>>
                       PROVE  \A n : SkGood(n)' = SkGood(n) /\ SkCatalog(n)' = SkCatalog(n)
BY DEF SkGood, SkCatalog

LEMMA SkEmpty == /\ SkGood(0) = {} /\ SkCatalog(0) = {} /\ SkOnce(<<>>)
                 /\ Skill!ToSet(<<>>) = {} /\ Skill!Ids(<<>>) = {}
BY DEF SkGood, SkCatalog, SkOnce, Skill!ToSet, Skill!Ids

LEMMA SkNoJob == /\ Skill!NoSkillJob \in SkJobs /\ Skill!NoSkillJob.pc = "idle"
                 /\ Skill!NoSkillJob.scanned = <<>> /\ Skill!NoSkillJob.old = <<>>
BY DEF Skill!NoSkillJob, SkJobs, SkPlaces

(* A task whose work ends.                                                  *)
LEMMA SkEnding ==
  ASSUME SkInv, NEW k \in Skill!SkillTasks, Skill!SkillEnds(k)
  PROVE  /\ skillJob' \in [Skill!SkillTasks -> SkJobs] /\ skillJob'[k] = Skill!NoSkillJob
         /\ \A t \in Skill!SkillTasks : t # k => skillJob'[t] = skillJob[t]
         /\ \A t \in Skill!SkillTasks : SkOnce(skillJob'[t].scanned) /\ SkOnce(skillJob'[t].old)
<1>1. skillJob \in [Skill!SkillTasks -> SkJobs] /\ skillJob' = [skillJob EXCEPT ![k] = Skill!NoSkillJob]
  BY DEF SkInv, SkTyped, Skill!SkillEnds
<1>2. /\ skillJob' \in [Skill!SkillTasks -> SkJobs] /\ skillJob'[k] = Skill!NoSkillJob
      /\ \A t \in Skill!SkillTasks : t # k => skillJob'[t] = skillJob[t]
  BY <1>1, SkNoJob
<1>3. \A t \in Skill!SkillTasks : SkOnce(skillJob[t].scanned) /\ SkOnce(skillJob[t].old)
  BY DEF SkInv, SkDistinct
<1> QED BY <1>2, <1>3, SkNoJob, SkEmpty

(* A reload sets the entries aside; the directories are those of before, or *)
(* a new one, with nobody at a scan.                                        *)
LEMMA SkStarts ==
  ASSUME SkInv, NEW k \in Skill!SkillTasks, Skill!SkillAt(k, "idle"), Skill!StartsReload(k),
         roots' \in Seq(Skill!Roots), booting' \in Seq(Skill!Roots), skillCallsLeft' \in 0..MaxSkillCalls,
         booting' # <<>> => booting # <<>> /\ k = Skill!Main,
         roots' = roots \/ (loaded.roots # roots' /\ \A t \in Skill!SkillTasks : ~Skill!SkillAt(t, "scan"))
  PROVE  SkInv'
<1> DEFINE job == [Skill!NoSkillJob EXCEPT !.pc = "scan", !.next = 1, !.old = entries, !.edits = editsDone]
<1>1. /\ skillJob' = [skillJob EXCEPT ![k] = job] /\ entries' = <<>>
      /\ reloadsMet' = (reloadsMet \/ Skill!SomeReload)
      /\ disturbed' = [s \in SkillSessions |-> disturbed[s] \/ \E t \in Skill!SkillTasks : Skill!OnSession(t, s)]
      /\ UNCHANGED <<docs, activeFile, editsDone, loaded, wanted>>
  BY DEF Skill!StartsReload
<1>2. editsDone \in Nat /\ entries \in Seq(SkEntries) /\ skillJob \in [Skill!SkillTasks -> SkJobs]
  BY DEF SkInv, SkTyped
<1>3. /\ job \in SkJobs /\ job.pc = "scan" /\ job.next = 1 /\ job.old = entries /\ job.edits = editsDone
      /\ job.scanned = <<>>
  <2> DEFINE a == [Skill!NoSkillJob EXCEPT !.pc = "scan"]
             b == [a EXCEPT !.next = 1]
             c == [b EXCEPT !.old = entries]
  <2>1. a \in SkJobs /\ a.pc = "scan" /\ a.scanned = <<>>
    BY SkNoJob DEF SkJobs, SkPlaces
  <2>2. job = [c EXCEPT !.edits = editsDone]
    OBVIOUS
  <2> HIDE DEF a, job
  <2>3. b \in SkJobs /\ b.pc = "scan" /\ b.scanned = <<>> /\ b.next = 1
    BY <2>1 DEF SkJobs
  <2> HIDE DEF b
  <2>4. c \in SkJobs /\ c.pc = "scan" /\ c.scanned = <<>> /\ c.next = 1 /\ c.old = entries
    BY <1>2, <2>3 DEF SkJobs
  <2> HIDE DEF c
  <2> QED BY <1>2, <2>2, <2>4 DEF SkJobs
<1> HIDE DEF job
<1>4. /\ skillJob' \in [Skill!SkillTasks -> SkJobs] /\ skillJob'[k] = job
      /\ \A t \in Skill!SkillTasks : t # k => skillJob'[t] = skillJob[t]
  BY <1>1, <1>2, <1>3
<1>5. SkTyped'
  <2>1. <<>> \in Seq(SkEntries)
    OBVIOUS
  <2>2. disturbed' \in [SkillSessions -> BOOLEAN] /\ reloadsMet' \in BOOLEAN
    BY <1>1 DEF SkInv, SkTyped, Skill!OnSession, Skill!SomeReload, Skill!Reloading
  <2> QED BY <1>1, <1>4, <2>1, <2>2 DEF SkInv, SkTyped
<1>6. SkBooting'
  BY <1>4 DEF SkInv, SkBooting, Skill!SkillAt
<1>7. SkDistinct'
  BY <1>1, <1>3, <1>4, SkEmpty DEF SkInv, SkDistinct
<1>8. SkScans'
  <2>1. ASSUME NEW t \in Skill!SkillTasks, Skill!SkillAt(t, "scan")'
        PROVE  /\ skillJob'[t].next \in 1..Len(roots') + 1 /\ skillJob'[t].edits <= editsDone'
               /\ skillJob'[t].edits = editsDone' => SkIsRead(skillJob[t].scanned, skillJob[t].next - 1)'
    <3>1. CASE t = k
      <4>1. skillJob'[t].next = 1 /\ skillJob'[t].scanned = <<>> /\ skillJob'[t].edits = editsDone'
        BY <1>1, <1>3, <1>4, <3>1
      <4>2. Len(roots') \in Nat /\ 1 - 1 = 0
        OBVIOUS
      <4>3. SkGood(0)' = {} /\ SkCatalog(0)' = {}
        BY DEF SkGood, SkCatalog
      <4>4. SkIsRead(<<>>, 0)'
        BY <4>3, SkEmpty DEF SkIsRead, Skill!ToSet, Skill!Ids
      <4> QED BY <1>1, <1>2, <4>1, <4>2, <4>4
    <3>2. CASE t # k
      <4>1. skillJob'[t] = skillJob[t] /\ Skill!SkillAt(t, "scan")
        BY <1>4, <2>1, <3>2 DEF Skill!SkillAt
      <4>2. UNCHANGED <<docs, roots>>
        BY <1>1, <4>1
      <4> QED BY <1>1, <4>1, <4>2, SkSameCatalog DEF SkInv, SkScans, SkIsRead
    <3> QED BY <3>1, <3>2
  <2>2. loaded'.edits <= editsDone'
    BY <1>1 DEF SkInv, SkScans
  <2>3. ASSUME loaded'.edits = editsDone', loaded'.roots = roots'
        PROVE  Skill!ToSet(loaded.entries)' = SkCatalog(Len(roots))'
    <3>1. UNCHANGED <<docs, roots, editsDone, loaded>>
      BY <1>1, <2>3
    <3> QED BY <2>3, <3>1, SkSameCatalog DEF SkInv, SkScans, Skill!ToSet
  <2> QED BY <2>1, <2>2, <2>3 DEF SkScans
<1>9. SkReloads'
  <2> SUFFICES ASSUME ~reloadsMet' PROVE (/\ ~Skill!SomeReload => entries = loaded.entries
    /\ \A t \in Skill!SkillTasks : Skill!Reloading(t) =>
         /\ skillJob[t].old = loaded.entries
         /\ \A u \in Skill!SkillTasks : Skill!Reloading(u) => u = t)'
    BY DEF SkReloads
  <2>1. ~reloadsMet /\ ~Skill!SomeReload /\ entries = loaded.entries
    BY <1>1 DEF SkInv, SkReloads, SkTyped
  <2>2. \A t \in Skill!SkillTasks : Skill!Reloading(t)' <=> t = k
    BY <1>3, <1>4, <2>1 DEF Skill!Reloading, Skill!SomeReload
  <2>3. skillJob'[k].old = loaded'.entries
    BY <1>1, <1>3, <1>4, <2>1
  <2> QED BY <2>2, <2>3 DEF Skill!SomeReload
<1>10. SkSessions'
  <2> SUFFICES ASSUME NEW s \in SkillSessions, ~disturbed'[s] PROVE SkSession(s)'
    BY DEF SkSessions
  <2>1. ~disturbed[s] /\ \A t \in Skill!SkillTasks : ~Skill!OnSession(t, s)
    BY <1>1
  <2>2. \A t \in Skill!SkillTasks : ~Skill!OnSession(t, s)'
    BY <1>3, <1>4, <2>1 DEF Skill!OnSession
  <2>3. activeFile'[s].ids = wanted'[s]
    BY <1>1, <2>1 DEF SkInv, SkSessions, SkSession
  <2> QED BY <2>2, <2>3 DEF SkSession
<1>11. SkCalled'
  BY <1>3, <1>4 DEF SkInv, SkCalled
<1> QED BY <1>5, <1>6, <1>7, <1>8, <1>9, <1>10, <1>11 DEF SkInv

LEMMA SkAdds == ASSUME Skill!SkillsBounds, SkInv, Skill!AddDirectory PROVE SkInv'
<1> DEFINE root == Head(booting)
<1>1. /\ booting # <<>> /\ Skill!SkillAt(Skill!Main, "idle") /\ loaded.roots = roots
      /\ booting' = Tail(booting) /\ Skill!StartsReload(Skill!Main) /\ UNCHANGED skillCallsLeft
      /\ roots' = IF root \in Skill!ToSet(roots) THEN roots ELSE Append(roots, root)
  BY DEF Skill!AddDirectory
<1>2. Skill!Main \in Skill!SkillTasks
  BY DEF Skill!SkillTasks
<1>3. roots \in Seq(Skill!Roots) /\ booting \in Seq(Skill!Roots) /\ skillCallsLeft \in 0..MaxSkillCalls
  BY DEF SkInv, SkTyped
<1>4. \A t \in Skill!SkillTasks : ~Skill!SkillAt(t, "scan")
  BY <1>1 DEF SkInv, SkBooting, Skill!SkillAt
<1>5. root \in Skill!Roots /\ Tail(booting) \in Seq(Skill!Roots)
  BY <1>1, <1>3
<1> HIDE DEF root
<1>6. roots' \in Seq(Skill!Roots) /\ (roots' = roots \/ loaded.roots # roots')
  <2>1. CASE root \in Skill!ToSet(roots)
    BY <1>1, <1>3, <2>1
  <2>2. CASE root \notin Skill!ToSet(roots)
    <3>1. roots' = Append(roots, root)
      BY <1>1, <2>2
    <3>2. roots' \in Seq(Skill!Roots) /\ Len(roots') = Len(roots) + 1 /\ Len(roots) \in Nat
      BY <1>3, <1>5, <3>1
    <3> QED BY <1>1, <3>2
  <2> QED BY <2>1, <2>2
<1>7. booting' \in Seq(Skill!Roots) /\ skillCallsLeft' \in 0..MaxSkillCalls
  BY <1>1, <1>3, <1>5
<1> QED BY <1>1, <1>2, <1>4, <1>6, <1>7, SkStarts

(* A reload ends, with the old entries or those it has read.                *)
LEMMA SkSettles ==
  ASSUME SkInv, NEW k \in Skill!SkillTasks, Skill!SkillAt(k, "scan"), Skill!SkillEnds(k),
         entries' \in Seq(SkEntries), SkOnce(entries'),
         loaded'.entries \in Seq(SkEntries), SkOnce(loaded'.entries), loaded'.edits \in Nat,
         loaded'.edits <= editsDone,
         loaded'.edits = editsDone /\ loaded'.roots = roots => Skill!ToSet(loaded'.entries) = SkCatalog(Len(roots)),
         ~reloadsMet => entries' = loaded'.entries,
         UNCHANGED <<docs, roots, booting, activeFile, editsDone, skillCallsLeft, reloadsMet, wanted, disturbed>>
  PROVE  SkInv'
<1>1. /\ skillJob' \in [Skill!SkillTasks -> SkJobs] /\ skillJob'[k] = Skill!NoSkillJob
      /\ \A t \in Skill!SkillTasks : t # k => skillJob'[t] = skillJob[t]
      /\ \A t \in Skill!SkillTasks : SkOnce(skillJob'[t].scanned) /\ SkOnce(skillJob'[t].old)
  BY SkEnding
<1>2. Skill!Reloading(k)
  BY DEF Skill!SkillAt, Skill!Reloading
<1>3. SkTyped'
  BY <1>1 DEF SkInv, SkTyped
<1>4. SkBooting'
  BY <1>1, SkNoJob DEF SkInv, SkBooting, Skill!SkillAt
<1>5. SkDistinct'
  BY <1>1 DEF SkDistinct
<1>6. SkScans'
  <2>1. \A t \in Skill!SkillTasks : Skill!SkillAt(t, "scan")' => skillJob'[t] = skillJob[t] /\ Skill!SkillAt(t, "scan")
    BY <1>1, SkNoJob DEF Skill!SkillAt
  <2>2. \A t \in Skill!SkillTasks : Skill!SkillAt(t, "scan")' =>
          /\ skillJob'[t].next \in 1..Len(roots') + 1 /\ skillJob'[t].edits <= editsDone'
          /\ skillJob'[t].edits = editsDone' => SkIsRead(skillJob[t].scanned, skillJob[t].next - 1)'
    BY <2>1, SkSameCatalog DEF SkInv, SkScans, SkIsRead
  <2>3. SkCatalog(Len(roots))' = SkCatalog(Len(roots))
    BY DEF SkCatalog
  <2>4. Skill!ToSet(loaded.entries)' = Skill!ToSet(loaded'.entries)
    BY DEF Skill!ToSet
  <2> QED BY <2>2, <2>3, <2>4 DEF SkScans
<1>7. SkReloads'
  <2> SUFFICES ASSUME ~reloadsMet PROVE entries' = loaded'.entries /\ \A t \in Skill!SkillTasks : ~Skill!Reloading(t)'
    BY DEF SkReloads
  <2>1. \A t \in Skill!SkillTasks : Skill!Reloading(t) => t = k
    BY <1>2 DEF SkInv, SkReloads
  <2> QED BY <1>1, <2>1, SkNoJob DEF Skill!Reloading
<1>8. SkSessions'
  <2> SUFFICES ASSUME NEW s \in SkillSessions, ~disturbed'[s] PROVE SkSession(s)'
    BY DEF SkSessions
  <2>1. SkSession(s)
    BY DEF SkInv, SkSessions
  <2>2. \A t \in Skill!SkillTasks : ~Skill!OnSession(t, s)
    BY <1>2, <2>1 DEF SkSession, Skill!SomeReload
  <2>3. \A t \in Skill!SkillTasks : ~Skill!OnSession(t, s)'
    BY <1>1, <2>2, SkNoJob DEF Skill!OnSession
  <2> QED BY <2>1, <2>3 DEF SkSession
<1>9. SkCalled'
  BY <1>1, SkNoJob DEF SkInv, SkCalled
<1> QED BY <1>3, <1>4, <1>5, <1>6, <1>7, <1>8, <1>9 DEF SkInv

(* One directory is read.                                                   *)
LEMMA SkReads ==
  ASSUME Skill!SkillsBounds, SkInv, NEW k \in Skill!SkillTasks, Skill!SkillAt(k, "scan"), skillJob[k].next <= Len(roots),
         NEW root, root = roots[skillJob[k].next], \A id \in SkillIds : docs[root][id] # "bad",
         NEW order \in Skill!SetToSeqs(Skill!Unshadowed(skillJob[k].scanned, Skill!Documents(root))),
         skillJob' = [skillJob EXCEPT ![k].scanned = Skill!FromRoot(@, root, order), ![k].next = @ + 1],
         UNCHANGED <<docs, roots, entries, booting, activeFile, editsDone, skillCallsLeft, loaded, reloadsMet, wanted,
                     disturbed>>
  PROVE  SkInv'
<1> DEFINE n == skillJob[k].next
           before == skillJob[k].scanned
           new == Skill!Unshadowed(before, Skill!Documents(root))
           after == Skill!FromRoot(before, root, order)
<1>1. /\ skillJob \in [Skill!SkillTasks -> SkJobs] /\ skillJob[k] \in SkJobs /\ before \in Seq(SkEntries) /\ SkOnce(before)
      /\ Len(roots) \in Nat /\ \A i \in 1..Len(roots) : roots[i] \in Skill!Roots
  BY DEF SkInv, SkTyped, SkDistinct, SkJobs
<1>2. n \in 1..Len(roots) /\ n \in Nat /\ root \in Skill!Roots
  <2>1. n \in 1..Len(roots) + 1 /\ n <= Len(roots)
    BY DEF SkInv, SkScans
  <2> QED BY <1>1, <2>1
<1>3. new \in SUBSET SkillIds /\ new \cap Skill!Ids(before) = {}
  BY DEF Skill!Unshadowed, Skill!Documents
<1>4. /\ after \in Seq(SkEntries) /\ SkOnce(after)
      /\ Skill!Ids(after) = Skill!Ids(before) \cup new
      /\ Skill!ToSet(after) = Skill!ToSet(before) \cup {Skill!Entry(id, root) : id \in new}
  <2> HIDE DEF new
  <2> QED BY <1>1, <1>2, <1>3, SkFromRoot DEF new
<1>5. /\ skillJob' \in [Skill!SkillTasks -> SkJobs]
      /\ \A t \in Skill!SkillTasks : t # k => skillJob'[t] = skillJob[t]
      /\ skillJob'[k].scanned = after /\ skillJob'[k].next = n + 1 /\ skillJob'[k].edits = skillJob[k].edits
      /\ skillJob'[k].pc = skillJob[k].pc /\ skillJob'[k].old = skillJob[k].old
      /\ skillJob'[k].session = skillJob[k].session /\ skillJob'[k].ids = skillJob[k].ids
  <2>1. skillJob' = [skillJob EXCEPT ![k] = [[skillJob[k] EXCEPT !.scanned = after] EXCEPT !.next = n + 1]]
    BY <1>1
  <2> HIDE DEF after, n
  <2> DEFINE a == [skillJob[k] EXCEPT !.scanned = after]
  <2>2. /\ a \in SkJobs /\ a.scanned = after /\ a.edits = skillJob[k].edits /\ a.pc = skillJob[k].pc /\ a.old = skillJob[k].old
        /\ a.session = skillJob[k].session /\ a.ids = skillJob[k].ids
    BY <1>1, <1>4 DEF SkJobs
  <2>3. skillJob' = [skillJob EXCEPT ![k] = [a EXCEPT !.next = n + 1]]
    BY <2>1
  <2> HIDE DEF a
  <2> DEFINE b == [a EXCEPT !.next = n + 1]
  <2>4. /\ b \in SkJobs /\ b.scanned = after /\ b.edits = skillJob[k].edits /\ b.pc = skillJob[k].pc /\ b.old = skillJob[k].old
        /\ b.session = skillJob[k].session /\ b.ids = skillJob[k].ids /\ b.next = n + 1
    <3>1. n + 1 \in Nat
      BY <1>2
    <3> QED BY <3>1, <2>2 DEF SkJobs
  <2>5. skillJob' = [skillJob EXCEPT ![k] = b]
    BY <2>3
  <2> HIDE DEF b
  <2> QED BY <1>1, <2>4, <2>5
<1> HIDE DEF after, before, n, new
<1>6. SkTyped'
  BY <1>5 DEF SkInv, SkTyped
<1>7. \A t \in Skill!SkillTasks : skillJob'[t].pc = skillJob[t].pc /\ skillJob'[t].session = skillJob[t].session
                                  /\ skillJob'[t].ids = skillJob[t].ids /\ skillJob'[t].old = skillJob[t].old
  BY <1>5
<1>8. SkBooting'
  BY <1>7 DEF SkInv, SkBooting, Skill!SkillAt
<1>9. SkDistinct'
  BY <1>4, <1>5 DEF SkInv, SkDistinct
<1>10. SkScans'
  <2>1. ASSUME NEW t \in Skill!SkillTasks, Skill!SkillAt(t, "scan")'
        PROVE  /\ skillJob'[t].next \in 1..Len(roots') + 1 /\ skillJob'[t].edits <= editsDone'
               /\ skillJob'[t].edits = editsDone' => SkIsRead(skillJob[t].scanned, skillJob[t].next - 1)'
    <3>1. CASE t = k
      <4>1. skillJob[k].edits <= editsDone /\ (skillJob[k].edits = editsDone => SkIsRead(before, n - 1))
        BY DEF SkInv, SkScans, before, n
      <4>2. n + 1 \in 1..Len(roots) + 1 /\ (n + 1) - 1 = n
        BY <1>1, <1>2
      <4>3. ASSUME SkIsRead(before, n - 1) PROVE SkIsRead(after, n)
        <5>1. new = Skill!Documents(roots[n]) \ SkGood(n - 1)
          BY <4>3 DEF SkIsRead, new, Skill!Unshadowed, n
        <5>2. SkGood(n) = SkGood(n - 1) \cup new /\ SkCatalog(n) = SkCatalog(n - 1) \cup {Skill!Entry(id, roots[n]) : id \in new}
          BY <1>2, <5>1, SkNextRoot DEF SkInv, n
        <5> QED BY <1>4, <4>3, <5>2 DEF SkIsRead, n
      <4>4. SkIsRead(after, n) => SkIsRead(skillJob[t].scanned, skillJob[t].next - 1)'
        <5>1. skillJob'[t].scanned = after /\ skillJob'[t].next - 1 = n
          BY <1>5, <3>1, <4>2
        <5>2. Skill!ToSet(skillJob[t].scanned)' = Skill!ToSet(after) /\ Skill!Ids(skillJob[t].scanned)' = Skill!Ids(after)
          BY <5>1 DEF Skill!ToSet, Skill!Ids
        <5>3. SkGood(skillJob[t].next - 1)' = SkGood(n)
          BY <5>1 DEF SkGood
        <5>4. SkCatalog(skillJob[t].next - 1)' = SkCatalog(n)
          BY <5>1 DEF SkCatalog
        <5> QED BY <5>2, <5>3, <5>4 DEF SkIsRead
      <4> QED BY <1>5, <3>1, <4>1, <4>2, <4>3, <4>4
    <3>2. CASE t # k
      <4>1. skillJob'[t] = skillJob[t] /\ Skill!SkillAt(t, "scan")
        BY <1>5, <2>1, <3>2 DEF Skill!SkillAt
      <4> QED BY <4>1, SkSameCatalog DEF SkInv, SkScans, SkIsRead
    <3> QED BY <3>1, <3>2
  <2>2. (loaded.edits <= editsDone /\ (loaded.edits = editsDone /\ loaded.roots = roots
           => Skill!ToSet(loaded.entries) = SkCatalog(Len(roots))))'
    BY SkSameCatalog DEF SkInv, SkScans
  <2> QED BY <2>1, <2>2 DEF SkScans
<1>11. SkReloads'
  <2>1. (Skill!SomeReload' <=> Skill!SomeReload) /\ \A t \in Skill!SkillTasks : Skill!Reloading(t)' <=> Skill!Reloading(t)
    BY <1>7 DEF Skill!SomeReload, Skill!Reloading
  <2>2. SkReloads
    BY DEF SkInv
  <2> QED BY <1>7, <2>1, <2>2 DEF SkReloads
<1>12. SkSessions'
  <2> SUFFICES ASSUME NEW s \in SkillSessions, ~disturbed'[s] PROVE SkSession(s)'
    BY DEF SkSessions
  <2>1. SkSession(s)
    BY DEF SkInv, SkSessions
  <2>2. \A t \in Skill!SkillTasks : ~Skill!OnSession(t, s)
    BY <2>1 DEF SkSession, Skill!SomeReload, Skill!SkillAt, Skill!Reloading
  <2>3. \A t \in Skill!SkillTasks : ~Skill!OnSession(t, s)'
    BY <1>7, <2>2 DEF Skill!OnSession
  <2> QED BY <2>1, <2>3 DEF SkSession
<1>13. SkCalled'
  <2>1. ~(skillJob'[k].pc \in {"load", "save"})
    BY <1>7 DEF Skill!SkillAt
  <2> QED BY <1>5, <2>1 DEF SkInv, SkCalled
<1> QED BY <1>6, <1>8, <1>9, <1>10, <1>11, <1>12, <1>13 DEF SkInv

LEMMA SkScansRoot == ASSUME Skill!SkillsBounds, SkInv, NEW k \in Skill!SkillTasks, Skill!ScansRoot(k) PROVE SkInv'
<1> DEFINE root == roots[skillJob[k].next]
<1>1. /\ Skill!SkillAt(k, "scan") /\ skillJob[k].next <= Len(roots)
      /\ UNCHANGED <<docs, roots, booting, activeFile, editsDone, skillCallsLeft, loaded, reloadsMet, wanted, disturbed>>
  BY DEF Skill!ScansRoot
<1>2. CASE Skill!RestoresOld(k)
  <2>1. entries' = skillJob[k].old /\ Skill!SkillEnds(k)
    BY <1>2 DEF Skill!RestoresOld
  <2>2. skillJob[k].old \in Seq(SkEntries) /\ SkOnce(skillJob[k].old)
    BY DEF SkInv, SkTyped, SkJobs, SkDistinct
  <2>3. loaded.entries \in Seq(SkEntries) /\ SkOnce(loaded.entries) /\ loaded.edits \in Nat
    BY DEF SkInv, SkTyped, SkDistinct
  <2>4. /\ loaded.edits <= editsDone
        /\ loaded.edits = editsDone /\ loaded.roots = roots => Skill!ToSet(loaded.entries) = SkCatalog(Len(roots))
    BY DEF SkInv, SkScans
  <2>5. ~reloadsMet => skillJob[k].old = loaded.entries
    BY <1>1 DEF SkInv, SkReloads, Skill!Reloading, Skill!SkillAt
  <2>6. loaded' = loaded
    BY <1>1
  <2> QED BY <1>1, <2>1, <2>2, <2>3, <2>4, <2>5, <2>6, SkSettles
<1>3. CASE ~Skill!RestoresOld(k)
  <2>1. PICK order \in Skill!SetToSeqs(Skill!Unshadowed(skillJob[k].scanned, Skill!Documents(root))) :
          /\ skillJob' = [skillJob EXCEPT ![k].scanned = Skill!FromRoot(@, root, order), ![k].next = @ + 1]
          /\ \A id \in SkillIds : docs[root][id] # "bad"
          /\ UNCHANGED entries
    BY <1>3 DEF Skill!ScansRoot
  <2> QED BY <1>1, <2>1, SkReads
<1> QED BY <1>2, <1>3

LEMMA SkInstalls == ASSUME SkInv, NEW k \in Skill!SkillTasks, Skill!InstallsEntries(k) PROVE SkInv'
<1>1. /\ Skill!SkillAt(k, "scan") /\ skillJob[k].next > Len(roots) /\ entries' = skillJob[k].scanned /\ Skill!SkillEnds(k)
      /\ loaded'.entries = skillJob[k].scanned /\ loaded'.edits = skillJob[k].edits
      /\ UNCHANGED <<docs, roots, booting, activeFile, editsDone, skillCallsLeft, reloadsMet, wanted, disturbed>>
  BY DEF Skill!InstallsEntries
<1>2. skillJob[k].scanned \in Seq(SkEntries) /\ SkOnce(skillJob[k].scanned) /\ skillJob[k].edits \in Nat
  BY DEF SkInv, SkTyped, SkJobs, SkDistinct
<1>3. Len(roots) \in Nat /\ skillJob[k].next \in 1..Len(roots) + 1
  BY <1>1 DEF SkInv, SkTyped, SkScans
<1>4. skillJob[k].next - 1 = Len(roots)
  BY <1>1, <1>3
<1>5. /\ skillJob[k].edits <= editsDone
      /\ skillJob[k].edits = editsDone => Skill!ToSet(skillJob[k].scanned) = SkCatalog(Len(roots))
  BY <1>1, <1>4 DEF SkInv, SkScans, SkIsRead
<1> QED BY <1>1, <1>2, <1>5, SkSettles

-----------------------------------------------------------------------------
(* A call for a session leaves the registry and its reloads alone.          *)
LEMMA SkCalls ==
  ASSUME SkInv, NEW k \in Skill!SkillTasks, ~Skill!SkillAt(k, "scan"), NEW job \in SkJobs,
         job.pc \in {"idle", "load", "save"}, SkOnce(job.scanned), SkOnce(job.old),
         job.pc # "idle" => job.session \in SkillSessions /\ job.skill \in SkillIds,
         skillJob' = [skillJob EXCEPT ![k] = job], booting = <<>> \/ job.pc = "idle" \/ k = Skill!Main,
         activeFile' \in [SkillSessions -> [state : SkStates, ids : SUBSET SkillIds]],
         skillCallsLeft' \in 0..MaxSkillCalls, wanted' \in [SkillSessions -> SUBSET SkillIds],
         disturbed' \in [SkillSessions -> BOOLEAN],
         UNCHANGED <<docs, roots, entries, booting, editsDone, loaded, reloadsMet>>, SkSessions'
  PROVE  SkInv'
<1>1. /\ skillJob' \in [Skill!SkillTasks -> SkJobs] /\ skillJob'[k] = job
      /\ \A t \in Skill!SkillTasks : t # k => skillJob'[t] = skillJob[t]
  BY DEF SkInv, SkTyped
<1>2. SkTyped'
  BY <1>1 DEF SkInv, SkTyped
<1>3. SkBooting'
  BY <1>1 DEF SkInv, SkBooting, Skill!SkillAt
<1>4. SkDistinct'
  BY <1>1 DEF SkInv, SkDistinct
<1>5. SkScans'
  <2>1. \A t \in Skill!SkillTasks : Skill!SkillAt(t, "scan")' => skillJob'[t] = skillJob[t] /\ Skill!SkillAt(t, "scan")
    BY <1>1 DEF Skill!SkillAt
  <2> QED BY <2>1, SkSameCatalog DEF SkInv, SkScans, SkIsRead
<1>6. SkReloads'
  <2>1. ~Skill!Reloading(k) /\ ~Skill!Reloading(k)'
    <3>1. skillJob[k].pc \in SkPlaces
      BY DEF SkInv, SkTyped, SkJobs
    <3> QED BY <1>1, <3>1 DEF SkPlaces, Skill!SkillAt, Skill!Reloading
  <2>2. \A t \in Skill!SkillTasks : (Skill!Reloading(t)' <=> Skill!Reloading(t)) /\ (Skill!Reloading(t) => skillJob'[t] = skillJob[t])
    BY <1>1, <2>1 DEF Skill!Reloading
  <2>3. Skill!SomeReload' <=> Skill!SomeReload
    BY <2>2 DEF Skill!SomeReload
  <2>4. SkReloads
    BY DEF SkInv
  <2> QED BY <2>2, <2>3, <2>4 DEF SkReloads
<1>7. SkCalled'
  BY <1>1 DEF SkInv, SkCalled
<1> QED BY <1>2, <1>3, <1>4, <1>5, <1>6, <1>7 DEF SkInv

(* Nobody's reload begins or ends with such a call.                         *)
LEMMA SkCallReloads ==
  ASSUME SkInv, NEW k \in Skill!SkillTasks, ~Skill!SkillAt(k, "scan"), NEW job \in SkJobs,
         job.pc \in {"idle", "load", "save"}, skillJob' = [skillJob EXCEPT ![k] = job]
  PROVE  /\ Skill!SomeReload' <=> Skill!SomeReload
         /\ skillJob'[k] = job /\ \A t \in Skill!SkillTasks : t # k => skillJob'[t] = skillJob[t]
<1>1. skillJob'[k] = job /\ \A t \in Skill!SkillTasks : t # k => skillJob'[t] = skillJob[t]
  BY DEF SkInv, SkTyped
<1>2. skillJob[k].pc \in SkPlaces
  BY DEF SkInv, SkTyped, SkJobs
<1> QED BY <1>1, <1>2 DEF SkPlaces, Skill!SkillAt, Skill!Reloading, Skill!SomeReload

LEMMA SkActivates ==
  ASSUME SkInv, NEW k \in Skill!SkillTasks, Skill!SkillAt(k, "idle"), booting = <<>>, skillCallsLeft' \in 0..MaxSkillCalls,
         NEW s \in SkillSessions, NEW skill \in SkillIds, Skill!ActivateBegins(k, s, skill)
  PROVE  SkInv'
<1> DEFINE job == [Skill!NoSkillJob EXCEPT !.pc = "load", !.session = s, !.skill = skill]
<1>1. /\ skillJob' = [skillJob EXCEPT ![k] = job]
      /\ disturbed' = [disturbed EXCEPT ![s] = @ \/ Skill!SomeReload \/ \E t \in Skill!SkillTasks : Skill!OnSession(t, s)]
      /\ UNCHANGED <<docs, roots, entries, booting, activeFile, editsDone, loaded, reloadsMet, wanted>>
  BY DEF Skill!ActivateBegins
<1>2. job \in SkJobs /\ job.pc = "load" /\ job.session = s /\ job.skill = skill /\ job.scanned = <<>> /\ job.old = <<>>
  <2> DEFINE a == [Skill!NoSkillJob EXCEPT !.pc = "load"]
             b == [a EXCEPT !.session = s]
  <2>1. a \in SkJobs /\ a.pc = "load" /\ a.scanned = <<>> /\ a.old = <<>>
    BY SkNoJob DEF SkJobs, SkPlaces
  <2>2. job = [b EXCEPT !.skill = skill]
    OBVIOUS
  <2> HIDE DEF a, job
  <2>3. b \in SkJobs /\ b.pc = "load" /\ b.scanned = <<>> /\ b.old = <<>> /\ b.session = s
    BY <2>1 DEF SkJobs
  <2> HIDE DEF b
  <2> QED BY <2>2, <2>3 DEF SkJobs
<1> HIDE DEF job
<1>3. ~Skill!SkillAt(k, "scan")
  BY DEF Skill!SkillAt
<1>4. /\ Skill!SomeReload' <=> Skill!SomeReload
      /\ skillJob'[k] = job /\ \A t \in Skill!SkillTasks : t # k => skillJob'[t] = skillJob[t]
  BY <1>1, <1>2, <1>3, SkCallReloads
<1>5. /\ activeFile' \in [SkillSessions -> [state : SkStates, ids : SUBSET SkillIds]]
      /\ wanted' \in [SkillSessions -> SUBSET SkillIds] /\ disturbed \in [SkillSessions -> BOOLEAN]
  BY <1>1 DEF SkInv, SkTyped
<1>6. disturbed' \in [SkillSessions -> BOOLEAN]
  BY <1>1, <1>5 DEF Skill!SomeReload, Skill!Reloading, Skill!OnSession
<1>7. SkSessions'
  <2> SUFFICES ASSUME NEW r \in SkillSessions, ~disturbed'[r] PROVE SkSession(r)'
    BY DEF SkSessions
  <2>1. ~disturbed[r] /\ SkSession(r)
    BY <1>1, <1>5 DEF SkInv, SkSessions
  <2>2. CASE r # s
    <3>1. \A t \in Skill!SkillTasks : Skill!OnSession(t, r)' => t # k /\ Skill!OnSession(t, r) /\ skillJob'[t] = skillJob[t]
      BY <1>2, <1>4, <2>2 DEF Skill!OnSession
    <3>2. Skill!Ids(entries)' = Skill!Ids(entries)
      BY <1>1 DEF Skill!Ids
    <3> QED BY <1>1, <1>4, <2>1, <3>1, <3>2 DEF SkSession, Skill!SkillAt
  <2>3. CASE r = s
    <3>1. ~Skill!SomeReload /\ \A t \in Skill!SkillTasks : ~Skill!OnSession(t, s)
      BY <1>1, <1>5, <2>3
    <3>2. \A t \in Skill!SkillTasks : Skill!OnSession(t, s)' => t = k
      BY <1>4, <3>1 DEF Skill!OnSession
    <3>3. ~Skill!SkillAt(k, "save")'
      BY <1>2, <1>4 DEF Skill!SkillAt
    <3> QED BY <1>1, <1>4, <2>1, <2>3, <3>1, <3>2, <3>3 DEF SkSession
  <2> QED BY <2>2, <2>3
<1>8. job.pc \in {"idle", "load", "save"} /\ SkOnce(job.scanned) /\ SkOnce(job.old)
  BY <1>2, SkEmpty
<1>9. UNCHANGED <<docs, roots, entries, booting, editsDone, loaded, reloadsMet>>
  BY <1>1
<1>10. skillJob' = [skillJob EXCEPT ![k] = job] /\ job \in SkJobs
  BY <1>1, <1>2
<1>11. job.session \in SkillSessions /\ job.skill \in SkillIds
  BY <1>2
<1> QED BY <1>3, <1>5, <1>6, <1>7, <1>8, <1>9, <1>10, <1>11, SkCalls

LEMMA SkLoads ==
  ASSUME SkInv, NEW k \in Skill!SkillTasks, Skill!LoadsActive(k) PROVE SkInv'
<1> DEFINE s == skillJob[k].session
           file == activeFile[s]
<1>1. /\ Skill!SkillAt(k, "load")
      /\ UNCHANGED <<docs, roots, entries, booting, activeFile, editsDone, skillCallsLeft, loaded, reloadsMet, wanted,
                     disturbed>>
  BY DEF Skill!LoadsActive
<1>2. skillJob[k] \in SkJobs /\ SkOnce(skillJob[k].scanned) /\ SkOnce(skillJob[k].old) /\ ~Skill!SkillAt(k, "scan")
  BY <1>1 DEF SkInv, SkTyped, SkDistinct, Skill!SkillAt
<1>3. /\ activeFile' \in [SkillSessions -> [state : SkStates, ids : SUBSET SkillIds]]
      /\ wanted' \in [SkillSessions -> SUBSET SkillIds] /\ disturbed' \in [SkillSessions -> BOOLEAN]
      /\ skillCallsLeft' \in 0..MaxSkillCalls
  BY <1>1 DEF SkInv, SkTyped
<1>4. booting # <<>> => k = Skill!Main
  BY <1>1 DEF SkInv, SkBooting, Skill!SkillAt
<1>5. CASE file.state = "damaged"
  <2>1. skillJob' = [skillJob EXCEPT ![k] = Skill!NoSkillJob]
    BY <1>5 DEF Skill!LoadsActive, Skill!SkillEnds
  <2>2. Skill!NoSkillJob \in SkJobs /\ Skill!NoSkillJob.pc = "idle" /\ SkOnce(Skill!NoSkillJob.scanned) /\ SkOnce(Skill!NoSkillJob.old)
    BY SkNoJob, SkEmpty
  <2>3. /\ Skill!SomeReload' <=> Skill!SomeReload
        /\ skillJob'[k] = Skill!NoSkillJob /\ \A t \in Skill!SkillTasks : t # k => skillJob'[t] = skillJob[t]
    BY <1>2, <2>1, <2>2, SkCallReloads
  <2>4. SkSessions'
    <3> SUFFICES ASSUME NEW r \in SkillSessions, ~disturbed'[r] PROVE SkSession(r)'
      BY DEF SkSessions
    <3>1. SkSession(r)
      BY <1>1 DEF SkInv, SkSessions
    <3>2. \A t \in Skill!SkillTasks : Skill!OnSession(t, r)' => t # k /\ Skill!OnSession(t, r) /\ skillJob'[t] = skillJob[t]
      BY <2>2, <2>3 DEF Skill!OnSession
    <3>3. Skill!Ids(entries)' = Skill!Ids(entries)
      BY <1>1 DEF Skill!Ids
    <3> QED BY <1>1, <2>3, <3>1, <3>2, <3>3 DEF SkSession, Skill!SkillAt
  <2>5. UNCHANGED <<docs, roots, entries, booting, editsDone, loaded, reloadsMet>>
    BY <1>1
  <2> QED BY <1>2, <1>3, <2>1, <2>2, <2>4, <2>5, SkCalls
<1>6. CASE file.state # "damaged"
  <2> DEFINE ids == file.ids \cap Skill!Ids(entries)
             a == [skillJob[k] EXCEPT !.pc = "save"]
             job == [a EXCEPT !.ids = ids]
  <2>1. s \in SkillSessions /\ skillJob[k].skill \in SkillIds
    BY <1>1 DEF SkInv, SkCalled, Skill!SkillAt
  <2>2. skillJob' = [skillJob EXCEPT ![k] = job]
    BY <1>6 DEF Skill!LoadsActive
  <2>3. ids \in SUBSET SkillIds
    BY <2>1 DEF SkInv, SkTyped
  <2> HIDE DEF ids, s
  <2>4. /\ a \in SkJobs /\ a.pc = "save" /\ a.scanned = skillJob[k].scanned /\ a.old = skillJob[k].old
        /\ a.session = s /\ a.skill = skillJob[k].skill
    BY <1>2 DEF SkJobs, SkPlaces, s
  <2> HIDE DEF a
  <2>5. /\ job \in SkJobs /\ job.pc = "save" /\ job.scanned = skillJob[k].scanned /\ job.old = skillJob[k].old
        /\ job.session = s /\ job.skill = skillJob[k].skill /\ job.ids = ids
    BY <2>3, <2>4 DEF SkJobs
  <2> HIDE DEF job
  <2>6. /\ Skill!SomeReload' <=> Skill!SomeReload
        /\ skillJob'[k] = job /\ \A t \in Skill!SkillTasks : t # k => skillJob'[t] = skillJob[t]
    BY <1>2, <2>2, <2>5, SkCallReloads
  <2>7. \A r, t : t \in Skill!SkillTasks => (Skill!OnSession(t, r)' <=> Skill!OnSession(t, r))
    BY <1>1, <2>5, <2>6 DEF Skill!OnSession, Skill!SkillAt, s
  <2>8. Skill!Ids(entries)' = Skill!Ids(entries)
    BY <1>1 DEF Skill!Ids
  <2>9. SkSessions'
    <3> SUFFICES ASSUME NEW r \in SkillSessions, ~disturbed'[r] PROVE SkSession(r)'
      BY DEF SkSessions
    <3>1. SkSession(r)
      BY <1>1 DEF SkInv, SkSessions
    <3>2. ASSUME NEW t \in Skill!SkillTasks, Skill!OnSession(t, r)', Skill!SkillAt(t, "save")'
          PROVE  skillJob'[t].ids = wanted'[r] \cap Skill!Ids(entries)'
      <4>1. CASE t # k
        BY <1>1, <2>6, <2>7, <2>8, <3>1, <3>2, <4>1 DEF SkSession, Skill!SkillAt
      <4>2. CASE t = k
        <5>1. r = s
          BY <2>5, <2>6, <3>2, <4>2 DEF Skill!OnSession
        <5>2. ids = wanted[r] \cap Skill!Ids(entries)
          BY <3>1, <5>1 DEF SkSession, ids, s
        <5> QED BY <1>1, <2>5, <2>6, <2>8, <4>2, <5>2
      <4> QED BY <4>1, <4>2
    <3> QED BY <1>1, <2>6, <2>7, <3>1, <3>2 DEF SkSession
  <2>10. SkOnce(job.scanned) /\ SkOnce(job.old) /\ job.session \in SkillSessions /\ job.skill \in SkillIds
    BY <1>2, <2>1, <2>5
  <2>11. UNCHANGED <<docs, roots, entries, booting, editsDone, loaded, reloadsMet>>
    BY <1>1
  <2> QED BY <1>2, <1>3, <1>4, <2>2, <2>5, <2>9, <2>10, <2>11, SkCalls
<1> QED BY <1>5, <1>6

LEMMA SkSaves ==
  ASSUME SkInv, NEW k \in Skill!SkillTasks, Skill!SavesActive(k) PROVE SkInv'
<1> DEFINE s == skillJob[k].session
           skill == skillJob[k].skill
           new == [state |-> "whole", ids |-> skillJob[k].ids \cup {skill}]
           Nothing == UNCHANGED <<activeFile, wanted, disturbed>>
           Cut == /\ activeFile' = [activeFile EXCEPT ![s] = Skill!DamagedFile]
                  /\ disturbed' = [disturbed EXCEPT ![s] = TRUE] /\ UNCHANGED wanted
           Written == /\ activeFile' = [activeFile EXCEPT ![s] = new]
                      /\ wanted' = [wanted EXCEPT ![s] = (@ \cap Skill!Ids(entries)) \cup {skill}]
                      /\ UNCHANGED disturbed
<1>1. /\ Skill!SkillAt(k, "save") /\ skillJob' = [skillJob EXCEPT ![k] = Skill!NoSkillJob]
      /\ UNCHANGED <<docs, roots, entries, booting, editsDone, skillCallsLeft, loaded, reloadsMet>>
  BY DEF Skill!SavesActive, Skill!SkillEnds
<1>2. Nothing \/ Cut \/ Written
  BY DEF Skill!SavesActive
<1>3. ~Skill!SkillAt(k, "scan") /\ s \in SkillSessions /\ skill \in SkillIds /\ Skill!OnSession(k, s)
  BY <1>1 DEF SkInv, SkCalled, Skill!SkillAt, Skill!OnSession
<1>4. /\ activeFile \in [SkillSessions -> [state : SkStates, ids : SUBSET SkillIds]] /\ wanted \in [SkillSessions -> SUBSET SkillIds]
      /\ disturbed \in [SkillSessions -> BOOLEAN] /\ skillCallsLeft' \in 0..MaxSkillCalls
      /\ skillJob[k].ids \in SUBSET SkillIds
  BY <1>1 DEF SkInv, SkTyped, SkJobs
<1>5. new \in [state : SkStates, ids : SUBSET SkillIds] /\ new.ids = skillJob[k].ids \cup {skill}
  BY <1>3, <1>4 DEF SkStates
<1>6. Skill!DamagedFile \in [state : SkStates, ids : SUBSET SkillIds]
  BY DEF Skill!DamagedFile, SkStates
<1>7. /\ Skill!NoSkillJob \in SkJobs /\ Skill!NoSkillJob.pc = "idle"
      /\ SkOnce(Skill!NoSkillJob.scanned) /\ SkOnce(Skill!NoSkillJob.old)
  BY SkNoJob, SkEmpty
<1> HIDE DEF s, skill, new
<1>8. /\ Skill!SomeReload' <=> Skill!SomeReload
      /\ skillJob'[k] = Skill!NoSkillJob /\ \A t \in Skill!SkillTasks : t # k => skillJob'[t] = skillJob[t]
  BY <1>1, <1>3, <1>7, SkCallReloads
<1>9. /\ activeFile' \in [SkillSessions -> [state : SkStates, ids : SUBSET SkillIds]]
      /\ wanted' \in [SkillSessions -> SUBSET SkillIds] /\ disturbed' \in [SkillSessions -> BOOLEAN]
  <2>1. CASE Nothing
    BY <1>4, <2>1
  <2>2. CASE Cut
    BY <1>4, <1>6, <2>2
  <2>3. CASE Written
    BY <1>3, <1>4, <1>5, <2>3
  <2> QED BY <1>2, <2>1, <2>2, <2>3
<1>10. SkSessions'
  <2> SUFFICES ASSUME NEW r \in SkillSessions, ~disturbed'[r] PROVE SkSession(r)'
    BY DEF SkSessions
  <2>1. ~disturbed[r]
    BY <1>2, <1>3, <1>4
  <2>2. SkSession(r)
    BY <2>1 DEF SkInv, SkSessions
  <2>3. \A t \in Skill!SkillTasks : Skill!OnSession(t, r)' => t # k /\ Skill!OnSession(t, r) /\ skillJob'[t] = skillJob[t]
    BY <1>7, <1>8 DEF Skill!OnSession
  <2>4. Skill!Ids(entries)' = Skill!Ids(entries)
    BY <1>1 DEF Skill!Ids
  <2>5. CASE activeFile'[r] = activeFile[r] /\ wanted'[r] = wanted[r]
    BY <1>8, <2>2, <2>3, <2>4, <2>5 DEF SkSession, Skill!SkillAt
  <2>6. CASE ~(activeFile'[r] = activeFile[r] /\ wanted'[r] = wanted[r])
    <3>1. Written /\ r = s
      <4>1. ~Nothing
        BY <2>6
      <4>2. ~Cut
        BY <1>3, <1>4, <2>6
      <4>3. Written
        BY <1>2, <4>1, <4>2
      <4> QED BY <1>4, <2>6, <4>3
    <3>2. activeFile'[r].ids = skillJob[k].ids \cup {skill} /\ wanted'[r] = (wanted[r] \cap Skill!Ids(entries)) \cup {skill}
      BY <1>3, <1>4, <1>5, <3>1
    <3>3. skillJob[k].ids = wanted[r] \cap Skill!Ids(entries)
      BY <1>1, <1>3, <2>2, <3>1 DEF SkSession
    <3>4. \A t \in Skill!SkillTasks : ~Skill!OnSession(t, r)'
      BY <1>3, <2>2, <2>3, <3>1 DEF SkSession
    <3> QED BY <3>2, <3>3, <3>4 DEF SkSession
  <2> QED BY <2>5, <2>6
<1>11. UNCHANGED <<docs, roots, entries, booting, editsDone, loaded, reloadsMet>>
  BY <1>1
<1> QED BY <1>1, <1>3, <1>4, <1>7, <1>9, <1>10, <1>11, SkCalls

LEMMA SkDeletes ==
  ASSUME SkInv, NEW k \in Skill!SkillTasks, Skill!SkillAt(k, "idle"), skillCallsLeft' \in 0..MaxSkillCalls,
         NEW s \in SkillSessions, Skill!DeletesState(s)
  PROVE  SkInv'
<1>1. /\ \/ activeFile' = [activeFile EXCEPT ![s] = Skill!NoFile] /\ wanted' = [wanted EXCEPT ![s] = {}]
         \/ UNCHANGED <<activeFile, wanted>>
      /\ disturbed' = [disturbed EXCEPT ![s] = @ \/ \E t \in Skill!SkillTasks : Skill!OnSession(t, s)]
      /\ UNCHANGED <<docs, roots, entries, booting, skillJob, editsDone, loaded, reloadsMet>>
  BY DEF Skill!DeletesState
<1>2. /\ activeFile \in [SkillSessions -> [state : SkStates, ids : SUBSET SkillIds]] /\ wanted \in [SkillSessions -> SUBSET SkillIds]
      /\ disturbed \in [SkillSessions -> BOOLEAN] /\ skillJob \in [Skill!SkillTasks -> SkJobs]
  BY DEF SkInv, SkTyped
<1>3. Skill!NoFile \in [state : SkStates, ids : SUBSET SkillIds] /\ Skill!NoFile.ids = {}
  BY DEF Skill!NoFile, SkStates
<1>4. /\ activeFile' \in [SkillSessions -> [state : SkStates, ids : SUBSET SkillIds]]
      /\ wanted' \in [SkillSessions -> SUBSET SkillIds] /\ disturbed' \in [SkillSessions -> BOOLEAN]
  <2>1. activeFile' \in [SkillSessions -> [state : SkStates, ids : SUBSET SkillIds]]
    BY <1>1, <1>2, <1>3
  <2>2. wanted' \in [SkillSessions -> SUBSET SkillIds]
    BY <1>1, <1>2
  <2>3. disturbed' \in [SkillSessions -> BOOLEAN]
    BY <1>1, <1>2 DEF Skill!OnSession
  <2> QED BY <2>1, <2>2, <2>3
<1>5. SkSessions'
  <2> SUFFICES ASSUME NEW r \in SkillSessions, ~disturbed'[r] PROVE SkSession(r)'
    BY DEF SkSessions
  <2>1. ~disturbed[r] /\ (r = s => \A t \in Skill!SkillTasks : ~Skill!OnSession(t, r))
    BY <1>1, <1>2
  <2>2. SkSession(r)
    BY <2>1 DEF SkInv, SkSessions
  <2>3. /\ Skill!Ids(entries)' = Skill!Ids(entries) /\ (Skill!SomeReload' <=> Skill!SomeReload)
        /\ \A t \in Skill!SkillTasks : (Skill!OnSession(t, r)' <=> Skill!OnSession(t, r)) /\ skillJob'[t] = skillJob[t]
    BY <1>1 DEF Skill!Ids, Skill!SomeReload, Skill!Reloading, Skill!OnSession
  <2>4. CASE r = s
    <3>1. activeFile'[r].ids = wanted'[r]
      BY <1>1, <1>2, <1>3, <2>2, <2>4 DEF SkSession
    <3> QED BY <2>1, <2>3, <2>4, <3>1 DEF SkSession
  <2>5. CASE r # s
    <3>1. activeFile'[r] = activeFile[r] /\ wanted'[r] = wanted[r]
      BY <1>1, <1>2, <2>5
    <3> QED BY <2>2, <2>3, <3>1 DEF SkSession, Skill!SkillAt
  <2> QED BY <2>4, <2>5
<1>6. skillJob[k] \in SkJobs /\ SkOnce(skillJob[k].scanned) /\ SkOnce(skillJob[k].old) /\ skillJob[k].pc = "idle"
  BY <1>2 DEF SkInv, SkDistinct, Skill!SkillAt
<1>7. skillJob' = [skillJob EXCEPT ![k] = skillJob[k]] /\ ~Skill!SkillAt(k, "scan")
  BY <1>1, <1>2, <1>6 DEF Skill!SkillAt
<1>8. UNCHANGED <<docs, roots, entries, booting, editsDone, loaded, reloadsMet>>
  BY <1>1
<1> QED BY <1>4, <1>5, <1>6, <1>7, <1>8, SkCalls

-----------------------------------------------------------------------------
LEMMA SkEdits == ASSUME Skill!SkillsBounds, SkInv, Skill!EditsDocument PROVE SkInv'
<1>1. /\ editsDone < MaxSkillEdits /\ editsDone' = editsDone + 1
      /\ UNCHANGED <<roots, entries, booting, skillJob, activeFile, skillCallsLeft, loaded, reloadsMet, wanted, disturbed>>
      /\ \E root \in Skill!Roots, id \in SkillIds, doc \in {"absent", "good", "bad"} :
           docs' = [docs EXCEPT ![root][id] = doc]
  BY DEF Skill!EditsDocument
<1>2. MaxSkillEdits \in Nat /\ editsDone \in 0..MaxSkillEdits /\ loaded.edits \in Nat /\ \A k \in Skill!SkillTasks : skillJob[k].edits \in Nat
  BY DEF Skill!SkillsBounds, SkInv, SkTyped, SkJobs
<1>3. docs' \in [Skill!Roots -> [SkillIds -> {"absent", "good", "bad"}]]
  BY <1>1 DEF SkInv, SkTyped
<1>4. editsDone' \in 0..MaxSkillEdits
  BY <1>1, <1>2
<1>5. SkTyped'
  BY <1>1, <1>3, <1>4 DEF SkInv, SkTyped
<1>6. SkScans'
  <2>1. loaded.edits <= editsDone /\ \A k \in Skill!SkillTasks : Skill!SkillAt(k, "scan") =>
          skillJob[k].next \in 1..Len(roots) + 1 /\ skillJob[k].edits <= editsDone
    BY DEF SkInv, SkScans
  <2>2. loaded'.edits < editsDone' /\ \A k \in Skill!SkillTasks : Skill!SkillAt(k, "scan")' =>
          skillJob'[k].next \in 1..Len(roots') + 1 /\ skillJob'[k].edits < editsDone'
    BY <1>1, <1>2, <2>1 DEF Skill!SkillAt
  <2>3. loaded'.edits # editsDone' /\ loaded'.edits <= editsDone' /\ \A k \in Skill!SkillTasks : Skill!SkillAt(k, "scan")' =>
          skillJob'[k].next \in 1..Len(roots') + 1 /\ skillJob'[k].edits <= editsDone' /\ skillJob'[k].edits # editsDone'
    BY <1>1, <1>2, <2>2
  <2> QED BY <2>3 DEF SkScans
<1>7. SkBooting' /\ SkCalled' /\ SkDistinct'
  BY <1>1 DEF SkInv, SkBooting, SkCalled, SkDistinct, Skill!SkillAt
<1>8. SkReloads'
  BY <1>1 DEF SkInv, SkReloads, Skill!SomeReload, Skill!Reloading
<1>9. SkSessions'
  BY <1>1 DEF SkInv, SkSessions, SkSession, Skill!SomeReload, Skill!Reloading, Skill!OnSession, Skill!SkillAt, Skill!Ids
<1> QED BY <1>5, <1>6, <1>7, <1>8, <1>9 DEF SkInv

LEMMA SkStutter == ASSUME SkInv, UNCHANGED Skill!skillVars PROVE SkInv'
<1>1. UNCHANGED <<docs, roots, entries, booting, skillJob, activeFile, editsDone, skillCallsLeft, loaded, reloadsMet,
                  wanted, disturbed>>
  BY DEF Skill!skillVars
<1>2. SkTyped' /\ SkBooting' /\ SkCalled' /\ SkDistinct'
  BY <1>1 DEF SkInv, SkTyped, SkBooting, SkCalled, SkDistinct, Skill!SkillAt
<1>3. SkScans'
  BY <1>1, SkSameCatalog DEF SkInv, SkScans, SkIsRead, Skill!SkillAt
<1>4. SkReloads'
  BY <1>1 DEF SkInv, SkReloads, Skill!SomeReload, Skill!Reloading
<1>5. SkSessions'
  BY <1>1 DEF SkInv, SkSessions, SkSession, Skill!SomeReload, Skill!Reloading, Skill!OnSession, Skill!SkillAt, Skill!Ids
<1> QED BY <1>2, <1>3, <1>4, <1>5 DEF SkInv

LEMMA SkCallStep ==
  ASSUME Skill!SkillsBounds, SkInv, NEW k \in SkillCallers, Skill!SkillCall(k) PROVE SkInv'
<1>1. k \in Skill!SkillTasks /\ Skill!SkillAt(k, "idle") /\ booting = <<>>
  BY DEF Skill!SkillCall, Skill!SkillTasks, Skill!Booted
<1>2. skillCallsLeft' \in 0..MaxSkillCalls
  <2>1. skillCallsLeft \in 0..MaxSkillCalls /\ skillCallsLeft > 0 /\ skillCallsLeft' = skillCallsLeft - 1 /\ MaxSkillCalls \in Nat
    BY DEF Skill!SkillCall, SkInv, SkTyped, Skill!SkillsBounds
  <2> QED BY <2>1
<1>3. CASE Skill!Reload(k)
  <2>1. Skill!StartsReload(k) /\ roots' = roots /\ booting' = booting
    BY <1>3 DEF Skill!Reload
  <2>2. roots' \in Seq(Skill!Roots) /\ booting' \in Seq(Skill!Roots)
    BY <2>1 DEF SkInv, SkTyped
  <2> QED BY <1>1, <1>2, <2>1, <2>2, SkStarts
<1>4. ASSUME NEW s \in SkillSessions, NEW skill \in SkillIds, Skill!ActivateBegins(k, s, skill) PROVE SkInv'
  BY <1>1, <1>2, <1>4, SkActivates
<1>5. ASSUME NEW s \in SkillSessions, Skill!DeletesState(s) PROVE SkInv'
  BY <1>1, <1>2, <1>5, SkDeletes
<1> QED BY <1>3, <1>4, <1>5 DEF Skill!SkillCall

LEMMA SkStart == ASSUME Skill!SkillsBounds, Skill!Init PROVE SkInv
<1>1. /\ docs \in [Skill!Roots -> [SkillIds -> {"absent", "good"}]]
      /\ roots = <<>> /\ entries = <<>> /\ booting = <<SystemRoot, WritableRoot>>
      /\ skillJob = [k \in Skill!SkillTasks |-> Skill!NoSkillJob]
      /\ activeFile = [s \in SkillSessions |-> Skill!NoFile]
      /\ editsDone = 0 /\ skillCallsLeft = MaxSkillCalls
      /\ loaded.entries = <<>> /\ loaded.edits = 0 /\ loaded.roots = <<>>
      /\ reloadsMet = FALSE /\ wanted = [s \in SkillSessions |-> {}] /\ disturbed = [s \in SkillSessions |-> FALSE]
  BY DEF Skill!Init, Skill!BootOrder
<1>2. MaxSkillEdits \in Nat /\ MaxSkillCalls \in Nat
  BY DEF Skill!SkillsBounds
<1>3. SkTyped
  <2>1. docs \in [Skill!Roots -> [SkillIds -> {"absent", "good", "bad"}]]
    BY <1>1
  <2>2. roots \in Seq(Skill!Roots) /\ booting \in Seq(Skill!Roots) /\ entries \in Seq(SkEntries)
    BY <1>1 DEF Skill!Roots
  <2>3. skillJob \in [Skill!SkillTasks -> SkJobs]
    BY <1>1, SkNoJob
  <2>4. activeFile \in [SkillSessions -> [state : SkStates, ids : SUBSET SkillIds]]
    BY <1>1 DEF Skill!NoFile, SkStates
  <2>5. editsDone \in 0..MaxSkillEdits /\ skillCallsLeft \in 0..MaxSkillCalls
    BY <1>1, <1>2
  <2>6. loaded.entries \in Seq(SkEntries) /\ loaded.edits \in Nat
    BY <1>1
  <2>7. wanted \in [SkillSessions -> SUBSET SkillIds] /\ disturbed \in [SkillSessions -> BOOLEAN] /\ reloadsMet \in BOOLEAN
    BY <1>1
  <2> QED BY <2>1, <2>2, <2>3, <2>4, <2>5, <2>6, <2>7 DEF SkTyped
<1>4. \A k \in Skill!SkillTasks : skillJob[k] = Skill!NoSkillJob
  BY <1>1
<1>5. SkBooting /\ SkCalled
  BY <1>4, SkNoJob DEF SkBooting, SkCalled, Skill!SkillAt
<1>6. SkDistinct
  BY <1>1, <1>4, SkNoJob, SkEmpty DEF SkDistinct
<1>7. SkScans
  <2>1. \A k \in Skill!SkillTasks : ~Skill!SkillAt(k, "scan")
    BY <1>4, SkNoJob DEF Skill!SkillAt
  <2>2. loaded.edits <= editsDone /\ Len(roots) = 0
    BY <1>1
  <2>3. Skill!ToSet(loaded.entries) = SkCatalog(Len(roots))
    BY <1>1, <2>2, SkEmpty
  <2> QED BY <2>1, <2>2, <2>3 DEF SkScans
<1>8. SkReloads
  BY <1>1, <1>4, SkNoJob DEF SkReloads, Skill!SomeReload, Skill!Reloading
<1>9. SkSessions
  <2>1. \A s \in SkillSessions : activeFile[s].ids = wanted[s]
    BY <1>1 DEF Skill!NoFile
  <2> QED BY <1>4, <2>1, SkNoJob DEF SkSessions, SkSession, Skill!OnSession
<1> QED BY <1>3, <1>5, <1>6, <1>7, <1>8, <1>9 DEF SkInv

LEMMA SkStep == ASSUME Skill!SkillsBounds, SkInv, [Skill!Next]_(Skill!skillVars) PROVE SkInv'
<1>1. \A k \in SkillCallers : k \in Skill!SkillTasks
  BY DEF Skill!SkillTasks
<1>2. CASE Skill!AddDirectory
  BY <1>2, SkAdds
<1>3. CASE Skill!EditsDocument
  BY <1>3, SkEdits
<1>4. ASSUME NEW k \in Skill!SkillTasks, Skill!ScansRoot(k) PROVE SkInv'
  BY <1>4, SkScansRoot
<1>5. ASSUME NEW k \in Skill!SkillTasks, Skill!InstallsEntries(k) PROVE SkInv'
  BY <1>5, SkInstalls
<1>6. ASSUME NEW k \in SkillCallers, Skill!SkillCall(k) PROVE SkInv'
  BY <1>6, SkCallStep
<1>7. ASSUME NEW k \in SkillCallers, Skill!LoadsActive(k) PROVE SkInv'
  BY <1>1, <1>7, SkLoads
<1>8. ASSUME NEW k \in SkillCallers, Skill!SavesActive(k) PROVE SkInv'
  BY <1>1, <1>8, SkSaves
<1>9. CASE UNCHANGED Skill!skillVars
  BY <1>9, SkStutter
<1> QED BY <1>2, <1>3, <1>4, <1>5, <1>6, <1>7, <1>8, <1>9 DEF Skill!Next

LEMMA SkSound ==
  ASSUME SkInv PROVE Skill!TypeOK /\ Skill!CatalogIsSound /\ Skill!ActiveIsKept
<1>1. Skill!TypeOK
  <2>1. /\ roots \in Seq(Skill!Roots) /\ booting \in Seq(Skill!Roots) /\ entries \in Seq(SkEntries)
    BY DEF SkInv, SkTyped
  <2>2. Skill!ToSet(roots) \subseteq Skill!Roots /\ Skill!ToSet(booting) \subseteq Skill!Roots
    BY <2>1 DEF Skill!ToSet
  <2>3. Skill!ToSet(entries) \subseteq SkEntries
    BY <2>1 DEF Skill!ToSet
  <2>4. /\ docs \in [Skill!Roots -> [SkillIds -> {"absent", "good", "bad"}]]
        /\ skillCallsLeft \in 0..MaxSkillCalls /\ editsDone \in 0..MaxSkillEdits
    BY DEF SkInv, SkTyped
  <2>5. \A s \in SkillSessions : activeFile[s].ids \subseteq SkillIds
    BY DEF SkInv, SkTyped
  <2> QED BY <2>2, <2>3, <2>4, <2>5 DEF Skill!TypeOK, SkEntries
<1>2. Skill!IsInjective([i \in DOMAIN entries |-> entries[i].id])
  BY DEF SkInv, SkDistinct, SkOnce, Skill!IsInjective
<1>3. ASSUME ~Skill!SomeReload, ~reloadsMet
      PROVE  /\ entries = loaded.entries
             /\ loaded.edits = editsDone /\ loaded.roots = roots => Skill!ToSet(entries) = Skill!Catalog
  <2>1. entries = loaded.entries
    BY <1>3 DEF SkInv, SkReloads
  <2>2. DOMAIN roots = 1..Len(roots)
    BY DEF SkInv, SkTyped
  <2>3. Skill!Catalog = SkCatalog(Len(roots))
    BY <2>2 DEF Skill!Catalog, SkCatalog, SkEntries
  <2> QED BY <2>1, <2>3 DEF SkInv, SkScans
<1>4. Skill!CatalogIsSound
  BY <1>2, <1>3 DEF Skill!CatalogIsSound
<1>5. Skill!ActiveIsKept
  BY DEF SkInv, SkSessions, SkSession, Skill!ActiveIsKept
<1> QED BY <1>1, <1>4, <1>5

-----------------------------------------------------------------------------
(***************************************************************************)
(* The copy on flash of a file in RAM.                                     *)
(***************************************************************************)

(* What is renamed is what was to be written; only between the unlink and   *)
(* the rename is the last copy gone, and never is there a part of one.      *)
RmKept ==
  /\ fat.file \in {kept, Ram!Absent}
  /\ mover.pc \in {"s_unlink", "s_rename"} => fat.tmp = mover.bytes
  /\ ~torn /\ mover.pc # "s_rename" => fat.file = kept

(* The mover and the copy are records of their shapes.                      *)
RmShapes ==
  /\ mover = [pc |-> mover.pc, job |-> mover.job, bytes |-> mover.bytes, fd |-> mover.fd]
  /\ fat = [file |-> fat.file, tmp |-> fat.tmp]

RmInv == RmShapes /\ RmKept

(* Steps that leave the flash alone, and the mover outside of a replacement. *)
LEMMA RmAside ==
  ASSUME RmInv, UNCHANGED <<fat, kept, torn>>,
         mover' = [pc |-> mover'.pc, job |-> mover'.job, bytes |-> mover'.bytes, fd |-> mover'.fd],
         mover'.pc \notin {"s_unlink", "s_rename"}, mover.pc # "s_rename"
  PROVE  RmInv'
BY DEF RmInv, RmShapes, RmKept

LEMMA RmUsesRam == ASSUME RmInv, Ram!MoverUsesRam PROVE RmInv'
<1>1. UNCHANGED <<fat, kept, torn>> /\ mover.pc \notin {"s_unlink", "s_rename"}
  BY DEF Ram!MoverUsesRam, Ram!SnapshotFile, Ram!SyncTreeBegins, Ram!LoadBegins, Ram!LoadMakesDir, Ram!LoadUnlinksTmp,
     Ram!LoadOpensTmp, Ram!LoadWrites, Ram!LoadCloses, Ram!LoadUnlinks, Ram!LoadRenames, Ram!LoadCleansUp, Ram!AtMover,
     Ram!flashVars
<1> DEFINE Shaped(m) == m = [pc |-> m.pc, job |-> m.job, bytes |-> m.bytes, fd |-> m.fd]
<1>3. mover' # mover => Shaped(mover') /\ mover'.pc \notin {"s_unlink", "s_rename"}
  <2>1. ASSUME NEW pc2 \in {"mkdir", "unlinkTmp", "openTmp", "write", "close", "unlink", "rename", "cleanup", "s_tmp"},
               Ram!MoverTo(pc2) \/ Ram!MoverFails(pc2) \/ Ram!MoverEnds
        PROVE  Shaped(mover') /\ mover'.pc \notin {"s_unlink", "s_rename"}
    <3>1. CASE Ram!MoverTo(pc2)
      <4>1. mover' = [pc |-> pc2, job |-> mover.job, bytes |-> mover.bytes, fd |-> mover.fd]
        BY <3>1 DEF RmInv, RmShapes, Ram!MoverTo
      <4> QED BY <4>1
    <3>2. CASE Ram!MoverFails(pc2)
      <4>1. mover' = [pc |-> pc2, job |-> mover.job, bytes |-> Ram!Absent, fd |-> mover.fd]
        BY <3>2 DEF RmInv, RmShapes, Ram!MoverFails
      <4> QED BY <4>1
    <3>3. CASE Ram!MoverEnds
      BY <3>3 DEF Ram!MoverEnds, Ram!Idle
    <3> QED BY <2>1, <3>1, <3>2, <3>3
  <2>2. CASE Ram!SnapshotFile \/ Ram!SyncTreeBegins \/ \E whole \in BOOLEAN : Ram!LoadBegins(whole)
    BY <2>2 DEF Ram!SnapshotFile, Ram!SyncTreeBegins, Ram!LoadBegins, Ram!Idle
  <2>3. CASE Ram!LoadMakesDir \/ Ram!LoadUnlinksTmp \/ Ram!LoadCloses \/ Ram!LoadUnlinks \/ Ram!LoadRenames \/ Ram!LoadCleansUp
    BY <2>1, <2>3 DEF Ram!LoadMakesDir, Ram!LoadUnlinksTmp, Ram!LoadCloses, Ram!LoadUnlinks, Ram!LoadRenames, Ram!LoadCleansUp
  <2>4. CASE Ram!LoadOpensTmp
    BY <2>1, <2>4 DEF Ram!LoadOpensTmp, RmInv, RmShapes
  <2>5. CASE Ram!LoadWrites
    BY <2>1, <2>5 DEF Ram!LoadWrites
  <2> QED BY <2>2, <2>3, <2>4, <2>5 DEF Ram!MoverUsesRam
<1> QED BY <1>1, <1>3, RmAside DEF RmInv, RmShapes

LEMMA RmUsesFlash == ASSUME RmInv, Ram!MoverUsesFlash PROVE RmInv'
<1>1. CASE Ram!FlashOpenTmp
  BY <1>1 DEF Ram!FlashOpenTmp, RmInv, RmShapes, RmKept, Ram!AtMover, Ram!MoverTo, Ram!MoverEnds, Ram!Idle
<1>2. CASE Ram!FlashWrite
  BY <1>2 DEF Ram!FlashWrite, RmInv, RmShapes, RmKept, Ram!AtMover, Ram!MoverTo, Ram!MoverEnds, Ram!Idle
<1>3. CASE Ram!FlashUnlink
  BY <1>3 DEF Ram!FlashUnlink, RmInv, RmShapes, RmKept, Ram!AtMover, Ram!MoverTo
<1>4. CASE Ram!FlashRename
  BY <1>4 DEF Ram!FlashRename, RmInv, RmShapes, RmKept, Ram!AtMover, Ram!MoverEnds, Ram!Idle
<1> QED BY <1>1, <1>2, <1>3, <1>4 DEF Ram!MoverUsesFlash

LEMMA RmStart == ASSUME Ram!Init PROVE RmInv
BY DEF Ram!Init, RmInv, RmShapes, RmKept, Ram!Idle

LEMMA RmStep == ASSUME RmInv, [Ram!Next]_(Ram!ramfsVars) PROVE RmInv'
<1>1. CASE Ram!Client \/ Ram!Remount
  <2>1. UNCHANGED <<fat, kept, torn, mover>>
    BY <1>1 DEF Ram!Client, Ram!Remount, Ram!flashVars
  <2> QED BY <2>1 DEF RmInv, RmShapes, RmKept
<1>2. CASE Ram!Mover
  BY <1>2, RmUsesRam, RmUsesFlash DEF Ram!Mover
<1>3. CASE Ram!PowerFails
  BY <1>3 DEF Ram!PowerFails, RmInv, RmShapes, RmKept, Ram!AtMover, Ram!MoverEnds, Ram!Idle
<1>4. CASE UNCHANGED Ram!ramfsVars
  BY <1>4 DEF Ram!ramfsVars, Ram!flashVars, RmInv, RmShapes, RmKept
<1> QED BY <1>1, <1>2, <1>3, <1>4 DEF Ram!Next

LEMMA RmSound == ASSUME RmInv PROVE Ram!SyncedIsKept
BY DEF RmInv, RmKept, Ram!SyncedIsKept, Ram!AtMover

-----------------------------------------------------------------------------
(***************************************************************************)
(* The history and the long-term memory.  ClawMemory_proofs is about the   *)
(* modules SessionHistory and MemoryStore; the two among the stores are     *)
(* instances of them with the same definitions, which they have in common   *)
(* once they are expanded.                                                 *)
(***************************************************************************)
Proofs == INSTANCE ClawMemory_proofs WITH RecordLens <- MixedLens

HistoryInv == Proofs!HistoryInv /\ Proofs!TurnsInv

LEMMA HiAssumption == Proofs!HistoryAssumption
BY StoresAssumption
   DEF Proofs!HistoryAssumption, History!HistoryAssumption, Proofs!Types,
       History!Types, Proofs!Cell, History!Cell, Proofs!Entry, History!Entry

\* What the actions read.
LEMMA HiValidPair == Proofs!ValidPair = History!ValidPair
BY DEF Proofs!ValidPair, History!ValidPair, Proofs!Exists, History!Exists

LEMMA HiLoadable == Proofs!Loadable = History!Loadable
BY HiValidPair
   DEF Proofs!Loadable, History!Loadable, Proofs!Readable, History!Readable,
       Proofs!At, History!At, Proofs!Cells, History!Cells

LEMMA HiTotal ==
  ASSUME NEW lens, NEW k
  PROVE  Proofs!Total(lens, k) = History!Total(lens, k)
BY DEF Proofs!Total, History!Total

LEMMA HiInOrder == ASSUME NEW S PROVE Proofs!InOrder(S) = History!InOrder(S)
BY DEF Proofs!InOrder, History!InOrder, Proofs!Cardinality, History!Cardinality

LEMMA HiKept == Proofs!Kept = History!Kept
<1>1. ASSUME NEW i PROVE Proofs!TurnStart(i) = History!TurnStart(i)
  BY DEF Proofs!TurnStart, History!TurnStart, Proofs!Max, History!Max
<1>2. ASSUME NEW i PROVE Proofs!Completed(i) = History!Completed(i)
  BY <1>1 DEF Proofs!Completed, History!Completed, Proofs!Turn, History!Turn
<1>3. ASSUME NEW i PROVE Proofs!HasTools(i) = History!HasTools(i)
  BY <1>1 DEF Proofs!HasTools, History!HasTools, Proofs!Turn, History!Turn
<1>4. ASSUME NEW i PROVE Proofs!KeepRecord(i) = History!KeepRecord(i)
  BY <1>1, <1>2, <1>3
     DEF Proofs!KeepRecord, History!KeepRecord, Proofs!KeepsTools,
         History!KeepsTools
<1>5. Proofs!KeptPositions = History!KeptPositions
  <2>1. {i \in DOMAIN idx : Proofs!KeepRecord(i)} = {i \in DOMAIN idx : History!KeepRecord(i)}
    BY <1>4
  <2> QED BY <2>1, HiInOrder DEF Proofs!KeptPositions, History!KeptPositions
<1> QED BY <1>5 DEF Proofs!Kept, History!Kept

LEMMA HiNewOffset == ASSUME NEW k PROVE Proofs!NewOffset(k) = History!NewOffset(k)
BY HiKept, HiTotal DEF Proofs!NewOffset, History!NewOffset

LEMMA HiRewritten == ASSUME NEW k PROVE Proofs!Rewritten(k) = History!Rewritten(k)
BY HiKept, HiNewOffset DEF Proofs!Rewritten, History!Rewritten

LEMMA HiOverwritten == ASSUME NEW n PROVE Proofs!Overwritten(n) = History!Overwritten(n)
BY HiKept, HiNewOffset DEF Proofs!Overwritten, History!Overwritten

LEMMA HiBatchCells == Proofs!BatchCells = History!BatchCells
BY DEF Proofs!BatchCells, History!BatchCells, Proofs!FlattenSeq,
       History!FlattenSeq, Proofs!Cells, History!Cells

LEMMA HiBatchEntries ==
  ASSUME NEW size
  PROVE  Proofs!BatchEntries(size) = History!BatchEntries(size)
BY HiTotal
   DEF Proofs!BatchEntries, History!BatchEntries, Proofs!BatchLens,
       History!BatchLens

LEMMA HiFaults ==
  /\ Proofs!Faulty = History!Faulty
  /\ Proofs!Valid = History!Valid
  /\ Proofs!Invalid = History!Invalid
BY HiValidPair DEF Proofs!Faulty, History!Faulty, Proofs!Valid, History!Valid,
     Proofs!Invalid, History!Invalid

LEMMA HiNext == Proofs!Next = History!Next
<1>1. ASSUME NEW kind, NEW lens PROVE Proofs!Persist(kind, lens) = History!Persist(kind, lens)
  BY HiFaults DEF Proofs!Persist, History!Persist, Proofs!BatchTypes, History!BatchTypes
<1>2. Proofs!Recreate = History!Recreate
  BY DEF Proofs!Recreate, History!Recreate, Proofs!RecreateIdx, History!RecreateIdx
<1>3. Proofs!AppendData = History!AppendData
  BY HiBatchCells DEF Proofs!AppendData, History!AppendData
<1>4. Proofs!CloseIdx = History!CloseIdx
  BY HiBatchCells, HiBatchEntries
     DEF Proofs!CloseIdx, History!CloseIdx, Proofs!ToSet, History!ToSet,
         Proofs!Last, History!Last
<1>5. Proofs!CompactedSize = History!CompactedSize
  BY HiKept, HiNewOffset DEF Proofs!CompactedSize, History!CompactedSize
<1>6. Proofs!Compact = History!Compact
  BY HiFaults, <1>5
     DEF Proofs!Compact, History!Compact, Proofs!TooLarge, History!TooLarge,
         Proofs!Exists, History!Exists
<1>7. Proofs!MoveRecord = History!MoveRecord
  BY HiKept, HiNewOffset, HiOverwritten
     DEF Proofs!MoveRecord, History!MoveRecord, Proofs!EndsRecord,
         History!EndsRecord
<1>8. Proofs!FlushIdx = History!FlushIdx
  BY HiKept, HiRewritten, <1>5 DEF Proofs!FlushIdx, History!FlushIdx
<1>9. Proofs!TruncateIdx = History!TruncateIdx
  BY DEF Proofs!TruncateIdx, History!TruncateIdx
<1>10. Proofs!LoadResets = History!LoadResets
  BY HiLoadable, HiFaults
     DEF Proofs!LoadResets, History!LoadResets, Proofs!Exists, History!Exists
<1>11. Proofs!Break = History!Break
  BY HiFaults, HiKept, HiRewritten, HiOverwritten, HiBatchCells, HiBatchEntries
     DEF Proofs!Break, History!Break, Proofs!Aftermath, History!Aftermath
<1>12. Proofs!Delete = History!Delete
  BY DEF Proofs!Delete, History!Delete, Proofs!DeleteData, History!DeleteData,
         Proofs!DeleteIdx, History!DeleteIdx, Proofs!DeleteMarker,
         History!DeleteMarker, Proofs!DeleteFails, History!DeleteFails,
         Proofs!NotOpen, History!NotOpen, Proofs!Exists, History!Exists,
         Proofs!files, History!files
<1>13. ASSUME NEW types PROVE Proofs!Lens(types) = History!Lens(types)
  BY DEF Proofs!Lens, History!Lens, Proofs!Types, History!Types
<1>14. Proofs!BatchTypes = History!BatchTypes
  BY DEF Proofs!BatchTypes, History!BatchTypes
<1>15. (\E kind \in DOMAIN Proofs!BatchTypes :
           \E lens \in Proofs!Lens(Proofs!BatchTypes[kind]) :
              Proofs!Persist(kind, lens))
       = (\E kind \in DOMAIN History!BatchTypes :
            \E lens \in History!Lens(History!BatchTypes[kind]) : History!Persist(kind, lens))
  BY <1>1, <1>13, <1>14
<1> QED BY <1>2, <1>3, <1>4, <1>6, <1>7, <1>8, <1>9, <1>10, <1>11, <1>12, <1>15
        DEF Proofs!Next, History!Next

LEMMA HistoryStarts == ASSUME History!Init PROVE HistoryInv
<1>1. Proofs!Init
  BY DEF Proofs!Init, History!Init
<1> QED BY <1>1, HiAssumption, Proofs!HistoryInit, Proofs!TurnsInit DEF HistoryInv

LEMMA HistorySteps == ASSUME HistoryInv, History!Next \/ UNCHANGED historyVars PROVE HistoryInv'
<1>1. Proofs!Next \/ UNCHANGED Proofs!vars
  BY HiNext DEF Proofs!vars, Proofs!files, historyVars
<1> QED BY <1>1, HiAssumption, Proofs!HistoryNext, Proofs!TurnsNext DEF HistoryInv

LEMMA HistorySound ==
  ASSUME HistoryInv
  PROVE  /\ History!TypeOK /\ History!HistoryInOrder /\ History!NothingForgotten
         /\ History!SizeSettled /\ History!ToolTurnKept
<1>1. /\ Proofs!TypeOK /\ Proofs!HistoryInOrder /\ Proofs!NothingForgotten
      /\ Proofs!SizeSettled /\ Proofs!ToolTurnKept
  BY HiAssumption, Proofs!HistoryInvType, Proofs!HistoryInvOrder,
     Proofs!HistoryInvKept, Proofs!TurnsKept
     DEF HistoryInv, Proofs!HistoryInv, Proofs!Settled
<1>2. Proofs!Quiet = History!Quiet
  BY HiLoadable DEF Proofs!Quiet, History!Quiet
<1>3. ASSUME NEW e PROVE Proofs!ReadBy(e) = History!ReadBy(e)
  BY DEF Proofs!ReadBy, History!ReadBy, Proofs!At, History!At
<1>4. Proofs!Loaded = History!Loaded
  BY HiLoadable, <1>3 DEF Proofs!Loaded, History!Loaded
<1>5. History!TypeOK
  BY <1>1
     DEF Proofs!TypeOK, History!TypeOK, Proofs!Exists, History!Exists,
         Proofs!Cell, History!Cell, Proofs!Entry, History!Entry,
         Proofs!Types, History!Types
<1>6. History!HistoryInOrder
  BY <1>1, <1>2, <1>3 DEF Proofs!HistoryInOrder, History!HistoryInOrder
<1>7. History!NothingForgotten
  BY <1>1, <1>2, <1>4 DEF Proofs!NothingForgotten, History!NothingForgotten
<1>8. History!SizeSettled
  BY <1>1
     DEF Proofs!SizeSettled, History!SizeSettled, Proofs!TooLarge,
         History!TooLarge, Proofs!Exists, History!Exists
<1>9. History!ToolTurnKept
  <2>1. ASSUME NEW L PROVE Proofs!ToolTurnsOf(L) <=> History!ToolTurnsOf(L)
    BY DEF Proofs!ToolTurnsOf, History!ToolTurnsOf, Proofs!Max, History!Max
  <2> QED BY <1>1, <1>2, <1>4, <2>1 DEF Proofs!ToolTurnKept, History!ToolTurnKept
<1> QED BY <1>5, <1>6, <1>7, <1>8, <1>9

(* The long-term memory.                                                  *)
LEMMA MeCount == ASSUME NEW S PROVE Proofs!Memory!Cardinality(S) = Memory!Cardinality(S)
BY DEF Proofs!Memory!Cardinality, Memory!Cardinality

LEMMA MePicked == ASSUME NEW seq, NEW S PROVE Proofs!Memory!Picked(seq, S) = Memory!Picked(seq, S)
BY DEF Proofs!Memory!Picked, Memory!Picked, Proofs!Memory!InOrder, Memory!InOrder,
       Proofs!Memory!Cardinality, Memory!Cardinality

LEMMA MeCurrent == ASSUME NEW lines PROVE Proofs!Memory!Current(lines) = Memory!Current(lines)
BY DEF Proofs!Memory!Current, Memory!Current, Proofs!Memory!Picked, Memory!Picked,
       Proofs!Memory!InOrder, Memory!InOrder, Proofs!Memory!Cardinality, Memory!Cardinality,
       Proofs!Memory!Latest, Memory!Latest, Proofs!Memory!IsFirst, Memory!IsFirst,
       Proofs!Memory!IsLast, Memory!IsLast, Proofs!Memory!CutLine, Memory!CutLine

LEMMA MeLive == ASSUME NEW lines PROVE Proofs!Memory!Live(lines) = Memory!Live(lines)
BY MePicked, MeCurrent
   DEF Proofs!Memory!Live, Memory!Live

LEMMA MeLiveSet == ASSUME NEW lines PROVE Proofs!Memory!LiveSet(lines) = Memory!LiveSet(lines)
BY MeLive
   DEF Proofs!Memory!LiveSet, Memory!LiveSet

LEMMA MeIsLive == ASSUME NEW id PROVE Proofs!Memory!IsLive(id) = Memory!IsLive(id)
BY MeLiveSet
   DEF Proofs!Memory!IsLive, Memory!IsLive

LEMMA MeStored == ASSUME NEW id PROVE Proofs!Memory!Stored(id) = Memory!Stored(id)
BY MeLiveSet
   DEF Proofs!Memory!Stored, Memory!Stored

LEMMA MeWithLine ==
  ASSUME NEW lines, NEW item
  PROVE  Proofs!Memory!WithLine(lines, item) = Memory!WithLine(lines, item)
BY DEF Proofs!Memory!WithLine, Memory!WithLine, Proofs!Memory!CutLine, Memory!CutLine

LEMMA MeEnsure ==
  ASSUME NEW index, NEW label, NEW preferred
  PROVE  Proofs!Memory!EnsureLabel(index, label, preferred) = Memory!EnsureLabel(index, label, preferred)
BY DEF Proofs!Memory!EnsureLabel, Memory!EnsureLabel

LEMMA MeCounted ==
  ASSUME NEW index, NEW sid
  PROVE  Proofs!Memory!Counted(index, sid) = Memory!Counted(index, sid)
BY DEF Proofs!Memory!Counted, Memory!Counted, Proofs!Memory!LabelOf, Memory!LabelOf

LEMMA MeUncounted ==
  ASSUME NEW index, NEW sid
  PROVE  Proofs!Memory!Uncounted(index, sid) = Memory!Uncounted(index, sid)
BY DEF Proofs!Memory!Uncounted, Memory!Uncounted, Proofs!Memory!LabelOf, Memory!LabelOf,
       Proofs!Memory!Absent, Memory!Absent

LEMMA MeAnew ==
  ASSUME NEW index, NEW label, NEW had
  PROVE  Proofs!Memory!CountedAnew(index, label, had) = Memory!CountedAnew(index, label, had)
BY MeEnsure, MeCounted
   DEF Proofs!Memory!CountedAnew, Memory!CountedAnew

LEMMA MeNewIndex ==
  ASSUME NEW items, NEW had, NEW upto
  PROVE  Proofs!Memory!NewIndexOf(items, had, upto) = Memory!NewIndexOf(items, had, upto)
BY MeAnew
   DEF Proofs!Memory!NewIndexOf, Memory!NewIndexOf, Proofs!Memory!NewIndex, Memory!NewIndex,
       Proofs!Memory!Absent, Memory!Absent

LEMMA MeWithRecalls ==
  ASSUME NEW items, NEW index, NEW digest
  PROVE  Proofs!Memory!WithRecalls(items, index, digest) = Memory!WithRecalls(items, index, digest)
BY MeCount
   DEF Proofs!Memory!WithRecalls, Memory!WithRecalls, Proofs!Memory!NumberOf, Memory!NumberOf

LEMMA MeMerged ==
  ASSUME NEW items, NEW newer
  PROVE  Proofs!Memory!Merged(items, newer) = Memory!Merged(items, newer)
BY DEF Proofs!Memory!Merged, Memory!Merged, Proofs!Memory!Joined, Memory!Joined,
       Proofs!Memory!KeysOf, Memory!KeysOf, Proofs!Memory!Place, Memory!Place,
       Proofs!Memory!Enriched, Memory!Enriched

LEMMA MeRelabelled ==
  ASSUME NEW items, NEW old
  PROVE  Proofs!Memory!Relabelled(items, old) = Memory!Relabelled(items, old)
BY MeNewIndex
   DEF Proofs!Memory!Relabelled, Memory!Relabelled

LEMMA MeTrimmed == ASSUME NEW items PROVE Proofs!Memory!Trimmed(items) = Memory!Trimmed(items)
BY MePicked, MeCount
   DEF Proofs!Memory!Trimmed, Memory!Trimmed

LEMMA MeWritten == ASSUME NEW items PROVE Proofs!Memory!Written(items) = Memory!Written(items)
BY MeCount
   DEF Proofs!Memory!Written, Memory!Written, Proofs!Memory!CutLine, Memory!CutLine

LEMMA MeResting == Proofs!Memory!Resting = Memory!Resting
BY DEF Proofs!Memory!Resting, Memory!Resting, Proofs!Memory!CutLine, Memory!CutLine,
       Proofs!Memory!NoIndex, Memory!NoIndex, Proofs!Memory!NewIndex, Memory!NewIndex,
       Proofs!Memory!Absent, Memory!Absent

(* What the actions do to a writer.                                        *)
LEMMA MeEnds == ASSUME NEW w PROVE Proofs!Memory!Ends(w) = Memory!Ends(w)
BY MeResting
   DEF Proofs!Memory!Ends, Memory!Ends, Proofs!Memory!Becomes, Memory!Becomes

LEMMA MeGoto == ASSUME NEW w, NEW to PROVE Proofs!Memory!Goto(w, to) = Memory!Goto(w, to)
BY DEF Proofs!Memory!Goto, Memory!Goto, Proofs!Memory!Becomes, Memory!Becomes

LEMMA MeSettles ==
  ASSUME NEW w, NEW to, NEW changes
  PROVE  Proofs!Memory!Settles(w, to, changes) = Memory!Settles(w, to, changes)
BY MeResting
   DEF Proofs!Memory!Settles, Memory!Settles, Proofs!Memory!Becomes, Memory!Becomes,
       Proofs!Memory!NoIndex, Memory!NoIndex, Proofs!Memory!NewIndex, Memory!NewIndex,
       Proofs!Memory!Absent, Memory!Absent

LEMMA MeBegins ==
  ASSUME NEW w, NEW op, NEW to, NEW id
  PROVE  Proofs!Memory!Begins(w, op, to, id) = Memory!Begins(w, op, to, id)
BY MeResting
   DEF Proofs!Memory!Begins, Memory!Begins, Proofs!Memory!At, Memory!At, Proofs!Memory!Booting,
       Memory!Booting, Proofs!Memory!Becomes, Memory!Becomes, Proofs!Memory!OthersRest,
       Memory!OthersRest, Proofs!Memory!files, Memory!files

LEMMA MeLooks ==
  ASSUME NEW w, NEW key, NEW label
  PROVE  Proofs!Memory!Looks(w, key, label) = Memory!Looks(w, key, label)
BY MeLiveSet, MeEnds
   DEF Proofs!Memory!Looks, Memory!Looks, Proofs!Memory!Becomes, Memory!Becomes,
       Proofs!Memory!Updating, Memory!Updating

LEMMA MeReplacing == ASSUME NEW o PROVE Proofs!Memory!Replacing(o) = Memory!Replacing(o)
BY DEF Proofs!Memory!Replacing, Memory!Replacing, Proofs!Memory!Updating, Memory!Updating,
       Proofs!Memory!Compacting, Memory!Compacting

LEMMA MeBeginStore == ASSUME NEW w PROVE Proofs!Memory!BeginStore(w) = Memory!BeginStore(w)
BY MeBegins
   DEF Proofs!Memory!BeginStore, Memory!BeginStore

LEMMA MeBeginUpdate == ASSUME NEW w PROVE Proofs!Memory!BeginUpdate(w) = Memory!BeginUpdate(w)
BY MeBegins
   DEF Proofs!Memory!BeginUpdate, Memory!BeginUpdate

LEMMA MeBeginForget == ASSUME NEW w PROVE Proofs!Memory!BeginForget(w) = Memory!BeginForget(w)
BY MeBegins
   DEF Proofs!Memory!BeginForget, Memory!BeginForget

LEMMA MeStoreItems == ASSUME NEW w PROVE Proofs!Memory!StoreItems(w) = Memory!StoreItems(w)
BY MeLooks
   DEF Proofs!Memory!StoreItems, Memory!StoreItems, Proofs!Memory!At, Memory!At,
       Proofs!Memory!files, Memory!files, Proofs!Memory!ids, Memory!ids, Proofs!Memory!history,
       Memory!history

LEMMA MeUpdateItems == ASSUME NEW w PROVE Proofs!Memory!UpdateItems(w) = Memory!UpdateItems(w)
BY MeLooks, MeEnds, MeIsLive, MeStored
   DEF Proofs!Memory!UpdateItems, Memory!UpdateItems, Proofs!Memory!At, Memory!At,
       Proofs!Memory!files, Memory!files, Proofs!Memory!ids, Memory!ids, Proofs!Memory!history,
       Memory!history

LEMMA MeOpensIndex ==
  ASSUME NEW index
  PROVE  Proofs!Memory!OpensIndex(index) = Memory!OpensIndex(index)
BY DEF Proofs!Memory!OpensIndex, Memory!OpensIndex, Proofs!Memory!Faulty, Memory!Faulty,
       Proofs!Memory!NewIndex, Memory!NewIndex, Proofs!Memory!Absent, Memory!Absent

LEMMA MeCannotParse == ASSUME NEW w PROVE Proofs!Memory!CannotParse(w) = Memory!CannotParse(w)
BY MeEnds
   DEF Proofs!Memory!CannotParse, Memory!CannotParse

LEMMA MeMadeIds == Proofs!Memory!MadeIds = Memory!MadeIds
BY DEF Proofs!Memory!MadeIds, Memory!MadeIds

LEMMA MeInUse == ASSUME NEW id PROVE Proofs!Memory!InUse(id) = Memory!InUse(id)
BY DEF Proofs!Memory!InUse, Memory!InUse

LEMMA MeStoreIndex == ASSUME NEW w PROVE Proofs!Memory!StoreIndex(w) = Memory!StoreIndex(w)
BY MeCannotParse, MeOpensIndex, MeMadeIds, MeInUse, MeEnsure
   DEF Proofs!Memory!StoreIndex, Memory!StoreIndex, Proofs!Memory!At, Memory!At,
       Proofs!Memory!Becomes, Memory!Becomes, Proofs!Memory!files, Memory!files,
       Proofs!Memory!NewIndex, Memory!NewIndex, Proofs!Memory!Absent, Memory!Absent

LEMMA MeStoreAppend == ASSUME NEW w PROVE Proofs!Memory!StoreAppend(w) = Memory!StoreAppend(w)
BY MeWithLine, MeGoto
   DEF Proofs!Memory!StoreAppend, Memory!StoreAppend, Proofs!Memory!At, Memory!At,
       Proofs!Memory!Rewriting, Memory!Rewriting, Proofs!Memory!Compacting, Memory!Compacting,
       Proofs!Memory!CutLine, Memory!CutLine, Proofs!Memory!Range, Memory!Range,
       Proofs!Memory!ids, Memory!ids

LEMMA MeStoreSave == ASSUME NEW w PROVE Proofs!Memory!StoreSave(w) = Memory!StoreSave(w)
BY MeCounted, MeSettles
   DEF Proofs!Memory!StoreSave, Memory!StoreSave, Proofs!Memory!At, Memory!At,
       Proofs!Memory!Updating, Memory!Updating, Proofs!Memory!ids, Memory!ids,
       Proofs!Memory!history, Memory!history

LEMMA MeForgetItems == ASSUME NEW w PROVE Proofs!Memory!ForgetItems(w) = Memory!ForgetItems(w)
BY MeEnds, MeIsLive, MeStored
   DEF Proofs!Memory!ForgetItems, Memory!ForgetItems, Proofs!Memory!At, Memory!At,
       Proofs!Memory!Becomes, Memory!Becomes, Proofs!Memory!files, Memory!files,
       Proofs!Memory!ids, Memory!ids, Proofs!Memory!history, Memory!history

LEMMA MeForgetAppend ==
  ASSUME NEW w
  PROVE  Proofs!Memory!ForgetAppend(w) = Memory!ForgetAppend(w)
BY MeWithLine, MeGoto, MeReplacing
   DEF Proofs!Memory!ForgetAppend, Memory!ForgetAppend, Proofs!Memory!At, Memory!At,
       Proofs!Memory!Updating, Memory!Updating, Proofs!Memory!ReliesOn, Memory!ReliesOn,
       Proofs!Memory!ids, Memory!ids

LEMMA MeForgetIndex == ASSUME NEW w PROVE Proofs!Memory!ForgetIndex(w) = Memory!ForgetIndex(w)
BY MeCannotParse, MeOpensIndex
   DEF Proofs!Memory!ForgetIndex, Memory!ForgetIndex, Proofs!Memory!At, Memory!At,
       Proofs!Memory!Becomes, Memory!Becomes, Proofs!Memory!files, Memory!files,
       Proofs!Memory!ids, Memory!ids, Proofs!Memory!NewIndex, Memory!NewIndex,
       Proofs!Memory!Absent, Memory!Absent

LEMMA MeForgetSave == ASSUME NEW w PROVE Proofs!Memory!ForgetSave(w) = Memory!ForgetSave(w)
BY MeUncounted, MeSettles
   DEF Proofs!Memory!ForgetSave, Memory!ForgetSave, Proofs!Memory!At, Memory!At,
       Proofs!Memory!Updating, Memory!Updating, Proofs!Memory!ids, Memory!ids,
       Proofs!Memory!history, Memory!history

LEMMA MeUpdateEnd == ASSUME NEW w PROVE Proofs!Memory!UpdateEnd(w) = Memory!UpdateEnd(w)
BY MeSettles
   DEF Proofs!Memory!UpdateEnd, Memory!UpdateEnd, Proofs!Memory!At, Memory!At,
       Proofs!Memory!files, Memory!files, Proofs!Memory!ids, Memory!ids, Proofs!Memory!history,
       Memory!history

LEMMA MeCompactRead == ASSUME NEW w PROVE Proofs!Memory!CompactRead(w) = Memory!CompactRead(w)
BY MeLive
   DEF Proofs!Memory!CompactRead, Memory!CompactRead, Proofs!Memory!At, Memory!At,
       Proofs!Memory!Becomes, Memory!Becomes, Proofs!Memory!files, Memory!files,
       Proofs!Memory!ids, Memory!ids, Proofs!Memory!history, Memory!history

LEMMA MeCompactIndex ==
  ASSUME NEW w
  PROVE  Proofs!Memory!CompactIndex(w) = Memory!CompactIndex(w)
BY MeCannotParse, MeOpensIndex
   DEF Proofs!Memory!CompactIndex, Memory!CompactIndex, Proofs!Memory!At, Memory!At,
       Proofs!Memory!Becomes, Memory!Becomes, Proofs!Memory!files, Memory!files,
       Proofs!Memory!ids, Memory!ids, Proofs!Memory!NewIndex, Memory!NewIndex,
       Proofs!Memory!Absent, Memory!Absent

LEMMA MeCompactSize == ASSUME NEW w PROVE Proofs!Memory!CompactSize(w) = Memory!CompactSize(w)
BY DEF Proofs!Memory!CompactSize, Memory!CompactSize, Proofs!Memory!At, Memory!At,
       Proofs!Memory!Becomes, Memory!Becomes, Proofs!Memory!files, Memory!files,
       Proofs!Memory!ids, Memory!ids, Proofs!Memory!history, Memory!history

LEMMA MeCompactDigest ==
  ASSUME NEW w PROVE Proofs!Memory!CompactDigest(w) <=> Memory!CompactDigest(w)
<1> DEFINE r == memWriter[w]
<1> DEFINE old == [r.index EXCEPT !.upto = r.size]
<1> DEFINE Reads(items, index, dropped) ==
      /\ memWriter' = [memWriter EXCEPT ![w] = [r EXCEPT !.pc = "compactWrite", !.items = items,
                                                        !.index = index, !.size = 0]]
      /\ memAcked' = memAcked \ dropped
<1> DEFINE Merges(newer, readable) ==
      Memory!Merged(IF readable THEN Memory!WithRecalls(r.items, r.index, memDigest) ELSE r.items,
                    newer)
<1> DEFINE ProofMerges(newer, readable) ==
      Proofs!Memory!Merged(IF readable THEN Proofs!Memory!WithRecalls(r.items, r.index, memDigest)
                           ELSE r.items,
                           newer)
<1> DEFINE Makes(merged) ==
      LET left == Memory!Trimmed(merged)
          new == Memory!Relabelled(left, old)
      IN  Reads(new.items, new.index, Memory!KeysOf(merged) \ Memory!KeysOf(left))
<1> DEFINE ProofMakes(merged) ==
      LET left == Proofs!Memory!Trimmed(merged)
          new == Proofs!Memory!Relabelled(left, old)
      IN  Reads(new.items, new.index,
                Proofs!Memory!KeysOf(merged) \ Proofs!Memory!KeysOf(left))
<1> DEFINE Recounts(readable) ==
      memRecounted' = (memRecounted \/ (readable /\ Len(memDigest) > r.size))
<1> DEFINE Body(made) ==
      /\ memWriter[w].pc = "compactDigest"
      /\ made
      /\ UNCHANGED <<memRecords, memIndex, memDigest, memChanges, memIds, memIdsRepeat, memOpsLeft,
                     memCutsLeft, memDamaged, memStale>>
<1>1. Memory!CompactDigest(w)
      <=> Body(\E newer, readable \in BOOLEAN : Makes(Merges(newer, readable)) /\ Recounts(readable))
  BY DEF Memory!CompactDigest, Memory!At, Memory!Becomes, Memory!files, Memory!ids
<1>2. Proofs!Memory!CompactDigest(w)
      <=> Body(\E newer, readable \in BOOLEAN :
                 ProofMakes(ProofMerges(newer, readable)) /\ Recounts(readable))
  BY DEF Proofs!Memory!CompactDigest, Proofs!Memory!At, Proofs!Memory!Becomes, Proofs!Memory!files,
         Proofs!Memory!ids
<1>3. ASSUME NEW newer, NEW readable PROVE ProofMerges(newer, readable) = Merges(newer, readable)
  BY MeWithRecalls, MeMerged
<1>4. ASSUME NEW items PROVE Proofs!Memory!KeysOf(items) = Memory!KeysOf(items)
  BY DEF Proofs!Memory!KeysOf, Memory!KeysOf
<1>5. ASSUME NEW merged PROVE ProofMakes(merged) <=> Makes(merged)
  <2>1. Proofs!Memory!Trimmed(merged) = Memory!Trimmed(merged)
    BY MeTrimmed
  <2>2. Proofs!Memory!Relabelled(Proofs!Memory!Trimmed(merged), old)
        = Memory!Relabelled(Memory!Trimmed(merged), old)
    BY <2>1, MeRelabelled
  <2>3. Proofs!Memory!KeysOf(merged) \ Proofs!Memory!KeysOf(Proofs!Memory!Trimmed(merged))
        = Memory!KeysOf(merged) \ Memory!KeysOf(Memory!Trimmed(merged))
    BY <1>4, <2>1
  <2> HIDE DEF Reads, old
  <2> QED BY <2>2, <2>3
<1> HIDE DEF Reads, Merges, ProofMerges, Makes, ProofMakes, Recounts
<1>6. (\E newer, readable \in BOOLEAN : Makes(Merges(newer, readable)) /\ Recounts(readable))
      <=> (\E newer, readable \in BOOLEAN :
             ProofMakes(ProofMerges(newer, readable)) /\ Recounts(readable))
  BY <1>3, <1>5
<1> QED BY <1>1, <1>2, <1>6

LEMMA MeCompactWrite ==
  ASSUME NEW w
  PROVE  Proofs!Memory!CompactWrite(w) = Memory!CompactWrite(w)
BY MeWritten, MeGoto, MeReplacing, MeIsLive, MeStored
   DEF Proofs!Memory!CompactWrite, Memory!CompactWrite, Proofs!Memory!At, Memory!At,
       Proofs!Memory!OthersRest, Memory!OthersRest, Proofs!Memory!Doubled, Memory!Doubled,
       Proofs!Memory!ids, Memory!ids

LEMMA MeCompactSave == ASSUME NEW w PROVE Proofs!Memory!CompactSave(w) = Memory!CompactSave(w)
BY MeResting
   DEF Proofs!Memory!CompactSave, Memory!CompactSave, Proofs!Memory!At, Memory!At,
       Proofs!Memory!Becomes, Memory!Becomes, Proofs!Memory!OthersRest, Memory!OthersRest,
       Proofs!Memory!NoIndex, Memory!NoIndex, Proofs!Memory!NewIndex, Memory!NewIndex,
       Proofs!Memory!Absent, Memory!Absent, Proofs!Memory!ids, Memory!ids

LEMMA MeOpenFails == ASSUME NEW w PROVE Proofs!Memory!OpenFails(w) = Memory!OpenFails(w)
BY MeEnds
   DEF Proofs!Memory!OpenFails, Memory!OpenFails, Proofs!Memory!At, Memory!At,
       Proofs!Memory!Faulty, Memory!Faulty, Proofs!Memory!Appending, Memory!Appending,
       Proofs!Memory!Saving, Memory!Saving, Proofs!Memory!ReadsRecords, Memory!ReadsRecords,
       Proofs!Memory!Updating, Memory!Updating, Proofs!Memory!files, Memory!files,
       Proofs!Memory!ids, Memory!ids

LEMMA MeMarkdownFails ==
  ASSUME NEW w
  PROVE  Proofs!Memory!MarkdownFails(w) = Memory!MarkdownFails(w)
BY MeEnds, MeCounted, MeUncounted
   DEF Proofs!Memory!MarkdownFails, Memory!MarkdownFails, Proofs!Memory!At, Memory!At,
       Proofs!Memory!Faulty, Memory!Faulty, Proofs!Memory!Saving, Memory!Saving,
       Proofs!Memory!Updating, Memory!Updating, Proofs!Memory!OthersRest, Memory!OthersRest,
       Proofs!Memory!ids, Memory!ids

LEMMA MeRecall == Proofs!Memory!Recall = Memory!Recall
BY MeLive, MePicked
   DEF Proofs!Memory!Recall, Memory!Recall, Proofs!Memory!Booting, Memory!Booting,
       Proofs!Memory!ids, Memory!ids, Proofs!Memory!history, Memory!history

LEMMA MePowerCut == Proofs!Memory!PowerCut = Memory!PowerCut
BY MeWithLine, MeResting
   DEF Proofs!Memory!PowerCut, Memory!PowerCut, Proofs!Memory!At, Memory!At, Proofs!Memory!Faulty,
       Memory!Faulty, Proofs!Memory!Appending, Memory!Appending, Proofs!Memory!Saving,
       Memory!Saving, Proofs!Memory!CutLine, Memory!CutLine, Proofs!Memory!NoIndex,
       Memory!NoIndex, Proofs!Memory!NewIndex, Memory!NewIndex, Proofs!Memory!Absent,
       Memory!Absent

LEMMA MeNext == Proofs!Memory!Next <=> Memory!Next
BY MeBeginStore, MeBeginUpdate, MeBeginForget, MeStoreItems, MeUpdateItems, MeStoreIndex,
   MeStoreAppend, MeStoreSave, MeForgetItems, MeForgetAppend, MeForgetIndex, MeForgetSave,
   MeUpdateEnd, MeCompactRead, MeCompactIndex, MeCompactSize, MeCompactDigest, MeCompactWrite,
   MeCompactSave, MeOpenFails, MeMarkdownFails, MeRecall, MePowerCut
   DEF Proofs!Memory!Next, Memory!Next

MemoryInv == Proofs!MemoryInv /\ Proofs!RecallsInv

LEMMA MeBounds == Proofs!Memory!MemoryBounds
BY StoresAssumption DEF Proofs!Memory!MemoryBounds, Memory!MemoryBounds

LEMMA MemoryStarts == ASSUME Memory!Init PROVE MemoryInv
<1>1. Proofs!Memory!Init
  BY MeResting
     DEF Proofs!Memory!Init, Memory!Init, Proofs!Memory!NewIndex, Memory!NewIndex,
         Proofs!Memory!Absent, Memory!Absent
<1> QED BY <1>1, MeBounds, Proofs!StartsSound, Proofs!StartsCounted DEF MemoryInv

LEMMA MemorySteps == ASSUME MemoryInv, Memory!Next \/ UNCHANGED memoryVars PROVE MemoryInv'
<1>1. Proofs!Memory!Next \/ UNCHANGED Proofs!Memory!memVars
  BY MeNext DEF Proofs!Memory!memVars, memoryVars
<1>2. Proofs!MemoryInv'
  BY <1>1, MeBounds, Proofs!StepsSound DEF MemoryInv
<1> QED BY <1>1, <1>2, MeBounds, Proofs!StepsCounted DEF MemoryInv

LEMMA MemorySound ==
  ASSUME MemoryInv PROVE Memory!TypeOK /\ Memory!MemoriesKept /\ Memory!RecallsCountedOnce
<1>1. Proofs!Memory!TypeOK /\ Proofs!Memory!MemoriesKept /\ Proofs!Memory!RecallsCountedOnce
  BY MeBounds, Proofs!MemoriesSound, Proofs!RecallsSound DEF MemoryInv
<1>2. Memory!TypeOK
  BY <1>1
     DEF Proofs!Memory!TypeOK, Memory!TypeOK, Proofs!Memory!Lines, Memory!Lines,
         Proofs!Memory!CutLine, Memory!CutLine, Proofs!Memory!Item, Memory!Item
<1>3. Memory!MemoriesKept
  BY <1>1, MeLiveSet
     DEF Proofs!Memory!MemoriesKept, Memory!MemoriesKept, Proofs!Memory!LiveKeys,
         Memory!LiveKeys
<1>4. Memory!RecallsCountedOnce
  BY <1>1, MeLiveSet DEF Proofs!Memory!RecallsCountedOnce, Memory!RecallsCountedOnce
<1> QED BY <1>2, <1>3, <1>4

-----------------------------------------------------------------------------
(***************************************************************************)
(* The stores side by side: each keeps its own invariant, as a step is of   *)
(* one store and the others do not move.                                  *)
(***************************************************************************)

StoresInv ==
  /\ In("history", HistoryInv) /\ In("maps", MapsInv) /\ In("rules", RulesInv)
  /\ In("skills", SkInv) /\ In("memory", MemoryInv) /\ In("ramfs", RmInv)

LEMMA StoresStart == ASSUME Init PROVE StoresInv
<1>1. Maps!SessionMapsBounds /\ Rules!RulesStoreBounds /\ Skill!SkillsBounds
  BY StoresAssumption
<1>2. Maps!Init /\ Rules!Init /\ Skill!Init /\ Ram!Init /\ History!Init /\ Memory!Init
  BY DEF Init
<1>3. MapsInv /\ RulesInv /\ SkInv /\ RmInv /\ HistoryInv /\ MemoryInv
  BY <1>1, <1>2, MapsStart, RulesStart, SkStart, RmStart, HistoryStarts, MemoryStarts
<1> QED BY <1>3 DEF StoresInv, In

LEMMA StoresStep == ASSUME StoresInv, [Next]_storeVars PROVE StoresInv'
<1>1. Maps!SessionMapsBounds /\ Rules!RulesStoreBounds /\ Skill!SkillsBounds
  BY StoresAssumption
<1>2. store' = store
  BY DEF Next, storeVars
<1>3. ASSUME store = "maps" PROVE MapsInv'
  <2>1. Maps!Next \/ UNCHANGED mapsVars
    BY <1>3 DEF Next, storeVars
  <2>2. [Maps!Next]_(Maps!sessionMapVars)
    BY <2>1 DEF mapsVars, Maps!sessionMapVars, Maps!mapVars
  <2>3. MapsInv
    BY <1>3 DEF StoresInv, In
  <2> QED BY <1>1, <2>2, <2>3, MapsStep
<1>4. ASSUME store = "rules" PROVE RulesInv'
  <2>1. Rules!Next \/ UNCHANGED ruleVars
    BY <1>4 DEF Next, storeVars
  <2>2. [Rules!Next]_(Rules!rulesVars)
    BY <2>1 DEF ruleVars, Rules!rulesVars
  <2>3. RulesInv
    BY <1>4 DEF StoresInv, In
  <2> QED BY <1>1, <2>2, <2>3, RulesStep
<1>5. ASSUME store = "skills" PROVE SkInv'
  <2>1. Skill!Next \/ UNCHANGED skillVars
    BY <1>5 DEF Next, storeVars
  <2>2. [Skill!Next]_(Skill!skillVars)
    BY <2>1 DEF skillVars, Skill!skillVars
  <2>3. SkInv
    BY <1>5 DEF StoresInv, In
  <2> QED BY <1>1, <2>2, <2>3, SkStep
<1>6. ASSUME store = "ramfs" PROVE RmInv'
  <2>1. Ram!Next \/ UNCHANGED ramVars
    BY <1>6 DEF Next, storeVars
  <2>2. CASE Ram!Next
    BY <1>6, <2>2, RmStep DEF StoresInv, In
  <2>3. CASE UNCHANGED ramVars
    <3>1. UNCHANGED <<fat, kept, torn, mover>>
      BY <2>3 DEF ramVars
    <3> QED BY <1>6, <3>1 DEF StoresInv, In, RmInv, RmShapes, RmKept
  <2> QED BY <2>1, <2>2, <2>3
<1>7. ASSUME store = "history" PROVE HistoryInv'
  <2>1. History!Next \/ UNCHANGED historyVars
    BY <1>7 DEF Next, storeVars
  <2> QED BY <1>7, <2>1, HistorySteps DEF StoresInv, In
<1>8. ASSUME store = "memory" PROVE MemoryInv'
  <2>1. Memory!Next \/ UNCHANGED memoryVars
    BY <1>8 DEF Next, storeVars
  <2> QED BY <1>8, <2>1, MemorySteps DEF StoresInv, In
<1> QED BY <1>2, <1>3, <1>4, <1>5, <1>6, <1>7, <1>8 DEF StoresInv, In

LEMMA StoresInvariant == Spec => []StoresInv
<1>1. Init => StoresInv
  BY StoresStart
<1>2. StoresInv /\ [Next]_storeVars => StoresInv'
  BY StoresStep
<1> QED BY <1>1, <1>2, PTL DEF Spec

(* Whatever append failed and whatever deletion or reset came between, a    *)
(* pair of history files that passes validation reads as records in the     *)
(* order they were handed over, each under its own type, unless a compaction *)
(* of it broke off (claw_memory_session.c:864-912, 1323-1455).               *)
THEOREM HistoryStaysInOrder == Spec => []HistoryInOrder
<1>1. StoresInv => HistoryInOrder
  BY HistorySound DEF StoresInv, HistoryInOrder, In
<1> QED BY <1>1, StoresInvariant, PTL

(* Every user text and final answer whose append succeeded is loaded until  *)
(* the history is reset, unless a compaction of it broke off.  Every memory  *)
(* whose append succeeded is there until it is forgotten or trimmed, unless  *)
(* a compaction of them was cut, did not fit its buffer, or met an append or *)
(* an update, somebody forgot the memory an update had relied on, the line   *)
(* before it had been cut, or it got an id that was in use                  *)
(* (claw_memory_session.c:1529-1547, 1614-1776; claw_memory_storage.c:534-  *)
(* 536, 997-1112; claw_memory_extract.c:351-357).                           *)
THEOREM NothingIsForgotten == Spec => []NothingForgotten
<1>1. StoresInv => NothingForgotten
  BY HistorySound, MemorySound DEF StoresInv, NothingForgotten, In
<1> QED BY <1>1, StoresInvariant, PTL

(* The tool records of the newest turn that ran tools and has been completed *)
(* are loaded until the history is reset, and a tool call that was appended  *)
(* is loaded if and only if its result is, whatever compactions have dropped *)
(* and whatever appends broke off, unless a compaction broke off            *)
(* (claw_memory_session.c:948-1048, 1614-1776).                              *)
THEOREM ToolTurnsStayKept == Spec => [](store = "history" => History!ToolTurnKept)
<1>1. StoresInv => (store = "history" => History!ToolTurnKept)
  BY HistorySound DEF StoresInv, In
<1> QED BY <1>1, StoresInvariant, PTL

(* A recall raises the count of a memory at most once, however often the    *)
(* records are compacted, unless a compaction broke off while the records    *)
(* were written or before the index was, another operation went on beside   *)
(* it, a recall was noted between the size of the digest and its reading, or *)
(* the index did not open (claw_memory_storage.c:39-57, 868-937, 967,        *)
(* 1093-1098).                                                              *)
THEOREM RecallsStayCounted == Spec => [](store = "memory" => Memory!RecallsCountedOnce)
<1>1. StoresInv => (store = "memory" => Memory!RecallsCountedOnce)
  BY MemorySound DEF StoresInv, In
<1> QED BY <1>1, StoresInvariant, PTL

(* A turn that has been completed and whose compaction has returned leaves  *)
(* a data file that fits the limit, or a blocked session; and the history   *)
(* keeps its types (claw_memory_session.c:1649-1660, 1778-1802).            *)
THEOREM HistoryStaysBounded ==
  Spec => [](store = "history" => History!SizeSettled /\ History!TypeOK)
<1>1. StoresInv => (store = "history" => History!SizeSettled /\ History!TypeOK)
  BY HistorySound DEF StoresInv, In
<1> QED BY <1>1, StoresInvariant, PTL

(* A session or subagent that is new has no history of an earlier one, and  *)
(* no subagent id is given out twice, whatever files could not be written   *)
(* and wherever the power failed; unless the map is damaged, it could once   *)
(* not be opened, or a turn ended after its session was deleted             *)
(* (claw_session_mgr.c:327-330, 795-800, 922-944, 1311-1324).               *)
THEOREM NothingIsInherited == Spec => []NothingInherited
<1>1. StoresInv => NothingInherited
  BY StoresAssumption, MapsSound DEF StoresInv, NothingInherited, In
<1> QED BY <1>1, StoresInvariant, PTL

(* The rules in force and the registry of skills are valid and have no id   *)
(* twice, and between reloads the registry is what the directories held,    *)
(* unless two reloads ran at once (claw_event_router.c:2691,                *)
(* claw_skill.c:857-872).                                                   *)
THEOREM ParsedStaysSound == Spec => []ParsedIsSound
<1>1. RulesInv => Rules!RulesAreSound
  BY DEF RulesInv, RuSoundInv
<1>2. StoresInv => ParsedIsSound
  BY <1>1, SkSound DEF StoresInv, ParsedIsSound, In
<1> QED BY <1>2, StoresInvariant, PTL

(* A session keeps exactly the skills activated in it since its state was   *)
(* deleted, unless its calls met each other or a reload or a write was cut  *)
(* (claw_skill.c:1481-1508).                                                *)
THEOREM ActiveStaysKept == Spec => [](store = "skills" => Skill!ActiveIsKept)
<1>1. StoresInv => (store = "skills" => Skill!ActiveIsKept)
  BY SkSound DEF StoresInv, In
<1> QED BY <1>1, StoresInvariant, PTL

(* What was synced last is on flash, through refused writes and power       *)
(* failures; if one falls between the unlink and the rename of a            *)
(* replacement, nothing is, and never a part of it (claw_ramfs.c:598-657).   *)
THEOREM SyncedStaysKept == Spec => [](store = "ramfs" => Ram!SyncedIsKept)
<1>1. StoresInv => (store = "ramfs" => Ram!SyncedIsKept)
  BY RmSound DEF StoresInv, In
<1> QED BY <1>1, StoresInvariant, PTL
=============================================================================
