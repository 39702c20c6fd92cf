------------------------------ MODULE WebLists ------------------------------
(***************************************************************************)
(* The lists of remotes, routines and price rules: db.json behind the REST *)
(* API of backend/server.js, and the copies that a page of frontend/app.js *)
(* keeps of them.                                                          *)
(*                                                                         *)
(* The page changes its copy when an answer comes in, never at the click.  *)
(* Nothing keeps it from sending the next request before, so requests are  *)
(* served, and answers come in, in any order, or not at all.  What other   *)
(* pages change is not pushed.  An entry is its id, its name and the rest  *)
(* of it (buttons, steps or rule); what a dialog holds is chosen when it   *)
(* is saved.  Learned signals and the edit dialog of a button are          *)
(* LearnSession's, the running of routines and rules PriceRules'.          *)
(***************************************************************************)
EXTENDS Naturals, FiniteSets, Sequences, SequencesExt

CONSTANTS
  None, Names, Rests,
  Bare,     \* the rest of a new remote: no buttons
  Slug,     \* the id a name makes for a remote
  NoSlug,   \* the empty id, of a name without Latin letters and digits
  Stored,   \* what db.json holds at first
  Foreign,  \* what others may save or delete, <<kind, entry>>
  MaxOpen,  \* bound: requests under way at once
  MaxClicks, MaxOthers, MaxLosses  \* bounds, by name

Kinds   == {"remotes", "routines", "rules"}
Dialogs == {"routines", "rules"}
Uuids   == 1 .. MaxClicks
Ids     == {Slug[n] : n \in Names} \cup Uuids \cup {e.id : e \in UNION {Range(Stored[k]) : k \in Kinds}}
Entry   == [id : Ids, name : Names, rest : Rests]

ASSUME ListConstants ==
  /\ Bare \in Rests /\ Slug \in [Names -> Ids] /\ Stored \in [Kinds -> Seq(Entry)]
  /\ \A k \in Kinds : IsInjective([i \in DOMAIN Stored[k] |-> Stored[k][i].id])
  /\ Foreign \subseteq Kinds \X Entry
  /\ None \notin Ids /\ NoSlug # None
  /\ MaxOpen \in Nat \ {0} /\ {MaxClicks, MaxOthers, MaxLosses} \subseteq Nat

VARIABLES
  db,      \* db.json
  made,    \* how many uuids have been made
  list,    \* state.remotes, state.routines, state.rules; a tag names the object
  active,  \* state.activeRemoteId
  dialog,  \* the kind of the dialog that is open, and the id it edits, None for a new one
  reqs,    \* requests under way
  counts,  \* what the bounds count
  loaded,  \* ghost: the lists the page has loaded
  tangled  \* ghost: the ids the page need not have right, see About

pageVars == <<list, active, dialog>>
vars     == <<db, made, pageVars, reqs, counts, loaded, tangled>>

Count(k, max) == counts[k] < max /\ counts' = [counts EXCEPT ![k] = @ + 1]

Lookup(s, id) == {e \in Range(s) : e.id = id}
FirstId(s)    == IF s = <<>> THEN None ELSE s[1].id
Closed        == [kind |-> None, id |-> None]

Request(k, op, id, name, rest, tag) ==
  [kind |-> k, op |-> op, id |-> id, name |-> name, rest |-> rest, tag |-> tag,
   stage |-> "asked", answer |-> None]
Get(k) == Request(k, "get", None, None, None, 0)

(* The page is opened; boot asks for the remotes first.                    *)
Init ==
  /\ db = Stored /\ made = 0
  /\ list = [k \in Kinds |-> <<>>] /\ active = None /\ dialog = Closed
  /\ reqs = <<Get("remotes")>>
  /\ counts = [k \in {"click", "other", "loss"} |-> 0]
  /\ loaded = {} /\ tangled = [k \in Kinds |-> {}]

-----------------------------------------------------------------------------
(* Clicks                                                                  *)

(* The page may be wrong about an id that somebody else wrote after it     *)
(* loaded the list, that two of its requests were about at the same time   *)
(* (the one that loads the list is about all), or that an answer was lost  *)
(* about; about a new remote that got the id of another; and about an      *)
(* entry with the empty id, which is stored under a new one when saved.    *)
About(r, k, id) ==
  r.kind = k /\ (r.op = "get" \/ r.id = id \/ (r.stage = "served" /\ r.answer.id = id))
Overlaps(k, id, i) == \E j \in DOMAIN reqs \ {i} : About(reqs[j], k, id)

Click(r) ==
  /\ Count("click", MaxClicks) /\ Len(reqs) < MaxOpen /\ reqs' = Append(reqs, r)
  /\ tangled' = IF r.id # None /\ Overlaps(r.kind, r.id, 0)
                THEN [tangled EXCEPT ![r.kind] = @ \cup {r.id}] ELSE tangled
  /\ UNCHANGED <<db, made, pageVars, loaded>>

Active == Lookup(list["remotes"], active)
Free   == dialog = Closed  \* a dialog covers the page

AddRemote    == Free /\ \E n \in Names : Click(Request("remotes", "save", None, n, Bare, 0))
RenameRemote == Free /\ \E e \in Active, n \in Names :
                  n # e.name /\ Click(Request("remotes", "save", e.id, n, e.rest, e.tag))
AddButton    == Free /\ \E e \in Active, x \in Rests :
                  x # e.rest /\ Click(Request("remotes", "save", e.id, e.name, x, e.tag))
RemoveRemote == Free /\ \E e \in Active : Click(Request("remotes", "delete", e.id, None, None, 0))

(* toggleRule, and the saves and deletions of the dialogs                  *)
ToggleRule == Free /\ \E e \in Range(list["rules"]), x \in Rests :
                x # e.rest /\ Click(Request("rules", "save", e.id, e.name, x, e.tag))
SaveDialog == ~Free /\ \E n \in Names, x \in Rests :
                Click(Request(dialog.kind, "save", dialog.id, n, x, 0))
DeleteInDialog ==
  dialog.id # None /\ Click(Request(dialog.kind, "delete", dialog.id, None, None, 0))

Turn(d) == dialog' = d /\ UNCHANGED <<db, made, list, active, reqs, counts, loaded, tangled>>

OpenDialog(k) ==
  /\ Free
  /\ \/ \E e \in Range(list[k]) : Turn([kind |-> k, id |-> e.id])
     \/ /\ list["remotes"] # <<>> \/ (k = "rules" /\ list["routines"] # <<>>)
        /\ Turn([kind |-> k, id |-> None])

CloseDialog == ~Free /\ Turn(Closed)

Select ==
  /\ Free /\ \E e \in Range(list["remotes"]) : active' = e.id
  /\ UNCHANGED <<db, made, list, dialog, reqs, counts, loaded, tangled>>

-----------------------------------------------------------------------------
(* The server                                                              *)

(* Mutant: an entry is added though there is one with its id.              *)
StoredTwice(s, e) == Append(s, e)
StoredIn(s, e) ==
  IF Lookup(s, e.id) = {} THEN Append(s, e)
  ELSE [i \in DOMAIN s |-> IF s[i].id = e.id THEN e ELSE s[i]]
(* One entry at most has the id, see UniqueIds.                            *)
Deleted(s, id) == RemoveFirstMatch(s, LAMBDA e : e.id = id)

Falsy(id) == id \in {None, NoSlug}

(* Mutant: the id is taken as it comes.                                    *)
SaveIdAsPosted(r) == r.id

(* The id a save is stored under.                                          *)
SaveId(r) == IF ~Falsy(r.id) THEN r.id
             ELSE IF r.kind = "remotes" THEN Slug[r.name] ELSE made + 1

Asked(i, op)      == reqs[i].stage = "asked" /\ reqs[i].op = op
Served(i, answer) == reqs' = [reqs EXCEPT ![i].stage = "served", ![i].answer = answer]

ServeGet(i) ==
  /\ Asked(i, "get") /\ Served(i, db[reqs[i].kind])
  /\ tangled' = [tangled EXCEPT ![reqs[i].kind] = {id \in Ids : Overlaps(reqs[i].kind, id, i)}]
  /\ UNCHANGED <<db, made, pageVars, counts, loaded>>

(* A save under an id that is gone creates it again.                       *)
ServeSave(i) ==
  /\ Asked(i, "save")
  /\ LET r == reqs[i] k == r.kind
         e == [id |-> SaveId(r), name |-> r.name, rest |-> r.rest]
         surprise == Lookup(db[k], e.id) # {} \/ Overlaps(k, e.id, i)
     IN  /\ db' = [db EXCEPT ![k] = StoredIn(@, e)] /\ Served(i, e)
         /\ made' = IF k # "remotes" /\ Falsy(r.id) THEN made + 1 ELSE made
         /\ tangled' = [tangled EXCEPT ![k] = @ \cup
              (IF r.id = NoSlug THEN {NoSlug, e.id}
               ELSE IF r.id = None /\ surprise THEN {e.id} ELSE {})]
  /\ UNCHANGED <<pageVars, counts, loaded>>

(* The path of a deletion without an id leads nowhere.                     *)
ServeDelete(i) ==
  /\ Asked(i, "delete") /\ reqs[i].id # NoSlug
  /\ db' = [db EXCEPT ![reqs[i].kind] = Deleted(@, reqs[i].id)] /\ Served(i, [id |-> reqs[i].id])
  /\ UNCHANGED <<made, pageVars, counts, loaded, tangled>>

(* Another page, or anybody else who uses the API.                         *)
Other(k, e) ==
  /\ Count("other", MaxOthers)
  /\ \E s \in {StoredIn(db[k], e), Deleted(db[k], e.id)} : db' = [db EXCEPT ![k] = s]
  /\ tangled' = [tangled EXCEPT ![k] = @ \cup {e.id}]
  /\ UNCHANGED <<made, pageVars, reqs, loaded>>

-----------------------------------------------------------------------------
(* Answers                                                                 *)

(* boot asks for the lists one after the other; without the routines it    *)
(* does not go on to the rules.                                            *)
Others(i)     == RemoveAt(reqs, i)
AfterGet(i) ==
  reqs' = CASE reqs[i].kind = "remotes" -> Append(Others(i), Get("routines"))
            [] reqs[i].kind = "routines" /\ reqs[i].stage = "served" -> Append(Others(i), Get("rules"))
            [] OTHER -> Others(i)

(* A tag no object in the list or in a request has.                        *)
NewTag(k) ==
  1 + Max({0} \cup {e.tag : e \in Range(list[k])} \cup {reqs[i].tag : i \in DOMAIN reqs})
Object(tag, e) == [tag |-> tag, id |-> e.id, name |-> e.name, rest |-> e.rest]

AnswerGet(i) ==
  /\ reqs[i].stage = "served" /\ reqs[i].op = "get"
  /\ LET k == reqs[i].kind s == reqs[i].answer
     IN  /\ list' = [list EXCEPT ![k] = [j \in DOMAIN s |-> Object(NewTag(k) + j, s[j])]]
         /\ active' = IF k = "remotes" THEN FirstId(s) ELSE active
         /\ AfterGet(i) /\ loaded' = loaded \cup {k}
  /\ UNCHANGED <<db, made, dialog, counts, tangled>>

(* Mutant: a saved routine or rule always makes a new object.              *)
TargetNone(r) == {}

(* The object that takes the answer: the one that was clicked, or the      *)
(* first that has the id.                                                  *)
Target(r) ==
  LET s == list[r.kind]
      same == {j \in DOMAIN s : s[j].id = r.answer.id}
  IN  IF r.tag # 0 THEN {j \in DOMAIN s : s[j].tag = r.tag}
      ELSE IF r.kind = "remotes" \/ same = {} THEN {} ELSE {Min(same)}

AnswerSave(i) ==
  /\ reqs[i].stage = "served" /\ reqs[i].op = "save" /\ reqs' = Others(i)
  /\ LET r == reqs[i] k == r.kind targets == Target(r)
     IN  /\ list' = [list EXCEPT ![k] =
                       IF r.tag = 0 /\ targets = {} THEN Append(@, Object(NewTag(k), r.answer))
                       ELSE [j \in DOMAIN @ |-> IF j \in targets THEN Object(@[j].tag, r.answer) ELSE @[j]]]
         /\ active' = IF k = "remotes" /\ r.tag = 0 THEN r.answer.id ELSE active
         /\ dialog' = IF dialog.kind = k /\ r.tag = 0 THEN Closed ELSE dialog
  /\ UNCHANGED <<db, made, counts, loaded, tangled>>

(* The entries that do not have the id, in their order.                    *)
Without(s, id) ==
  LET kept  == {i \in DOMAIN s : s[i].id # id}
      At(j) == CHOOSE i \in kept : Cardinality({l \in kept : l <= i}) = j
  IN  [j \in 1 .. Cardinality(kept) |-> s[At(j)]]

AnswerDelete(i) ==
  /\ reqs[i].stage = "served" /\ reqs[i].op = "delete" /\ reqs' = Others(i)
  /\ LET k == reqs[i].kind s == Without(list[k], reqs[i].id)
     IN  /\ list' = [list EXCEPT ![k] = s]
         /\ active' = IF k = "remotes" THEN FirstId(s) ELSE active
         /\ dialog' = IF dialog.kind = k THEN Closed ELSE dialog
  /\ UNCHANGED <<db, made, counts, loaded, tangled>>

(* A request, or its answer, is lost, or refused: the page says so.        *)
Lose(i) ==
  /\ IF Asked(i, "delete") /\ reqs[i].id = NoSlug THEN UNCHANGED counts ELSE Count("loss", MaxLosses)
  /\ IF reqs[i].op = "get" THEN AfterGet(i) /\ UNCHANGED tangled
     ELSE /\ reqs' = Others(i)
          /\ tangled' = IF reqs[i].stage = "asked" THEN tangled
                        ELSE [tangled EXCEPT ![reqs[i].kind] = @ \cup {reqs[i].answer.id}]
  /\ UNCHANGED <<db, made, pageVars, loaded>>

-----------------------------------------------------------------------------
Next ==
  \/ AddRemote \/ RenameRemote \/ AddButton \/ RemoveRemote \/ ToggleRule \/ Select
  \/ (\E k \in Dialogs : OpenDialog(k)) \/ CloseDialog \/ SaveDialog \/ DeleteInDialog
  \/ \E x \in Foreign : Other(x[1], x[2])
  \/ \E i \in DOMAIN reqs : ServeGet(i) \/ ServeSave(i) \/ ServeDelete(i)
       \/ AnswerGet(i) \/ AnswerSave(i) \/ AnswerDelete(i) \/ Lose(i)
Spec == Init /\ [][Next]_vars

-----------------------------------------------------------------------------
Plain(e) == [id |-> e.id, name |-> e.name, rest |-> e.rest]
Places(s, id) == {i \in DOMAIN s : s[i].id = id}

TypeOK ==
  /\ \A k \in Kinds : {Plain(e) : e \in Range(list[k])} \cup Range(db[k]) \subseteq Entry
  /\ active \in Ids \cup {None} /\ loaded \subseteq Kinds /\ made \in 0 .. MaxClicks
  /\ dialog.kind \in Dialogs \cup {None} /\ dialog.id \in Ids \cup {None}
  /\ Len(reqs) <= MaxOpen

(* No two stored entries of a kind have one id: the API and the rules look *)
(* them up by it, and would see the first only.                            *)
UniqueIds ==
  \A k \in Kinds : \A i, j \in DOMAIN db[k] : db[k][i].id = db[k][j].id => i = j

(* The page has an entry exactly as it is stored, once or not at all,      *)
(* however its requests for other entries and its own start come in        *)
(* between; what it may be wrong about is named at About.                  *)
CopiesAgree ==
  \A k \in loaded : \A id \in Ids \ tangled[k] :
    (\A i \in DOMAIN reqs : reqs[i].stage = "served" => ~About(reqs[i], k, id)) =>
      LET mine == Places(list[k], id) theirs == Places(db[k], id)
      IN  \/ mine = {} /\ theirs = {}
          \/ \E i \in mine, j \in theirs :
               mine = {i} /\ theirs = {j} /\ Plain(list[k][i]) = db[k][j]

(* server.js: "If id is omitted, a new remote is created": the others stay *)
(* what they are.                                                          *)
CreateKeepsOthers ==
  [][\A i \in DOMAIN reqs : ServeSave(i) /\ reqs[i].kind = "remotes" /\ reqs[i].id = None =>
       Range(db["remotes"]) \subseteq Range(db'["remotes"])]_vars
=============================================================================
