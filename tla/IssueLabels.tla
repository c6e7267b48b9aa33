---------------------------- MODULE IssueLabels -----------------------------
(***************************************************************************)
(* Labels of a repository and of its pull requests, as the Forgejo client  *)
(* changes them: a label is put on and taken off by its ID, Forgejo has    *)
(* several labels of one name when they are created side by side, and the  *)
(* client goes from names to IDs by what it listed before.                 *)
(*                                                                         *)
(* A call of AddIssueLabels (for one name) or RemoveIssueLabel is a        *)
(* sequence of requests, between which those of other calls may come. The  *)
(* modules that use this one say who calls, and what fails.                *)
(***************************************************************************)
EXTENDS Integers, Sequences, FiniteSetsExt

CONSTANTS Names, Pulls, Clients

VARIABLES
  repoLabels,  \* the names of the repository's labels; the position is the ID
  attached,    \* the IDs on each pull request
  request      \* how far the call of each client is

labelVars == <<repoLabels, attached, request>>

IDs(name) == {i \in DOMAIN repoLabels : repoLabels[i] = name}
NamesOn(p) == {repoLabels[i] : i \in attached[p]}

NoRequest == [at |-> "none"]
Request ==
  [at : {"list", "look", "again", "create", "fetch", "post", "delete", "done"},
   kind : {"add", "remove"}, pull : Pulls, name : Names, ids : SUBSET Nat]

Returned(c) == request[c].at = "done"
Under(c, step) == request[c].at = step
GoesTo(c, step, ids) == request' = [request EXCEPT ![c].at = step, ![c].ids = ids]

Call(c, kind, p, name) ==
  /\ request' = [request EXCEPT ![c] = [at |-> "list", kind |-> kind, pull |-> p, name |-> name, ids |-> {}]]
  /\ UNCHANGED <<repoLabels, attached>>

(* A request that fails ends the call. Its callers only log that.          *)
RequestFails(c) ==
  /\ request[c].at \notin {"none", "done", "delete"}
  /\ GoesTo(c, "done", {})
  /\ UNCHANGED <<repoLabels, attached>>

(* The repository's labels, once more when the name is not among them. The *)
(* client reads one page of them, on which they all are here.              *)
KnownFirst(name) == IF IDs(name) = {} THEN {} ELSE {Min(IDs(name))}
Known(name) == IDs(name)

ListsLabels(c) ==
  LET r == request[c]
      ids == Known(r.name)
  IN /\ Under(c, "list")
     /\ GoesTo(c, IF r.kind = "add" THEN "look" ELSE IF ids = {} THEN "done" ELSE "delete", ids)
     /\ UNCHANGED <<repoLabels, attached>>

(* What the pull request has already is left out.                          *)
Looks(c) ==
  LET r == request[c]
  IN /\ Under(c, "look")
     /\ GoesTo(c, IF r.name \in NamesOn(r.pull) THEN "done" ELSE IF r.ids = {} THEN "again" ELSE "post", r.ids)
     /\ UNCHANGED <<repoLabels, attached>>

ListsAgain(c) ==
  LET ids == IDs(request[c].name)
  IN /\ Under(c, "again")
     /\ GoesTo(c, IF ids = {} THEN "create" ELSE "post", ids)
     /\ UNCHANGED <<repoLabels, attached>>

Creates(c) ==
  /\ Under(c, "create")
  /\ repoLabels' = Append(repoLabels, request[c].name)
  /\ GoesTo(c, "fetch", {})
  /\ UNCHANGED attached

Fetches(c) ==
  /\ Under(c, "fetch")
  /\ GoesTo(c, "post", IDs(request[c].name))
  /\ UNCHANGED <<repoLabels, attached>>

PostsLabel(c) ==
  LET r == request[c]
  IN /\ Under(c, "post")
     /\ attached' = [attached EXCEPT ![r.pull] = @ \cup {Min(r.ids)}]
     /\ GoesTo(c, "done", {})
     /\ UNCHANGED repoLabels

(* Every label of the name, one request each. One that fails does not keep *)
(* the next from being tried.                                              *)
Deletes(c, works) ==
  LET r == request[c]
      rest == r.ids \ {Min(r.ids)}
  IN /\ Under(c, "delete")
     /\ attached' = [attached EXCEPT ![r.pull] = IF works THEN @ \ {Min(r.ids)} ELSE @]
     /\ GoesTo(c, IF rest = {} THEN "done" ELSE "delete", rest)
     /\ UNCHANGED repoLabels

Serves(c) ==
  \/ ListsLabels(c) \/ Looks(c) \/ ListsAgain(c) \/ Creates(c) \/ Fetches(c) \/ PostsLabel(c)
  \/ Deletes(c, TRUE)

=============================================================================
