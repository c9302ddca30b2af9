---------------------------------- MODULE Fftw ----------------------------------
(***************************************************************************)
(* The parallel tree walk of fftw.c, on the pool that Pool describes: every *)
(* name that a directory lists is an item, whose callback stats it, lists  *)
(* it in its turn if it is a directory, and then calls the function of the *)
(* user.  The root is processed by the caller, who then waits for all.     *)
(*                                                                         *)
(* The tree may change under the walk.  A name is listed once by its       *)
(* directory; "." and ".." are among the hidden names.  Links are not      *)
(* modelled: stat follows them, so that a link to a directory above it is  *)
(* walked until the path has too many links.                               *)
(***************************************************************************)
EXTENDS Naturals, FiniteSets, Sequences

CONSTANTS
  Entries, Root, Up,        (* the names of a tree, and the directory of each     *)
  Below,                    (* per name, those in it and in the directories of it *)
  Hidden,                   (* names that begin with a dot                        *)
  Trees,                    (* the trees to start from                            *)
  MaxChanges, MaxErrors     (* bounds: changes of the tree, calls that fail       *)

Named == Entries \ {Root}

\* S has all the names in e, and those in each of its members.
Closed(S, e) == \A x \in Named : Up[x] \in S \cup {e} => x \in S

\* Every name is below the root, and what is there is in a directory.
FftwAssumption ==
  /\ Root \in Entries /\ Root \notin Hidden /\ Up \in [Named -> Entries]
  /\ Below \in [Entries -> SUBSET Named] /\ Below[Root] = Named
  /\ \A e \in Entries : Closed(Below[e], e)
  /\ \A e \in Entries, S \in SUBSET Named : Closed(S, e) => Below[e] \subseteq S
  /\ Trees \subseteq [Entries -> {"none", "file", "dir"}]
  /\ \A t \in Trees, e \in Named : t[e] # "none" => t[Up[e]] = "dir"

VARIABLES
  item, stage,      (* of Pool: how far an item is, and whether fftw has returned *)
  kind,             (* what a name is now                                         *)
  at,               (* per name, where its process_one_item is                    *)
  flags,            (* per name, what fn is told: FTW_F, FTW_D or FTW_NS          *)
  unread,           (* per directory, what it held when it was opened and has not *)
                    (* been read                                                  *)
  calls,            (* history: per name, the calls of fn                         *)
  steady,           (* history: what has been there, and could be read, all along *)
  changes, errors

tree == <<kind, steady, changes, errors>>
walk == <<at, flags, unread, calls>>
vars == <<item, stage, tree, walk>>

BarRoot(e) == IF Up[e] = Root THEN "bar" ELSE "NULL"
\* Every item of the walk is submitted with the barrier that fftw waits for.
BarOf(e) == "bar"

Pool == INSTANCE Pool WITH
  Items <- Named, Clients <- {"caller"}, Barriers <- {"bar"},
  WaitFor <- [c \in {"caller"} |-> <<"bar">>],
  Bar <- [e \in Named |-> BarOf(e)], Key <- [e \in Named |-> 0]

Subtree(e) == Below[e] \cup {e}
Above(e)   == {d \in Entries : e \in Below[d]}
Listing(e) == {d \in Named : Up[d] = e /\ kind[d] # "none"}

Init ==
  /\ Pool!PoolInit
  /\ kind \in Trees
  /\ at = [e \in Entries |-> IF e = Root THEN "start" ELSE "new"]
  /\ flags = [e \in Entries |-> 0]
  /\ unread = [e \in Entries |-> {}]
  /\ calls = [e \in Entries |-> 0]
  /\ steady = {e \in Entries : kind[e] # "none" /\ (Above(e) \cup {e}) \cap Hidden = {}}
  /\ changes = 0 /\ errors = 0

--------------------------------------------------------------------------------
Goes(e, from, to) == at[e] = from /\ at' = [at EXCEPT ![e] = to]
\* process_one_item(e) returns: to the worker, or to fftw.
Returns(e) == IF e = Root THEN UNCHANGED <<item, stage>> ELSE Pool!Finish(e)

Take(e) ==
  /\ Goes(e, "new", "start") /\ Pool!Start(e)
  /\ UNCHANGED <<tree, flags, unread, calls>>

Skip(e) ==
  /\ e \in Hidden /\ Goes(e, "start", "done") /\ Returns(e)
  /\ UNCHANGED <<tree, flags, unread, calls>>

Stat(e) ==
  /\ e \notin Hidden
  /\ Goes(e, "start", IF kind[e] = "dir" THEN "opendir" ELSE "fn")
  /\ flags' = [flags EXCEPT ![e] = CASE kind[e] = "dir"  -> "FTW_D"
                                     [] kind[e] = "file" -> "FTW_F"
                                     [] kind[e] = "none" -> "FTW_NS"]
  /\ UNCHANGED <<item, stage, tree, unread, calls>>

\* A directory that cannot be opened is taken for an empty one.
opendir(e) ==
  /\ \/ /\ kind[e] = "dir" /\ Goes(e, "opendir", "readdir")
        /\ unread' = [unread EXCEPT ![e] = Listing(e)]
        /\ UNCHANGED <<errors, steady>>
     \/ /\ Goes(e, "opendir", "fn")
        /\ kind[e] = "dir" => errors < MaxErrors
        /\ errors' = IF kind[e] = "dir" THEN errors + 1 ELSE errors
        /\ steady' = steady \ Below[e]
        /\ UNCHANGED unread
  /\ UNCHANGED <<item, stage, kind, changes, flags, calls>>

\* The next name of the directory, which may be one that was added or removed since.
readdir(e, d) ==
  /\ at[e] = "readdir" /\ d \in Listing(e) \cup unread[e]
  /\ Pool!Submit(d)
  /\ UNCHANGED <<tree, walk>>

EndOfDir(e) ==
  /\ Goes(e, "readdir", "fn")
  /\ \A d \in unread[e] : kind[d] = "none" \/ item[d] # "new"
  /\ UNCHANGED <<item, stage, tree, flags, unread, calls>>

\* An error is taken for the end: what was not listed so far is not found.
readdirFails(e) ==
  /\ Goes(e, "readdir", "fn")
  /\ errors < MaxErrors /\ errors' = errors + 1
  /\ steady' = steady \ UNION {Subtree(d) : d \in {x \in unread[e] : item[x] = "new"}}
  /\ UNCHANGED <<item, stage, kind, changes, flags, unread, calls>>

fn(e) ==
  /\ Goes(e, "fn", "done") /\ Returns(e)
  /\ calls' = [calls EXCEPT ![e] = @ + 1]
  /\ UNCHANGED <<tree, flags, unread>>

process_one_item(e) ==
  \/ Skip(e) \/ Stat(e) \/ opendir(e) \/ EndOfDir(e) \/ readdirFails(e)
  \/ fn(e)
  \/ \E d \in Named : readdir(e, d)

bwait ==
  /\ at[Root] = "done" /\ Pool!Pass("caller")
  /\ UNCHANGED <<tree, walk>>

--------------------------------------------------------------------------------
\* Somebody takes a name away, with all below it, or adds one.
Remove(e) ==
  /\ changes < MaxChanges /\ changes' = changes + 1
  /\ kind[e] # "none"
  /\ kind' = [d \in Entries |-> IF d \in Subtree(e) THEN "none" ELSE kind[d]]
  /\ steady' = steady \ Subtree(e)
  /\ UNCHANGED <<item, stage, errors, walk>>

Add(e) ==
  /\ changes < MaxChanges /\ changes' = changes + 1
  /\ kind[e] = "none" /\ kind[Up[e]] = "dir" /\ item[e] = "new"
  /\ \E k \in {"file", "dir"} : kind' = [kind EXCEPT ![e] = k]
  /\ UNCHANGED <<item, stage, steady, errors, walk>>

Next ==
  \/ \E e \in Named : Take(e) \/ Remove(e) \/ Add(e)
  \/ \E e \in Entries : process_one_item(e)
  \/ bwait

Spec == Init /\ [][Next]_vars

--------------------------------------------------------------------------------
\* fn is called once at most for a name, never for a hidden one or below it, and only
\* for names of directories it is told of too.  When fftw returns, no call is
\* still to come, and every name that has been there all along, with its directories
\* readable, has had its call, however deep it is and whatever else changed.
WalkCovers ==
  /\ \A e \in Entries : calls[e] # 0 =>
       /\ calls[e] = 1 /\ (Above(e) \cup {e}) \cap Hidden = {}
       /\ e # Root => flags[Up[e]] = "FTW_D"
  /\ stage["caller"] = 2 =>
       /\ \A e \in Entries : at[e] \in {"new", "done"}
       /\ \A e \in Named : item[e] \in {"new", "done"}
       /\ \A e \in steady : calls[e] = 1
       /\ \A e \in Entries : calls[e] = 1 /\ e # Root => calls[Up[e]] = 1
================================================================================
