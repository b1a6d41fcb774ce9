----------------------------- MODULE CacheSource -----------------------------
(***************************************************************************)
(* What a cache backend promises its callers, one archive at a time: the   *)
(* abstract class CacheSource, as the sources RSCache (sqlite with a live  *)
(* fallback) and Js5Cache (live only) keep it.                             *)
(*                                                                         *)
(* An archive of an index nobody has opened is "unopened".  Opening the    *)
(* index reads its reference table, which declares some archives           *)
(* ("declared") and not others ("absent").  Asking for an absent archive   *)
(* leaves an id = -1 place-holder behind ("phantom"); asking for a         *)
(* declared one may load it; dropping an archive makes it absent.          *)
(* Between those steps nothing happens to an archive: above all, the       *)
(* content a caller was handed is never replaced by other content.         *)
(***************************************************************************)

CONSTANTS
  Group,      \* the archives: pairs <<index id, archive id>>
  Content,    \* what a loaded archive may hold
  NoContent   \* what an archive that is not loaded holds

VARIABLES
  status,     \* status[g]: where g is in its life
  holds       \* holds[g]: the content of g

csVars == <<status, holds>>

Status == {"unopened", "absent", "phantom", "declared", "loaded"}

(* What a caller can tell of an archive. *)
CsTypeOK ==
  /\ status \in [Group -> Status]
  /\ holds \in [Group -> Content \cup {NoContent}]
-----------------------------------------------------------------------------
CsInit ==
  /\ status = [g \in Group |-> "unopened"]
  /\ holds = [g \in Group |-> NoContent]

(* g's index is opened: its reference table declares g, or does not. *)
Opens(g) ==
  /\ status[g] = "unopened"
  /\ status'[g] \in {"absent", "declared"}
  /\ holds'[g] = NoContent

(* A caller asks for g, which nothing declares. *)
Misses(g) ==
  /\ status[g] \in {"unopened", "absent"}
  /\ status'[g] = "phantom"
  /\ holds'[g] = NoContent

(* A caller asks for g, which is declared, and gets it. *)
Loads(g) ==
  /\ status[g] \in {"unopened", "declared"}
  /\ status'[g] = "loaded"
  /\ holds'[g] \in Content

(* A caller gives g back. *)
Drops(g) ==
  /\ status[g] # "unopened"
  /\ status'[g] = "absent"
  /\ holds'[g] = NoContent

Keeps(g) == status'[g] = status[g] /\ holds'[g] = holds[g]

(* A step is one call: it may open an index, with all of its archives, and *)
(* touches at most one archive of it beyond that.                          *)
CsNext ==
  /\ status' \in [Group -> Status]
  /\ holds' \in [Group -> Content \cup {NoContent}]
  /\ \/ \A g \in Group : Opens(g) \/ Keeps(g)
     \/ \E g \in Group :
          /\ Misses(g) \/ Loads(g) \/ Drops(g)
          /\ \A h \in Group \ {g} : Opens(h) \/ Keeps(h)

CsSpec == CsInit /\ [][CsNext]_csVars
=============================================================================
