------------------------------- MODULE ConfigMerge -------------------------------
(***************************************************************************)
(* DetectorModel::getConfigurations() of src/core/geometry/DetectorModel.cpp *)
(* (lines 93-111): the header section is merged with every unnamed       *)
(* section of the reader, in declaration order; the named sections are   *)
(* kept in order; the merged section is put in front.  One action per     *)
(* iteration of the loop.                                                  *)
(*                                                                         *)
(* Configuration::merge is not under src/ and is modelled from spec       *)
(* section 4.4: a later section overrides the keys it sets.               *)
(***************************************************************************)
EXTENDS Integers, Sequences

CONSTANTS
    Headers,      \* the header sections the reader may hold
    Sections,     \* the sections getConfigurations() of the reader may return
    MaxSections   \* the largest number of them

\* A header is a function from the keys it sets to their values; a section
\* is its name ("" for a global one) and such a function.
ASSUME SectionsAssumption ==
    /\ MaxSections \in Nat
    /\ \A h \in Headers : h = [key \in DOMAIN h |-> h[key]]
    /\ \A s \in Sections :
          /\ s = [name |-> s.name, cfg |-> s.cfg]
          /\ s.name \in STRING
          /\ s.cfg = [key \in DOMAIN s.cfg |-> s.cfg[key]]

VARIABLES
    hdr,     \* reader_.getHeaderConfiguration()
    secs,    \* reader_.getConfigurations()
    pc,      \* "loop" or "done"
    glob,    \* global_config_
    confs,   \* configurations
    n        \* the section the loop takes next

vars == <<hdr, secs, pc, glob, confs, n>>

(***************************************************************************)
(* Configuration::merge(other), from spec section 4.4: the keys of both,  *)
(* other's value where it sets the key.                                   *)
(***************************************************************************)
Merge(g, c) == [key \in DOMAIN g \cup DOMAIN c |-> IF key \in DOMAIN c THEN c[key] ELSE g[key]]

\* Lines 94-96: no configurations yet; the global one starts as the header.
Init ==
    /\ hdr \in Headers
    /\ secs \in UNION {[1..len -> Sections] : len \in 0..MaxSections}
    /\ pc = "loop"
    /\ glob = hdr
    /\ confs = << >>
    /\ n = 1

\* Mutant: the loop steps over a section.
LoopStepSkipping ==
    /\ pc = "loop"
    /\ n <= Len(secs)
    /\ \/ secs[n].name = "" /\ glob' = Merge(glob, secs[n].cfg) /\ UNCHANGED confs
       \/ secs[n].name # "" /\ confs' = Append(confs, secs[n]) /\ UNCHANGED glob
    /\ n' = n + 2
    /\ UNCHANGED <<hdr, secs, pc>>

\* Lines 98-106: an unnamed section is merged into the global one, a named one stored.
LoopStep ==
    /\ pc = "loop"
    /\ n <= Len(secs)
    /\ \/ secs[n].name = "" /\ glob' = Merge(glob, secs[n].cfg) /\ UNCHANGED confs
       \/ secs[n].name # "" /\ confs' = Append(confs, secs[n]) /\ UNCHANGED glob
    /\ n' = n + 1
    /\ UNCHANGED <<hdr, secs, pc>>

\* Mutant: the global configuration is appended instead of prepended.
FinishAppending ==
    /\ pc = "loop"
    /\ n > Len(secs)
    /\ confs' = Append(confs, [name |-> "", cfg |-> glob])
    /\ pc' = "done"
    /\ UNCHANGED <<hdr, secs, glob, n>>

\* Lines 108-110: the global configuration is inserted in front.
Finish ==
    /\ pc = "loop"
    /\ n > Len(secs)
    /\ confs' = << [name |-> "", cfg |-> glob] >> \o confs
    /\ pc' = "done"
    /\ UNCHANGED <<hdr, secs, glob, n>>

Next == LoopStep \/ Finish

Spec == Init /\ [][Next]_vars /\ WF_vars(Next)

-----------------------------------------------------------------------------
(***************************************************************************)
(* Properties.                                                              *)
(***************************************************************************)
\* The keys and the values the sections of the reader may set.
AllKeys == (UNION {DOMAIN c : c \in Headers}) \cup (UNION {DOMAIN s.cfg : s \in Sections})
AllValues == (UNION {{c[key] : key \in DOMAIN c} : c \in Headers})
             \cup (UNION {{s.cfg[key] : key \in DOMAIN s.cfg} : s \in Sections})
Configs == UNION {[D -> AllValues] : D \in SUBSET AllKeys}
\* The merged global section getConfigurations() puts in front.
MergedSection == [name: {""}, cfg: Configs]

ConfigTypeOK ==
    /\ hdr \in Headers
    /\ secs \in Seq(Sections)
    /\ pc \in {"loop", "done"}
    /\ glob \in Configs
    /\ confs \in Seq(Sections \cup MergedSection)
    /\ n \in 1..(Len(secs) + 1)

\* The positions of the unnamed sections, and of those that set key.
Unnamed == {p \in 1..Len(secs) : secs[p].name = ""}
Setters(key) == {p \in Unnamed : key \in DOMAIN secs[p].cfg}

(***************************************************************************)
(* Spec section 4.4 in closed form: a key of the merged section has the   *)
(* value of the last unnamed section that sets it, or else the header's.  *)
(***************************************************************************)
MergedReference ==
    [key \in DOMAIN hdr \cup UNION {DOMAIN secs[p].cfg : p \in Unnamed} |->
        IF Setters(key) = {} THEN hdr[key]
        ELSE secs[CHOOSE p \in Setters(key) : \A q \in Setters(key) : q <= p].cfg[key]]

\* The named sections, in declaration order.
NamedSections == SelectSeq(secs, LAMBDA s : s.name # "")

(***************************************************************************)
(* Spec 4.4 and 8.7: getConfigurations() returns the header merged with   *)
(* every unnamed section, later ones overriding earlier keys, followed by *)
(* every named section unmodified and in declaration order.               *)
(***************************************************************************)
MergeResult ==
    pc = "done" => confs = << [name |-> "", cfg |-> MergedReference] >> \o NamedSections

=============================================================================
