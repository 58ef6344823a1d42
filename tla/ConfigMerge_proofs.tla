--------------------------- MODULE ConfigMerge_proofs ---------------------------
(***************************************************************************)
(* Proofs about getConfigurations() (ConfigMerge): the loop keeps every    *)
(* variable in its type, for every reader, under SectionsAssumption.      *)
(* ConfigTypeOK is inductive as it stands.                                 *)
(***************************************************************************)
EXTENDS ConfigMerge, TLAPS

\* A function into AllValues on a set of keys of AllKeys is a configuration.
LEMMA ConfigsIntro ==
    ASSUME NEW f, f = [key \in DOMAIN f |-> f[key]],
           DOMAIN f \subseteq AllKeys,
           \A key \in DOMAIN f : f[key] \in AllValues
    PROVE  f \in Configs
<1>1. f \in [DOMAIN f -> AllValues]
  OBVIOUS
<1>. QED
  BY <1>1 DEF Configs

\* A configuration is a function on keys of AllKeys into AllValues.
LEMMA ConfigsElim ==
    ASSUME NEW f \in Configs
    PROVE  /\ f = [key \in DOMAIN f |-> f[key]]
           /\ DOMAIN f \subseteq AllKeys
           /\ \A key \in DOMAIN f : f[key] \in AllValues
<1>1. PICK D \in SUBSET AllKeys : f \in [D -> AllValues]
  BY DEF Configs
<1>. QED
  BY <1>1

\* Appending an element of S to a sequence over S.
LEMMA AppendSeq ==
    ASSUME NEW S, NEW q \in Seq(S), NEW e \in S
    PROVE  Append(q, e) \in Seq(S)
  OBVIOUS

\* Putting an element of S in front of a sequence over S.
LEMMA PrependSeq ==
    ASSUME NEW S, NEW q \in Seq(S), NEW e \in S
    PROVE  << e >> \o q \in Seq(S)
  OBVIOUS

\* Every header is a configuration.
LEMMA HeaderConfig ==
    ASSUME NEW h \in Headers
    PROVE  h \in Configs
<1>1. h = [key \in DOMAIN h |-> h[key]]
  BY SectionsAssumption
<1>2. DOMAIN h \subseteq AllKeys
  BY DEF AllKeys
<1>3. \A key \in DOMAIN h : h[key] \in AllValues
  <2>1. {h[key] : key \in DOMAIN h} \in {{c[key] : key \in DOMAIN c} : c \in Headers}
    OBVIOUS
  <2>. QED
    BY <2>1 DEF AllValues
<1>. QED
  BY <1>1, <1>2, <1>3, ConfigsIntro

\* The keys a section sets make a configuration.
LEMMA SectionConfig ==
    ASSUME NEW s \in Sections
    PROVE  s.cfg \in Configs
<1>1. s.cfg = [key \in DOMAIN s.cfg |-> s.cfg[key]]
  BY SectionsAssumption
<1>2. DOMAIN s.cfg \subseteq AllKeys
  <2>0. \E t \in Sections : DOMAIN s.cfg = DOMAIN t.cfg
    OBVIOUS
  <2>1. DOMAIN s.cfg \in {DOMAIN t.cfg : t \in Sections}
    BY <2>0, Zenon
  <2>. QED
    BY <2>1 DEF AllKeys
<1>3. \A key \in DOMAIN s.cfg : s.cfg[key] \in AllValues
  <2>0. \E t \in Sections : {s.cfg[key] : key \in DOMAIN s.cfg}
                               = {t.cfg[key] : key \in DOMAIN t.cfg}
    OBVIOUS
  <2>1. {s.cfg[key] : key \in DOMAIN s.cfg}
          \in {{t.cfg[key] : key \in DOMAIN t.cfg} : t \in Sections}
    BY <2>0, Zenon
  <2>. QED
    BY <2>1 DEF AllValues
<1>. QED
  BY <1>1, <1>2, <1>3, ConfigsIntro

\* Configuration::merge of two configurations is a configuration.
LEMMA MergeConfig ==
    ASSUME NEW g \in Configs, NEW c \in Configs
    PROVE  Merge(g, c) \in Configs
<1>1. /\ DOMAIN g \subseteq AllKeys
      /\ \A key \in DOMAIN g : g[key] \in AllValues
      /\ DOMAIN c \subseteq AllKeys
      /\ \A key \in DOMAIN c : c[key] \in AllValues
  BY ConfigsElim
<1>2. DOMAIN Merge(g, c) = DOMAIN g \cup DOMAIN c
  BY DEF Merge
<1>3. \A key \in DOMAIN Merge(g, c) : Merge(g, c)[key] \in AllValues
  BY <1>1, <1>2 DEF Merge
<1>4. Merge(g, c) = [key \in DOMAIN Merge(g, c) |-> Merge(g, c)[key]]
  BY DEF Merge
<1>. QED
  BY <1>1, <1>2, <1>3, <1>4, ConfigsIntro

LEMMA InitTypeOK ==
    Init => ConfigTypeOK
<1>. SUFFICES ASSUME Init PROVE ConfigTypeOK
  OBVIOUS
<1>1. PICK len \in 0..MaxSections : secs \in [1..len -> Sections]
  BY DEF Init
<1>2. secs \in Seq(Sections)
  BY <1>1, SectionsAssumption
<1>3. glob \in Configs
  BY HeaderConfig DEF Init
<1>4. n \in 1..(Len(secs) + 1)
  BY <1>1, <1>2, SectionsAssumption DEF Init
<1>. QED
  BY <1>2, <1>3, <1>4 DEF Init, ConfigTypeOK

LEMMA LoopStepTypeOK ==
    ConfigTypeOK /\ LoopStep => ConfigTypeOK'
<1>. SUFFICES ASSUME ConfigTypeOK, LoopStep PROVE ConfigTypeOK'
  OBVIOUS
<1>0. /\ secs \in Seq(Sections)
      /\ n \in 1..(Len(secs) + 1)
      /\ confs \in Seq(Sections \cup MergedSection)
  BY DEF ConfigTypeOK
<1>a. n <= Len(secs)
  BY DEF LoopStep
<1>1. n \in 1..Len(secs)
  BY <1>0, <1>a
<1>2. secs[n] \in Sections
  BY <1>0, <1>1
<1>3. n' \in 1..(Len(secs') + 1)
  <2>1. n' = n + 1 /\ secs' = secs
    BY DEF LoopStep
  <2>. QED
    BY <1>1, <2>1
<1>4. CASE secs[n].name = "" /\ glob' = Merge(glob, secs[n].cfg) /\ UNCHANGED confs
  <2>1. glob' \in Configs
    BY <1>2, <1>4, SectionConfig, MergeConfig DEF ConfigTypeOK
  <2>. QED
    BY <1>3, <1>4, <2>1 DEF LoopStep, ConfigTypeOK
<1>5. CASE secs[n].name # "" /\ confs' = Append(confs, secs[n]) /\ UNCHANGED glob
  <2>1. secs[n] \in Sections \cup MergedSection
    BY <1>2
  <2>2. confs \in Seq(Sections \cup MergedSection)
    BY <1>0
  <2>3. confs' \in Seq(Sections \cup MergedSection)
    BY <1>5, <2>1, <2>2, AppendSeq
  <2>. QED
    BY <1>3, <1>5, <2>3 DEF LoopStep, ConfigTypeOK
<1>. QED
  BY <1>4, <1>5 DEF LoopStep

LEMMA FinishTypeOK ==
    ConfigTypeOK /\ Finish => ConfigTypeOK'
<1>. SUFFICES ASSUME ConfigTypeOK, Finish PROVE ConfigTypeOK'
  OBVIOUS
<1>1. [name |-> "", cfg |-> glob] \in Sections \cup MergedSection
  BY DEF ConfigTypeOK, MergedSection
<1>3. confs \in Seq(Sections \cup MergedSection)
  BY DEF ConfigTypeOK
<1>4. confs' \in Seq(Sections \cup MergedSection)
  BY <1>1, <1>3, PrependSeq DEF Finish
<1>. QED
  BY <1>4 DEF Finish, ConfigTypeOK

(***************************************************************************)
(* getConfigurations() keeps its state well typed for every reader: the   *)
(* global section is always a configuration of the reader's keys and     *)
(* values, and the result holds only the reader's sections and the merged *)
(* one.                                                                    *)
(***************************************************************************)
THEOREM MergeTypeCorrect == Spec => []ConfigTypeOK
<1>1. Init => ConfigTypeOK
  BY InitTypeOK
<1>2. ConfigTypeOK /\ [Next]_vars => ConfigTypeOK'
  BY LoopStepTypeOK, FinishTypeOK DEF Next, vars, ConfigTypeOK
<1>. QED
  BY <1>1, <1>2, PTL DEF Spec

=============================================================================
