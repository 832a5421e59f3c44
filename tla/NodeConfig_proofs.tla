------------------------- MODULE NodeConfig_proofs -------------------------
(***************************************************************************)
(* NodeConfig for any number of invocations, nodes and subscriptions: what *)
(* a one-shot run was given, and the marker that forces a selection, are   *)
(* never read in the configuration file.                                   *)
(***************************************************************************)
EXTENDS NodeConfig, TLAPS

USE ConfigAssumption

Writing == {"openCache", "writeCache", "openSave", "writeSave", "openEdit", "writeEdit"}

Loaded == {"choose", "cache", "openCache", "writeCache", "save"}

Keepable(settings) ==
    /\ settings.node \in granted
    /\ settings.link \in granted
    /\ settings.noUDP => "noUDP" \in granted
    /\ settings.select # "__select__"

(* The file, and whatever is about to be written to it, may be kept.       *)
FileKeepable ==
    /\ None \in granted
    /\ Keepable(Lookup(file))
    /\ \A r \in Runs : pc[r] \in Writing => Keepable(Lookup(out[r]))

(* What an invocation carries until it saves: the marker only if its flags *)
(* put it there; and a link, an option and a choice that may be kept if it *)
(* saves.                                                                  *)
CarriedKeepable ==
    \A r \in Runs : pc[r] \in Loaded =>
        /\ flags[r] \in Flags
        /\ v[r].select = "__select__" => flags[r].sub # None \/ flags[r].select
        /\ Saves(flags[r]) =>
              /\ v[r].link \in granted
              /\ flags[r].sub \in granted
              /\ v[r].noUDP => "noUDP" \in granted
              /\ pc[r] # "choose" => chosen[r] \in granted

IInv == TypeOK /\ FileKeepable /\ CarriedKeepable

(* What is written with its tables alone is read as it is.                 *)
LEMMA PlainLookup ==
    ASSUME NEW s \in Settings
    PROVE  Plain(s) \in Files /\ Lookup(Plain(s)) = s
<1>1. Plain(s) \in Files
  BY DEF Plain, Files
<1>2. Lookup(Plain(s)) = [s EXCEPT !.link = s.link, !.select = s.select]
  BY DEF Plain, Lookup, Settings
<1>3. [s EXCEPT !.link = s.link, !.select = s.select] = s
  BY DEF Settings
<1> QED
  BY <1>1, <1>2, <1>3

LEMMA LookupSettings ==
    ASSUME NEW f \in Files
    PROVE  Lookup(f) \in Settings
  BY DEF Lookup, Files, Settings, Selects

LEMMA InitIInv == Init => IInv
<1> SUFFICES ASSUME Init PROVE IInv
  OBVIOUS
<1>1. PICK s \in Subs \cup {None}, m \in {"first", "manual"}, c \in BOOLEAN :
         file = Plain([Defaults EXCEPT !.link = s, !.select = m, !.cacheLast = c])
  BY DEF Init
<1> DEFINE first == [Defaults EXCEPT !.link = s, !.select = m, !.cacheLast = c]
<1>2. first \in Settings /\ first.node = None /\ first.link = s /\ first.select = m
      /\ ~first.noUDP
  BY DEF Defaults, Settings, Selects
<1>3. file = Plain(first)
  BY <1>1
<1> HIDE DEF first
<1>4. file \in Files /\ Lookup(file) = first /\ file.own = first
  BY <1>2, <1>3, PlainLookup DEF Plain
<1>5. Defaults \in Settings
  BY DEF Defaults, Settings, Selects
<1>6. Plain(Defaults) \in Files
  BY <1>5, PlainLookup
<1>7. TypeOK
  BY <1>2, <1>4, <1>5, <1>6 DEF Init, TypeOK, Finished
<1>8. FileKeepable /\ CarriedKeepable
  BY <1>2, <1>4 DEF Init, FileKeepable, CarriedKeepable, Keepable, Writing, Loaded
<1> QED
  BY <1>7, <1>8 DEF IInv

(* Flags give well-formed settings, with the marker only when asked for.   *)
LEMMA WithFlagsLoaded ==
    ASSUME NEW s \in Settings, NEW f \in Flags
    PROVE  /\ WithFlags(s, f) \in Settings
           /\ WithFlags(s, f).link = IF f.sub # None THEN f.sub ELSE s.link
           /\ WithFlags(s, f).select =
                 IF f.sub # None \/ f.select THEN "__select__" ELSE s.select
           /\ WithFlags(s, f).noUDP => f.noUDP \/ s.noUDP
  BY DEF WithFlags, Settings, Flags, Selects

LEMMA LoadStep ==
    ASSUME IInv, NEW r \in Runs, NEW f \in Flags, Load(r, f)
    PROVE  IInv'
<1> DEFINE settings == Lookup(file)
           loaded == WithFlags(settings, f)
<1>0. settings \in Settings /\ Keepable(settings)
  BY LookupSettings DEF IInv, TypeOK, FileKeepable
<1> HIDE DEF settings
<1>1. loaded \in Settings
      /\ (loaded.select = "__select__" => f.sub # None \/ f.select)
      /\ loaded.link \in {f.sub, settings.link}
      /\ (loaded.noUDP => f.noUDP \/ settings.noUDP)
  BY <1>0, WithFlagsLoaded DEF Keepable
<1>2. PICK step \in {"failed", "choose"} : pc' = [pc EXCEPT ![r] = step]
  BY DEF Load, Goto
<1>3. /\ v' = [v EXCEPT ![r] = loaded]
      /\ flags' = [flags EXCEPT ![r] = f]
      /\ UNCHANGED <<file, chosen, out>>
      /\ granted' = IF Saves(f) THEN granted \cup Given(f) ELSE granted
  BY DEF Load, settings
<1>a. alone' \in [Runs -> BOOLEAN]
  BY Zenon DEF Load, Begins
<1> HIDE DEF loaded
<1>4. /\ granted \subseteq granted'
      /\ granted' \subseteq Nodes \cup Subs \cup {None, "noUDP"}
      /\ Saves(f) => f.sub \in granted' /\ (f.noUDP => "noUDP" \in granted')
  BY <1>3 DEF IInv, TypeOK, Flags, Given
<1>5. TypeOK'
  BY <1>1, <1>2, <1>3, <1>a, <1>4 DEF IInv, TypeOK, Finished
<1>6. FileKeepable'
  BY <1>2, <1>3, <1>4 DEF IInv, TypeOK, FileKeepable, Keepable, Writing
<1>7. CarriedKeepable'
  <2> SUFFICES ASSUME NEW q \in Runs, pc'[q] \in Loaded
               PROVE  /\ flags'[q] \in Flags
                      /\ v'[q].select = "__select__" => flags'[q].sub # None \/ flags'[q].select
                      /\ Saves(flags'[q]) =>
                            /\ v'[q].link \in granted'
                            /\ flags'[q].sub \in granted'
                            /\ v'[q].noUDP => "noUDP" \in granted'
                            /\ pc'[q] # "choose" => chosen'[q] \in granted'
    BY DEF CarriedKeepable, Saves
  <2>1. CASE q = r
    BY <2>1, <1>0, <1>1, <1>2, <1>3, <1>4 DEF IInv, TypeOK, Keepable, Loaded
  <2>2. CASE q # r
    BY <2>2, <1>2, <1>3, <1>4 DEF IInv, TypeOK, CarriedKeepable
  <2> QED
    BY <2>1, <2>2
<1> QED
  BY <1>5, <1>6, <1>7 DEF IInv

LEMMA ChooseStep ==
    ASSUME IInv, NEW r \in Runs, NEW node \in Nodes, NEW step \in {"cache", "save"},
           pc[r] = "choose", Choose(r, node, step)
    PROVE  IInv'
<1>1. granted \subseteq granted' /\ granted' \subseteq Nodes \cup Subs \cup {None, "noUDP"}
      /\ (Saves(flags[r]) => node \in granted')
  BY DEF IInv, TypeOK, Choose
<1>2. TypeOK'
  BY <1>1 DEF IInv, TypeOK, Choose, Goto
<1>3. FileKeepable'
  BY <1>1 DEF IInv, TypeOK, FileKeepable, Keepable, Choose, Goto, Writing
<1>4. CarriedKeepable'
  BY <1>1 DEF IInv, TypeOK, CarriedKeepable, Choose, Goto, Loaded, Saves
<1> QED
  BY <1>2, <1>3, <1>4 DEF IInv

LEMMA CacheStep ==
    ASSUME IInv, NEW r \in Runs, CacheSubscriptionNode(r)
    PROVE  IInv'
<1> DEFINE settings == Lookup(file)
           changed == [settings EXCEPT !.last = chosen[r]]
           noted == Plain(changed)
<1>0. settings \in Settings /\ Keepable(settings)
  BY LookupSettings DEF IInv, TypeOK, FileKeepable
<1>a. changed \in Settings /\ Keepable(changed)
  <2> HIDE DEF settings
  <2> QED
    BY <1>0 DEF IInv, TypeOK, Keepable, Settings
<1>1. noted \in Files /\ Keepable(Lookup(noted))
  <2> HIDE DEF changed
  <2> QED
    BY <1>a, PlainLookup
<1>2. \/ pc' = [pc EXCEPT ![r] = "openCache"] /\ out' = [out EXCEPT ![r] = noted]
      \/ pc' = [pc EXCEPT ![r] = "save"] /\ UNCHANGED out
  BY DEF CacheSubscriptionNode, Goto
<1> HIDE DEF noted
<1>3. TypeOK'
  BY <1>1, <1>2 DEF IInv, TypeOK, CacheSubscriptionNode
<1>4. FileKeepable'
  BY <1>1, <1>2 DEF IInv, TypeOK, FileKeepable, Keepable, CacheSubscriptionNode,
                    Writing
<1>5. CarriedKeepable'
  BY <1>2 DEF IInv, TypeOK, CarriedKeepable, CacheSubscriptionNode, Loaded, Saves
<1> QED
  BY <1>3, <1>4, <1>5 DEF IInv

(* What a run saves may be kept.                                           *)
LEMMA SettledKeepable ==
    ASSUME IInv, NEW r \in Runs, pc[r] = "save", Saves(flags[r])
    PROVE  Settled(r) \in Files /\ Keepable(Lookup(Settled(r)))
<1>1. flags[r] \in Flags /\ v[r] \in Settings /\ chosen[r] \in Nodes \cup {None}
  BY DEF IInv, TypeOK, CarriedKeepable, Loaded
<1>2. Settled(r) \in Files
  BY <1>1 DEF Settled, Files, Settings, Flags
<1>3. /\ Lookup(Settled(r)).node = chosen[r]
      /\ Lookup(Settled(r)).link \in {flags[r].sub, v[r].link}
      /\ Lookup(Settled(r)).noUDP = v[r].noUDP
      /\ (Lookup(Settled(r)).select = "__select__" =>
             ~(flags[r].sub # None \/ flags[r].select) /\ v[r].select = "__select__")
  BY <1>1, ConfigAssumption DEF Lookup, Settled, Settings, Flags
<1> QED
  BY <1>2, <1>3 DEF IInv, CarriedKeepable, Loaded, Keepable

LEMMA AutoSaveStep ==
    ASSUME IInv, NEW r \in Runs, AutoSave(r)
    PROVE  IInv'
<1>1. CASE Saves(flags[r]) /\ pc' = [pc EXCEPT ![r] = "openSave"]
           /\ out' = [out EXCEPT ![r] = Settled(r)]
  <2>1. Settled(r) \in Files /\ Keepable(Lookup(Settled(r)))
    BY <1>1, SettledKeepable DEF AutoSave
  <2>2. TypeOK'
    BY <1>1, <2>1 DEF IInv, TypeOK, AutoSave
  <2>3. FileKeepable'
    BY <1>1, <2>1 DEF IInv, TypeOK, FileKeepable, Keepable, AutoSave
  <2>4. CarriedKeepable'
    BY <1>1 DEF IInv, TypeOK, CarriedKeepable, AutoSave, Loaded, Saves
  <2> QED
    BY <2>2, <2>3, <2>4 DEF IInv
<1>2. CASE pc' = [pc EXCEPT ![r] = "using"] /\ UNCHANGED out
  <2>1. TypeOK'
    BY <1>2 DEF IInv, TypeOK, AutoSave, Finished
  <2>2. FileKeepable' /\ CarriedKeepable'
    BY <1>2 DEF IInv, TypeOK, FileKeepable, CarriedKeepable, Keepable, AutoSave,
                Loaded, Writing, Saves
  <2> QED
    BY <2>1, <2>2 DEF IInv
<1> QED
  BY <1>1, <1>2 DEF AutoSave, Goto

(* One setting of the file is changed to a value that may be kept.         *)
LEMMA EditStep ==
    ASSUME IInv, NEW r \in Runs, NEW key, NEW val, Edit(r, key, val),
           [Lookup(file) EXCEPT ![key] = val] \in Settings,
           key \in {"node", "link", "select", "noUDP"},
           key = "select" => val # "__select__"
    PROVE  IInv'
<1> DEFINE settings == Lookup(file)
           changed == [settings EXCEPT ![key] = val]
           edited == Plain(changed)
<1>0. settings \in Settings /\ Keepable(settings) /\ changed \in Settings
  BY LookupSettings DEF IInv, TypeOK, FileKeepable
<1> HIDE DEF settings
<1>1. /\ granted \subseteq granted'
      /\ granted' \subseteq Nodes \cup Subs \cup {None, "noUDP"}
      /\ key \in {"node", "link"} => val \in granted'
      /\ key = "noUDP" => "noUDP" \in granted'
  BY <1>0 DEF IInv, TypeOK, Edit, Settings
<1>2. /\ changed.node \in granted' /\ changed.link \in granted'
      /\ changed.noUDP => "noUDP" \in granted'
      /\ changed.select # "__select__"
  BY <1>0, <1>1 DEF IInv, TypeOK, Keepable, Settings
<1> HIDE DEF changed
<1>b. Lookup(edited) = changed /\ edited \in Files
  BY <1>0, PlainLookup
<1>c. edited = Plain([Lookup(file) EXCEPT ![key] = val])
  BY DEF changed, settings
<1> HIDE DEF edited
<1>3. /\ pc' = [pc EXCEPT ![r] = "openEdit"]
      /\ out' = [out EXCEPT ![r] = edited]
      /\ UNCHANGED <<file, flags, v, chosen>>
  BY <1>c DEF Edit, Goto
<1>a. alone' \in [Runs -> BOOLEAN]
  BY Zenon DEF Edit, Begins
<1>5. TypeOK'
  BY <1>1, <1>3, <1>a, <1>b DEF IInv, TypeOK
<1>6. FileKeepable'
  BY <1>1, <1>2, <1>3, <1>b DEF IInv, TypeOK, FileKeepable, Keepable
<1>7. CarriedKeepable'
  BY <1>1, <1>3 DEF IInv, TypeOK, CarriedKeepable, Loaded, Saves
<1> QED
  BY <1>5, <1>6, <1>7 DEF IInv

LEMMA WritesFile ==
    ASSUME IInv, NEW r \in Runs, OpenFile(r) \/ WriteFile(r)
    PROVE  IInv'
<1>0. Defaults \in Settings /\ Keepable(Defaults)
  BY DEF IInv, FileKeepable, Keepable, Defaults, Settings, Selects
<1>1. Plain(Defaults) \in Files /\ Keepable(Lookup(Plain(Defaults)))
  BY <1>0, PlainLookup
<1>2. PICK step \in {"writeCache", "writeSave", "writeEdit", "save", "using"} :
          /\ pc' = [pc EXCEPT ![r] = step]
          /\ step = "save" => pc[r] = "writeCache"
          /\ step = "writeCache" => pc[r] = "openCache"
          /\ pc[r] \in Writing
          /\ file' \in {Plain(Defaults), out[r]}
          /\ UNCHANGED <<flags, v, chosen, out, alone, granted>>
  BY DEF OpenFile, WriteFile, Goto, Writes, Continues, Writing
<1>3. file' \in Files /\ Keepable(Lookup(file'))
  BY <1>1, <1>2 DEF IInv, TypeOK, FileKeepable
<1>4. TypeOK'
  BY <1>2, <1>3 DEF IInv, TypeOK, Finished
<1>5. FileKeepable'
  BY <1>2, <1>3 DEF IInv, TypeOK, FileKeepable, Keepable
<1>6. CarriedKeepable'
  BY <1>2 DEF IInv, TypeOK, CarriedKeepable, Loaded, Saves
<1> QED
  BY <1>4, <1>5, <1>6 DEF IInv

(* An invocation that gives up or is killed carries nothing any more.      *)
LEMMA Stops ==
    ASSUME IInv, NEW r \in Runs, NoDialer(r) \/ Kill(r)
    PROVE  IInv'
<1>1. PICK step \in {"failed", "killed"} :
          pc' = [pc EXCEPT ![r] = step]
          /\ UNCHANGED <<file, flags, v, chosen, out, alone, granted>>
  BY DEF NoDialer, Kill, Goto
<1> QED
  BY <1>1 DEF IInv, TypeOK, FileKeepable, CarriedKeepable, Keepable, Finished, Writing,
              Loaded, Saves

LEMMA NextIInv == IInv /\ [Next]_vars => IInv'
<1> SUFFICES ASSUME IInv, [Next]_vars PROVE IInv'
  OBVIOUS
<1>1. CASE UNCHANGED vars
  BY <1>1 DEF vars, IInv, TypeOK, FileKeepable, CarriedKeepable, Keepable, Saves
<1>2. CASE Next
  <2>1. PICK r \in Runs :
           \/ \E f \in Flags : Load(r, f)
           \/ UseNode(r) \/ UseLastNode(r) \/ Pull(r) \/ EnterLink(r) \/ NoDialer(r)
           \/ CacheSubscriptionNode(r) \/ AutoSave(r)
           \/ OpenFile(r) \/ WriteFile(r) \/ Kill(r)
           \/ \E node \in Nodes \cup {None} : Edit(r, "node", node)
           \/ \E sub \in Subs \cup {None} : Edit(r, "link", sub)
           \/ \E select \in {"first", "manual"} : Edit(r, "select", select)
           \/ \E noUDP \in BOOLEAN : Edit(r, "noUDP", noUDP)
    BY <1>2 DEF Next
  <2>2. CASE \E f \in Flags : Load(r, f)
    BY <2>2, LoadStep
  <2>3. v[r] \in Settings
    BY DEF IInv, TypeOK
  <2>a. Lookup(file) \in Settings
    BY LookupSettings DEF IInv, TypeOK
  <2>4. CASE UseNode(r)
    BY <2>3, <2>4, ChooseStep DEF UseNode, Settings
  <2>5. CASE UseLastNode(r)
    BY <2>3, <2>5, ChooseStep DEF UseLastNode, Subscribed, Settings
  <2>6. CASE Pull(r)
    <3>1. v[r].link \in Subs /\ pc[r] = "choose"
      BY <2>3, <2>6 DEF Pull, Subscribed, Settings
    <3> QED
      BY <2>6, <3>1, ChooseStep DEF Pull
  <2>7. CASE EnterLink(r)
    BY <2>7, ChooseStep DEF EnterLink
  <2>8. CASE NoDialer(r) \/ Kill(r)
    BY <2>8, Stops
  <2>9. CASE CacheSubscriptionNode(r)
    BY <2>9, CacheStep
  <2>10. CASE AutoSave(r)
    BY <2>10, AutoSaveStep
  <2>11. CASE OpenFile(r) \/ WriteFile(r)
    BY <2>11, WritesFile
  <2>12. ASSUME NEW node \in Nodes \cup {None}, Edit(r, "node", node) PROVE IInv'
    <3>1. [Lookup(file) EXCEPT !["node"] = node] \in Settings
      BY <2>a DEF Settings
    <3> QED
      BY <2>12, <3>1, EditStep
  <2>13. ASSUME NEW sub \in Subs \cup {None}, Edit(r, "link", sub) PROVE IInv'
    <3>1. [Lookup(file) EXCEPT !["link"] = sub] \in Settings
      BY <2>a DEF Settings
    <3> QED
      BY <2>13, <3>1, EditStep
  <2>14. ASSUME NEW select \in {"first", "manual"}, Edit(r, "select", select)
         PROVE  IInv'
    <3>1. [Lookup(file) EXCEPT !["select"] = select] \in Settings
      BY <2>a DEF Settings, Selects
    <3> QED
      BY <2>14, <3>1, EditStep
  <2>15. ASSUME NEW noUDP \in BOOLEAN, Edit(r, "noUDP", noUDP) PROVE IInv'
    <3>1. [Lookup(file) EXCEPT !["noUDP"] = noUDP] \in Settings
      BY <2>a DEF Settings
    <3> QED
      BY <2>15, <3>1, EditStep
  <2> QED
    BY <2>1, <2>2, <2>4, <2>5, <2>6, <2>7, <2>8, <2>9, <2>10, <2>11, <2>12, <2>13,
       <2>14, <2>15
<1> QED
  BY <1>1, <1>2

LEMMA Invariant == Spec => []IInv
  BY InitIInv, NextIInv, PTL DEF Spec

(* The types of the file and of what every invocation holds.               *)
THEOREM TypeCorrect == Spec => []TypeOK
<1>1. IInv => TypeOK
  BY DEF IInv
<1> QED
  BY <1>1, Invariant, PTL

(* A node, a subscription or an option that only one-shot runs were given  *)
(* or chose never is the one that later runs read in the file:             *)
(* cacheSubscriptionNode, which they execute too, starts from the file and *)
(* not from the settings with their flags.                                 *)
THEOREM OneShotNeverKept == Spec => []OneShotNotKept
<1>1. IInv => OneShotNotKept
  BY DEF IInv, FileKeepable, Keepable, OneShotNotKept
<1> QED
  BY <1>1, Invariant, PTL

(* What is read in the file never asks for a selection, so that only the   *)
(* flags of an invocation can force one: a marker that was written is      *)
(* hidden by a flat key from the moment it is there.                       *)
THEOREM MarkerNeverRead == Spec => []MarkerNotRead
<1>1. IInv => MarkerNotRead
  BY DEF IInv, FileKeepable, Keepable, MarkerNotRead
<1> QED
  BY <1>1, Invariant, PTL

-----------------------------------------------------------------------------
(* A run that nothing else disturbed.  While it was alone every other one  *)
(* was finished, what it writes last is what it settled on, and that is    *)
(* still there when it uses its node.                                      *)
Undisturbed(r) == alone[r] => \A p \in Runs \ {r} : pc[p] \in Finished

EditsHaveNoFlags(r) == pc[r] \in {"idle", "openEdit", "writeEdit"} => flags[r] = None

WritesSettled(r) == pc[r] \in {"openSave", "writeSave"} => out[r] = Settled(r)

SettledIsThere(r) ==
    pc[r] = "using" /\ alone[r] /\ flags[r] # None /\ Saves(flags[r])
        => file = Settled(r)

RunInv(r) ==
    Undisturbed(r) /\ EditsHaveNoFlags(r) /\ WritesSettled(r) /\ SettledIsThere(r)

KInv == IInv /\ \A r \in Runs : RunInv(r)

LEMMA InitKInv == Init => KInv
<1> SUFFICES ASSUME Init PROVE KInv
  OBVIOUS
<1>1. \A r \in Runs : pc[r] = "idle" /\ flags[r] = None /\ ~alone[r]
  BY DEF Init
<1> QED
  BY <1>1, InitIInv DEF KInv, RunInv, Undisturbed, EditsHaveNoFlags, WritesSettled,
                        SettledIsThere

(* A run that is not alone has only to go on writing what it settled on.   *)
LEMMA OtherRun ==
    ASSUME NEW q \in Runs, RunInv(q), ~alone'[q], pc'[q] = pc[q], flags'[q] = flags[q],
           v'[q] = v[q], chosen'[q] = chosen[q], out'[q] = out[q]
    PROVE  RunInv(q)'
<1>1. Undisturbed(q)' /\ SettledIsThere(q)'
  BY DEF Undisturbed, SettledIsThere
<1>2. EditsHaveNoFlags(q)'
  BY DEF RunInv, EditsHaveNoFlags
<1>3. WritesSettled(q)'
  <2>1. Settled(q)' = Settled(q)
    BY DEF Settled
  <2> QED
    BY <2>1 DEF RunInv, WritesSettled
<1> QED
  BY <1>1, <1>2, <1>3 DEF RunInv

(* Whoever begins ends the solitude of all others.                         *)
LEMMA Beginning ==
    ASSUME KInv, IInv', NEW r \in Runs, Begins(r),
           NEW step \in {"failed", "choose", "openEdit"}, Goto(r, step),
           \A q \in Runs \ {r} : /\ flags'[q] = flags[q] /\ v'[q] = v[q]
                                 /\ chosen'[q] = chosen[q] /\ out'[q] = out[q],
           step = "openEdit" => flags' = flags
    PROVE  KInv'
<1>1. TypeOK /\ pc[r] = "idle"
  BY DEF KInv, IInv, Begins
<1>2. pc'[r] = step /\ \A q \in Runs \ {r} : pc'[q] = pc[q]
  BY <1>1 DEF TypeOK, Goto
<1>3. /\ \A q \in Runs \ {r} : ~alone'[q]
      /\ alone'[r] => \A p \in Runs \ {r} : pc[p] \in Finished
  BY DEF Begins
<1>4. ASSUME NEW q \in Runs PROVE RunInv(q)'
  <2>1. CASE q = r
    <3>1. Undisturbed(r)'
      BY <1>2, <1>3 DEF Undisturbed
    <3>2. EditsHaveNoFlags(r)' /\ WritesSettled(r)' /\ SettledIsThere(r)'
      BY <1>1, <1>2 DEF KInv, RunInv, EditsHaveNoFlags, WritesSettled, SettledIsThere
    <3> QED
      BY <2>1, <3>1, <3>2 DEF RunInv
  <2>2. CASE q # r
    <3>1. ~alone'[q] /\ pc'[q] = pc[q]
      BY <1>2, <1>3, <2>2
    <3> QED
      BY <2>2, <3>1, OtherRun DEF KInv
  <2> QED
    BY <2>1, <2>2
<1> QED
  BY <1>4 DEF KInv

(* A run that is at work is the only one that can be, if it is alone.      *)
LEMMA Working ==
    ASSUME KInv, IInv', NEW r \in Runs, pc[r] \notin Finished,
           NEW step, Goto(r, step), alone' = alone, flags' = flags, v' = v,
           \A q \in Runs \ {r} : chosen'[q] = chosen[q] /\ out'[q] = out[q],
           step # "idle", step \in {"openEdit", "writeEdit"} => flags[r] = None,
           WritesSettled(r)', SettledIsThere(r)'
    PROVE  KInv'
<1>1. TypeOK
  BY DEF KInv, IInv
<1>2. pc'[r] = step /\ \A q \in Runs \ {r} : pc'[q] = pc[q]
  BY <1>1 DEF TypeOK, Goto
<1>3. ASSUME NEW q \in Runs PROVE RunInv(q)'
  <2>1. CASE q = r
    BY <1>2, <2>1 DEF KInv, RunInv, Undisturbed, EditsHaveNoFlags
  <2>2. CASE q # r
    <3>1. ~alone[q]
      BY <2>2 DEF KInv, RunInv, Undisturbed
    <3> QED
      BY <1>2, <2>2, <3>1, OtherRun DEF KInv
  <2> QED
    BY <2>1, <2>2
<1> QED
  BY <1>3 DEF KInv

LEMMA WritingStep ==
    ASSUME KInv, IInv', NEW r \in Runs, OpenFile(r) \/ WriteFile(r)
    PROVE  KInv'
<1>1. TypeOK /\ RunInv(r)
  BY DEF KInv, IInv
<1>2. PICK step \in {"writeCache", "writeSave", "writeEdit", "save", "using"} :
          /\ Goto(r, step)
          /\ step = "writeSave" => pc[r] = "openSave"
          /\ step = "writeEdit" => pc[r] = "openEdit"
          /\ step = "using" => pc[r] \in {"writeSave", "writeEdit"} /\ file' = out[r]
          /\ pc[r] \notin Finished
          /\ UNCHANGED <<flags, v, chosen, out, alone>>
  BY DEF OpenFile, WriteFile, Writes, Continues, Finished
<1>3. pc'[r] = step
  BY <1>1, <1>2 DEF TypeOK, Goto
<1>4. WritesSettled(r)' /\ SettledIsThere(r)'
  BY <1>1, <1>2, <1>3
  DEF RunInv, WritesSettled, SettledIsThere, EditsHaveNoFlags, Settled
<1>5. step \in {"openEdit", "writeEdit"} => flags[r] = None
  BY <1>1, <1>2 DEF RunInv, EditsHaveNoFlags
<1> QED
  BY <1>2, <1>4, <1>5, Working

LEMMA NextKInv == KInv /\ [Next]_vars => KInv'
<1> SUFFICES ASSUME KInv, [Next]_vars PROVE KInv'
  OBVIOUS
<1>1. IInv'
  BY NextIInv DEF KInv
<1>2. TypeOK
  BY DEF KInv, IInv
<1>3. CASE UNCHANGED vars
  BY <1>1, <1>3 DEF vars, KInv, RunInv, Undisturbed, EditsHaveNoFlags, WritesSettled,
                    SettledIsThere, Settled
<1>4. CASE Next
  <2>1. PICK r \in Runs :
           \/ \E f \in Flags : Load(r, f)
           \/ UseNode(r) \/ UseLastNode(r) \/ Pull(r) \/ EnterLink(r) \/ NoDialer(r)
           \/ CacheSubscriptionNode(r) \/ AutoSave(r)
           \/ OpenFile(r) \/ WriteFile(r) \/ Kill(r)
           \/ \E node \in Nodes \cup {None} : Edit(r, "node", node)
           \/ \E sub \in Subs \cup {None} : Edit(r, "link", sub)
           \/ \E select \in {"first", "manual"} : Edit(r, "select", select)
           \/ \E noUDP \in BOOLEAN : Edit(r, "noUDP", noUDP)
    BY <1>4 DEF Next
  <2>2. CASE \E f \in Flags : Load(r, f)
    <3>1. PICK f \in Flags : Load(r, f)
      BY <2>2
    <3>2. PICK step \in {"failed", "choose"} : Goto(r, step)
      BY <3>1 DEF Load
    <3>3. \A q \in Runs \ {r} : /\ flags'[q] = flags[q] /\ v'[q] = v[q]
                                /\ chosen'[q] = chosen[q] /\ out'[q] = out[q]
      BY <1>2, <3>1 DEF TypeOK, Load
    <3> QED
      BY <1>1, <3>1, <3>2, <3>3, Beginning DEF Load
  <2>3. ASSUME NEW key, NEW val, Edit(r, key, val) PROVE KInv'
    <3>1. \A q \in Runs \ {r} : /\ flags'[q] = flags[q] /\ v'[q] = v[q]
                                /\ chosen'[q] = chosen[q] /\ out'[q] = out[q]
      BY <1>2, <2>3 DEF TypeOK, Edit
    <3> QED
      BY <1>1, <2>3, <3>1, Beginning DEF Edit
  <2>4. ASSUME NEW node, NEW step \in {"cache", "save"}, Choose(r, node, step),
               pc[r] = "choose"
        PROVE  KInv'
    <3>1. pc'[r] = step /\ \A q \in Runs \ {r} : chosen'[q] = chosen[q] /\ out'[q] = out[q]
      BY <1>2, <2>4 DEF TypeOK, Choose, Goto
    <3>2. WritesSettled(r)' /\ SettledIsThere(r)'
      BY <3>1 DEF WritesSettled, SettledIsThere
    <3> QED
      BY <1>1, <2>4, <3>1, <3>2, Working DEF Choose, Finished
  <2>5. CASE UseNode(r)
    BY <2>4, <2>5 DEF UseNode
  <2>6. CASE UseLastNode(r)
    BY <2>4, <2>6 DEF UseLastNode, Subscribed
  <2>7. CASE Pull(r)
    BY <2>4, <2>7 DEF Pull, Subscribed
  <2>8. CASE EnterLink(r)
    BY <2>4, <2>8 DEF EnterLink
  <2>9. CASE NoDialer(r) \/ Kill(r)
    <3>1. PICK step \in {"failed", "killed"} :
              /\ Goto(r, step) /\ pc[r] \notin Finished
              /\ UNCHANGED <<file, flags, v, chosen, out, alone, granted>>
      BY <2>9 DEF NoDialer, Kill, Finished
    <3>2. WritesSettled(r)' /\ SettledIsThere(r)'
      BY <1>2, <3>1 DEF WritesSettled, SettledIsThere, TypeOK, Goto
    <3> QED
      BY <1>1, <3>1, <3>2, Working
  <2>10. CASE CacheSubscriptionNode(r)
    <3>1. PICK step \in {"openCache", "save"} :
              /\ Goto(r, step) /\ pc[r] = "cache"
              /\ UNCHANGED <<file, flags, v, chosen, alone, granted>>
              /\ \A q \in Runs \ {r} : out'[q] = out[q]
      BY <1>2, <2>10 DEF CacheSubscriptionNode, TypeOK
    <3>2. WritesSettled(r)' /\ SettledIsThere(r)'
      BY <1>2, <3>1 DEF WritesSettled, SettledIsThere, TypeOK, Goto
    <3> QED
      BY <1>1, <3>1, <3>2, Working DEF Finished
  <2>11. CASE AutoSave(r)
    <3>1. PICK step \in {"openSave", "using"} :
              /\ Goto(r, step) /\ pc[r] = "save"
              /\ step = "openSave" => out' = [out EXCEPT ![r] = Settled(r)]
              /\ step = "using" => ~Saves(flags[r])
              /\ UNCHANGED <<file, flags, v, chosen, alone, granted>>
              /\ \A q \in Runs \ {r} : out'[q] = out[q]
      BY <1>2, <2>11 DEF AutoSave, TypeOK
    <3>2. pc'[r] = step
      BY <1>2, <3>1 DEF TypeOK, Goto
    <3>3. WritesSettled(r)' /\ SettledIsThere(r)'
      BY <1>2, <3>1, <3>2 DEF WritesSettled, SettledIsThere, TypeOK, Settled
    <3> QED
      BY <1>1, <3>1, <3>3, Working DEF Finished
  <2>12. CASE OpenFile(r) \/ WriteFile(r)
    BY <1>1, <2>12, WritingStep
  <2> QED
    BY <2>1, <2>2, <2>3, <2>5, <2>6, <2>7, <2>8, <2>9, <2>10, <2>11, <2>12
<1> QED
  BY <1>3, <1>4

(* A run that saves and was alone finds its choice in the file, although   *)
(* it may have written there twice and read in between.                    *)
THEOREM ChoiceIsKept == Spec => []ChoiceKept
<1>1. KInv => ChoiceKept
  <2> SUFFICES ASSUME KInv, NEW r \in Runs, pc[r] = "using", alone[r],
                      flags[r] # None, Saves(flags[r])
               PROVE  /\ Lookup(file).node = chosen[r]
                      /\ flags[r].sub # None => Lookup(file).link = flags[r].sub
                      /\ Lookup(file).select # "__select__"
    BY DEF ChoiceKept
  <2>1. file = Settled(r) /\ v[r] \in Settings
    BY DEF KInv, RunInv, SettledIsThere, IInv, TypeOK
  <2>2. /\ Lookup(file).node = chosen[r]
        /\ flags[r].sub # None => Lookup(file).link = flags[r].sub
    BY <2>1 DEF Lookup, Settled, Settings
  <2> QED
    BY <2>2 DEF KInv, IInv, FileKeepable, Keepable
<1>2. Spec => []KInv
  BY InitKInv, NextKInv, PTL DEF Spec
<1> QED
  BY <1>1, <1>2, PTL

=============================================================================
