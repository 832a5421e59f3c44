----------------------------- MODULE NodeConfig -----------------------------
(***************************************************************************)
(* Which node an invocation of gg uses, and what it leaves in the          *)
(* configuration file: Run of cmd/cmd.go with GetDialer and                *)
(* cacheSubscriptionNode of cmd/dialer.go, getConfig and WriteConfig of    *)
(* cmd/config.go, and the "gg config" command.                             *)
(*                                                                         *)
(* Nothing locks the file.  An invocation reads it when it starts, keeps   *)
(* the settings while it pulls a subscription, tests nodes and asks its    *)
(* user, may read it again to note the node it found, and writes it up to  *)
(* twice; a write truncates the file first.  Other invocations run in      *)
(* between, and any of them may be killed.                                 *)
(***************************************************************************)
CONSTANTS
    Runs,        \* the invocations
    Nodes,       \* share-links
    Subs,        \* subscription links
    NodesOf,     \* subscription -> the nodes it lists
    None         \* an empty setting or flag

ASSUME ConfigAssumption ==
    /\ None \notin Nodes \cup Subs \cup {"first"}
    /\ NodesOf \in [Subs -> SUBSET Nodes]

(* "__select__" is how the flags -s and --select ask for a selection.      *)
Selects == {"first", "manual", "__select__"}

(* noUDP stands for the three options whose flags are bound to the         *)
(* settings in one way: no_udp, proxy_private, test_node_before_use.       *)
Settings == [node : Nodes \cup {None}, link : Subs \cup {None}, select : Selects,
             cacheLast : BOOLEAN, last : Nodes \cup {None}, noUDP : BOOLEAN]

(* The flags -n, -s, --select, --no-cache and --noudp.                     *)
Flags == [node : Nodes \cup {None}, sub : Subs \cup {None}, select : BOOLEAN,
          noCache : BOOLEAN, noUDP : BOOLEAN]

(* The file has a table of its own for the subscription, and Run adds keys *)
(* "subscription.link" and "subscription.select" beside that table.        *)
Files == [own : Settings,
          flat : [link : Subs \cup {None}, select : {"first", None}]]

(* viper finds such a flat key before the one in the table.                *)
Lookup(f) ==
    [f.own EXCEPT !.link = IF f.flat.link # None THEN f.flat.link ELSE @,
                  !.select = IF f.flat.select # None THEN f.flat.select ELSE @]

(* AllSettings has tables only.                                            *)
Plain(settings) == [own |-> settings, flat |-> [link |-> None, select |-> None]]

(* Faulty variant: no default for the way to select.                       *)
Defaults_Unset == [node |-> None, link |-> None, select |-> None,
                   cacheLast |-> TRUE, last |-> None, noUDP |-> FALSE]

(* What an empty or missing file stands for.                               *)
Defaults == [node |-> None, link |-> None, select |-> "first",
             cacheLast |-> TRUE, last |-> None, noUDP |-> FALSE]

VARIABLES
    file,      \* the configuration file, that of Defaults while it is truncated
    pc,        \* where an invocation is
    flags,     \* its flags
    v,         \* the settings it loaded, flags applied: viper and ParamsObj
    chosen,    \* the node it is going to use
    out,       \* what it is writing
    alone,     \* history: no other invocation was active since it started
    granted    \* history: the nodes and links somebody asked to keep, and "noUDP"

vars == <<file, pc, flags, v, chosen, out, alone, granted>>

Finished == {"idle", "using", "failed", "killed"}

TypeOK ==
    /\ file \in Files
    /\ pc \in [Runs -> Finished \cup {"choose", "cache", "openCache", "writeCache",
                                      "save", "openSave", "writeSave", "openEdit",
                                      "writeEdit"}]
    /\ flags \in [Runs -> Flags \cup {None}]
    /\ v \in [Runs -> Settings]
    /\ chosen \in [Runs -> Nodes \cup {None}]
    /\ out \in [Runs -> Files]
    /\ alone \in [Runs -> BOOLEAN]
    /\ granted \subseteq Nodes \cup Subs \cup {None, "noUDP"}

Init ==
    /\ \E s \in Subs \cup {None}, m \in {"first", "manual"}, c \in BOOLEAN :
          file = Plain([Defaults EXCEPT !.link = s, !.select = m, !.cacheLast = c])
    /\ pc = [r \in Runs |-> "idle"]
    /\ flags = [r \in Runs |-> None]
    /\ v = [r \in Runs |-> Defaults]
    /\ chosen = [r \in Runs |-> None]
    /\ out = [r \in Runs |-> Plain(Defaults)]
    /\ alone = [r \in Runs |-> FALSE]
    /\ granted = {None, file.own.link}

Goto(r, step) == pc' = [pc EXCEPT ![r] = step]

Begins(r) ==
    /\ pc[r] = "idle"
    /\ alone' = [q \in Runs |-> q = r /\ \A p \in Runs \ {r} : pc[p] \in Finished]

-----------------------------------------------------------------------------
(* getConfig: what the flags override in the settings of the file.         *)
WithFlags(settings, f) ==
    [settings EXCEPT
        !.node = IF f.node # None THEN f.node ELSE @,
        !.link = IF f.sub # None THEN f.sub ELSE @,
        !.select = IF f.sub # None \/ f.select THEN "__select__" ELSE @,
        !.noUDP = f.noUDP \/ @]

Saves(f) == ~f.noCache /\ (f.sub # None \/ f.select \/ f.node # None)

(* What a run with these flags is to keep if it saves.                     *)
Given(f) == {f.node, f.sub} \cup (IF f.noUDP THEN {"noUDP"} ELSE {})

(* gg starts and reads the file; --select needs a subscription.            *)
Load(r, f) ==
    /\ Begins(r)
    /\ flags' = [flags EXCEPT ![r] = f]
    /\ v' = [v EXCEPT ![r] = WithFlags(Lookup(file), f)]
    /\ Goto(r, IF f.select /\ v'[r].link = None THEN "failed" ELSE "choose")
    /\ granted' = IF Saves(f) THEN granted \cup Given(f) ELSE granted
    /\ UNCHANGED <<file, chosen, out>>

-----------------------------------------------------------------------------
(* GetDialer.                                                              *)
Forced(r) == v[r].select = "__select__"

(* What the run chose is to be kept if it saves.                           *)
Choose(r, node, step) ==
    /\ chosen' = [chosen EXCEPT ![r] = node]
    /\ Goto(r, step)
    /\ granted' = IF Saves(flags[r]) THEN granted \cup {node} ELSE granted
    /\ UNCHANGED <<file, flags, v, out, alone>>

UseNode(r) ==
    /\ pc[r] = "choose"
    /\ ~Forced(r)
    /\ v[r].node # None
    /\ Choose(r, v[r].node, "save")

Subscribed(r) == /\ pc[r] = "choose"
                 /\ Forced(r) \/ v[r].node = None
                 /\ v[r].link # None

(* The node of the last run, if it still passes its test.                  *)
UseLastNode(r) ==
    /\ Subscribed(r)
    /\ ~Forced(r) /\ v[r].cacheLast
    /\ v[r].last # None
    /\ Choose(r, v[r].last, "save")

(* Else the first available node of the subscription, or the one the user  *)
(* selects, which the deferred call then notes.  The cached node may have  *)
(* failed its test, so this does not depend on there being none.           *)
Pull(r) ==
    /\ Subscribed(r)
    /\ \E node \in NodesOf[v[r].link] :
           Choose(r, node, IF v[r].cacheLast THEN "cache" ELSE "save")

EnterLink(r) ==
    /\ pc[r] = "choose"
    /\ Forced(r) \/ v[r].node = None
    /\ v[r].link = None
    /\ \E node \in Nodes : Choose(r, node, "save")

(* A node fails its test, a subscription cannot be pulled or lists none,   *)
(* or the user gives up.                                                   *)
NoDialer(r) ==
    /\ pc[r] = "choose"
    /\ Goto(r, "failed")
    /\ UNCHANGED <<file, flags, v, chosen, out, alone, granted>>

-----------------------------------------------------------------------------
(* Faulty variant: the settings loaded at the start are written back.      *)
CacheSubscriptionNode_Stale(r) ==
    /\ pc[r] = "cache"
    /\ out' = [out EXCEPT ![r] = Plain([v[r] EXCEPT !.last = chosen[r]])]
    /\ Goto(r, "openCache")
    /\ UNCHANGED <<file, flags, v, chosen, alone, granted>>

(* cacheSubscriptionNode reads the file again, without the flags.          *)
CacheSubscriptionNode(r) ==
    /\ pc[r] = "cache"
    /\ \/ /\ Lookup(file).link # None
          /\ out' = [out EXCEPT ![r] = Plain([Lookup(file) EXCEPT !.last = chosen[r]])]
          /\ Goto(r, "openCache")
       \/ /\ Lookup(file).link = None
          /\ Goto(r, "save")
          /\ UNCHANGED out
    /\ UNCHANGED <<file, flags, v, chosen, alone, granted>>

(* Faulty variants: nothing is set beside the marker; the node that was    *)
(* loaded is kept in place of the one chosen.                              *)
Settled_KeepsMarker(r) ==
    [own |-> [v[r] EXCEPT !.node = chosen[r]],
     flat |-> [link |-> flags[r].sub, select |-> None]]

Settled_KeepsNode(r) ==
    [own |-> v[r],
     flat |-> [link |-> flags[r].sub,
               select |-> IF flags[r].sub # None \/ flags[r].select
                          THEN "first" ELSE None]]

(* The settings a run saves are those it loaded, with its choice, and flat *)
(* keys for what its flags put into the table: the marker stays there.     *)
Settled(r) ==
    [own |-> [v[r] EXCEPT !.node = chosen[r]],
     flat |-> [link |-> flags[r].sub,
               select |-> IF flags[r].sub # None \/ flags[r].select
                          THEN "first" ELSE None]]

AutoSave(r) ==
    /\ pc[r] = "save"
    /\ \/ /\ Saves(flags[r])
          /\ out' = [out EXCEPT ![r] = Settled(r)]
          /\ Goto(r, "openSave")
       \/ /\ ~Saves(flags[r])
          /\ Goto(r, "using")
          /\ UNCHANGED out
    /\ UNCHANGED <<file, flags, v, chosen, alone, granted>>

(* gg config -w and -u.  The marker is not a value to write there.         *)
Edit(r, key, val) ==
    /\ Begins(r)
    /\ out' = [out EXCEPT ![r] = Plain([Lookup(file) EXCEPT ![key] = val])]
    /\ Goto(r, "openEdit")
    /\ granted' = granted \cup (CASE key \in {"node", "link"} -> {val}
                                   [] key = "noUDP" -> {"noUDP"}
                                   [] OTHER -> {})
    /\ UNCHANGED <<file, flags, v, chosen>>

(* os.WriteFile opens the file, which truncates it, and then writes.       *)
Writes == [openCache |-> "writeCache", openSave |-> "writeSave", openEdit |-> "writeEdit"]
Continues == [writeCache |-> "save", writeSave |-> "using", writeEdit |-> "using"]

OpenFile(r) ==
    /\ pc[r] \in DOMAIN Writes
    /\ file' = Plain(Defaults)
    /\ Goto(r, Writes[pc[r]])
    /\ UNCHANGED <<flags, v, chosen, out, alone, granted>>

WriteFile(r) ==
    /\ pc[r] \in DOMAIN Continues
    /\ file' = out[r]
    /\ Goto(r, Continues[pc[r]])
    /\ UNCHANGED <<flags, v, chosen, out, alone, granted>>

(* gg installs its signal handler only when the program runs.              *)
Kill(r) ==
    /\ pc[r] \notin Finished
    /\ Goto(r, "killed")
    /\ UNCHANGED <<file, flags, v, chosen, out, alone, granted>>

-----------------------------------------------------------------------------
Next ==
    \E r \in Runs :
        \/ \E f \in Flags : Load(r, f)
        \/ UseNode(r) \/ UseLastNode(r) \/ Pull(r) \/ EnterLink(r) \/ NoDialer(r)
        \/ CacheSubscriptionNode(r) \/ AutoSave(r)
        \/ OpenFile(r) \/ WriteFile(r) \/ Kill(r)
        \/ \E node \in Nodes \cup {None} : Edit(r, "node", node)
        \/ \E sub \in Subs \cup {None} : Edit(r, "link", sub)
        \/ \E select \in {"first", "manual"} : Edit(r, "select", select)
        \/ \E noUDP \in BOOLEAN : Edit(r, "noUDP", noUDP)

Spec == Init /\ [][Next]_vars

-----------------------------------------------------------------------------
(* The node, the subscription and the options that later runs read in the  *)
(* file are ones that an invocation allowed to save was given or chose, or *)
(* that gg config wrote: a one-shot run leaves none of its own there,      *)
(* although it too may write the file, to note its last node.  That entry, *)
(* which is not meant here, is the subject of NoCacheSavesNothing.         *)
OneShotNotKept ==
    LET settings == Lookup(file)
    IN  /\ settings.node \in granted
        /\ settings.link \in granted
        /\ settings.noUDP => "noUDP" \in granted

(* The marker that forces a selection is never read in the file, where it  *)
(* would make every later invocation pull the subscription and ask.  It is *)
(* written there, by a run that saves with -s or --select, but then with a *)
(* flat key that hides it, and whoever writes next takes over the latter.  *)
MarkerNotRead == Lookup(file).select # "__select__"

(* When no other invocation was active meanwhile, a run that saves leaves  *)
(* its choice in the file, whatever it wrote there before, and a run       *)
(* without flags would use that node.                                      *)
ChoiceKept ==
    \A r \in Runs :
        /\ pc[r] = "using" /\ alone[r]
        /\ flags[r] # None
        /\ Saves(flags[r])
        => LET settings == Lookup(file)
           IN  /\ settings.node = chosen[r]
               /\ flags[r].sub # None => settings.link = flags[r].sub
               /\ settings.select # "__select__"

-----------------------------------------------------------------------------
(* The flag --no-cache: "do not save the node for future use (one-shot)".  *)
(* When no other invocation was active meanwhile, such a run leaves the    *)
(* node of the last run what it was when it started.                       *)
NoCacheSavesNothing ==
    \A r \in Runs :
        /\ pc[r] = "using" /\ alone[r]
        /\ flags[r] # None
        /\ flags[r].noCache
        => Lookup(file).last = v[r].last

=============================================================================
