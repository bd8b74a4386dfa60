-------------------------- MODULE ChannelRegistry --------------------------
(***************************************************************************)
(* The channels of the control plane (apps/control-plane/src/              *)
(* channel-registry.ts): the rows of the channels table, the runtimes kept *)
(* in memory beside them, the configuration file they are synchronised     *)
(* with at every start (index.ts), and the calls of the admin screen.      *)
(*                                                                         *)
(* Every method is synchronous, so it is one step; but a method that       *)
(* throws after its write leaves the row written.  toRuntime is what       *)
(* throws: the schema takes an interpreter of mode "http" without an       *)
(* address, createInterpreter does not.  Such a configuration is called    *)
(* broken here; label, mode and prompt of all others are one value.        *)
(***************************************************************************)
EXTENDS Naturals, FiniteSets

CONSTANTS Channel,  \* channel identifiers
          Sound,    \* interpreter configurations (with labels) that work
          Broken,   \* those that createInterpreter refuses
          MaxKeys,  \* bound: keys generated
          None

ASSUME RegistryAssumption ==
  /\ Sound \intersect Broken = {} /\ Sound # {} /\ MaxKeys \in Nat
  /\ None \notin Sound \union Broken

Conf == Sound \union Broken
FileKey == 0                    \* the key the configuration file gives a channel
Keys == 0 .. MaxKeys            \* generated keys are 1, 2, ... (random, all different)

VARIABLES
  row,      \* Channel -> its row, or None
  runtime,  \* Channel -> what the runtimes map holds, or None
  file,     \* the channels the configuration file lists
  process,  \* "up", "down", or "failed" when the last start threw
  used,     \* the channels tasks or threads refer to
  keys,     \* how many keys were generated
  replaced  \* the <<channel, key>> whose replacement was asked for (history)

vars == <<row, runtime, file, process, used, keys, replaced>>

RowType == [source : {"config", "api"}, key : Keys, conf : Conf, disabled : BOOLEAN]
RuntimeType == [key : Keys, conf : Sound]

ASSUME NoneAssumption == None \notin RowType \union RuntimeType

RegistryTypeOK ==
  /\ row \in [Channel -> RowType \union {None}]
  /\ runtime \in [Channel -> RuntimeType \union {None}]
  /\ file \subseteq Channel
  /\ process \in {"up", "down", "failed"}
  /\ used \subseteq Channel
  /\ keys \in 0 .. MaxKeys
  /\ replaced \subseteq Channel \X Keys

Init ==
  /\ row = [c \in Channel |-> None]
  /\ runtime = [c \in Channel |-> None]
  /\ file = {}
  /\ process = "down"
  /\ used = {}
  /\ keys = 0
  /\ replaced = {}

-----------------------------------------------------------------------------
Exists(c) == row[c] # None
Live(c) == Exists(c) /\ ~row[c].disabled

\* A start over the rows tab: syncFromConfig has overwritten the channels of
\* the file, whose interpreters share one configuration here, sound or broken;
\* load builds the runtimes, or throws at the first broken row and the process
\* ends.
Loaded(tab) ==
  [c \in Channel |-> IF tab[c] # None /\ ~tab[c].disabled
                     THEN [key |-> tab[c].key, conf |-> tab[c].conf] ELSE None]

syncFromConfig(listed, conf) ==
  [c \in Channel |-> IF c \in listed
                     THEN [source |-> "config", key |-> FileKey, conf |-> conf, disabled |-> FALSE]
                     ELSE row[c]]

Boot(listed, conf) ==
  /\ process # "up"
  /\ file' = listed
  /\ row' = syncFromConfig(listed, conf)
  /\ IF \E c \in Channel : row'[c] # None /\ ~row'[c].disabled /\ row'[c].conf \in Broken
     THEN process' = "failed" /\ UNCHANGED runtime
     ELSE process' = "up" /\ runtime' = Loaded(row')
  /\ UNCHANGED <<used, keys, replaced>>

\* The process stops or crashes; the map is gone with it.
Stop ==
  /\ process = "up"
  /\ process' = "down"
  /\ runtime' = [c \in Channel |-> None]
  /\ UNCHANGED <<row, file, used, keys, replaced>>

-----------------------------------------------------------------------------
Editable(c) == process = "up" /\ Exists(c) /\ row[c].source = "api"

\* runtimes.set(id, toRuntime(row)); nothing is set if toRuntime throws.
Serve(c, r) ==
  runtime' = IF r.conf \in Sound THEN [runtime EXCEPT ![c] = [key |-> r.key, conf |-> r.conf]]
                                 ELSE runtime

create(c, conf) ==
  /\ process = "up"
  /\ runtime[c] = None
  /\ keys < MaxKeys
  /\ keys' = keys + 1
  /\ LET r == [source |-> "api", key |-> keys + 1, conf |-> conf, disabled |-> FALSE]
     IN  row' = [row EXCEPT ![c] = r] /\ Serve(c, r)
  /\ replaced' = IF Exists(c) THEN replaced \union {<<c, row[c].key>>} ELSE replaced
  /\ UNCHANGED <<file, process, used>>

\* Fault: the new settings are only written to the table.
updateRowOnly(c, conf) ==
  /\ Editable(c)
  /\ row' = [row EXCEPT ![c].conf = conf]
  /\ UNCHANGED <<runtime, file, process, used, keys, replaced>>

update(c, conf) ==
  /\ Editable(c)
  /\ LET r == [row[c] EXCEPT !.conf = conf]
     IN  /\ row' = [row EXCEPT ![c] = r]
         /\ IF row[c].disabled THEN UNCHANGED runtime ELSE Serve(c, r)
  /\ UNCHANGED <<file, process, used, keys, replaced>>

\* The runtime is set whether or not the channel is disabled.
rotateKey(c) ==
  /\ Editable(c)
  /\ keys < MaxKeys
  /\ keys' = keys + 1
  /\ LET r == [row[c] EXCEPT !.key = keys + 1]
     IN  row' = [row EXCEPT ![c] = r] /\ Serve(c, r)
  /\ replaced' = replaced \union {<<c, row[c].key>>}
  /\ UNCHANGED <<file, process, used>>

disable(c) ==
  /\ Editable(c)
  /\ row' = [row EXCEPT ![c].disabled = TRUE]
  /\ runtime' = [runtime EXCEPT ![c] = None]
  /\ UNCHANGED <<file, process, used, keys, replaced>>

\* Fault: the records are left, whatever the caller said.
removeUnchecked(c, purge) ==
  /\ Editable(c)
  /\ row' = [row EXCEPT ![c] = None]
  /\ runtime' = [runtime EXCEPT ![c] = None]
  /\ UNCHANGED <<file, process, used, keys, replaced>>

\* remove: refused while records refer to the channel, unless they are
\* purged with it, in one transaction.
remove(c, purge) ==
  /\ Editable(c)
  /\ c \in used => purge
  /\ row' = [row EXCEPT ![c] = None]
  /\ runtime' = [runtime EXCEPT ![c] = None]
  /\ used' = used \ {c}
  /\ UNCHANGED <<file, process, keys, replaced>>

\* An event is taken: authenticate or get found the runtime, and a task or
\* a thread of the channel is inserted.
Event(c) ==
  /\ runtime[c] # None
  /\ used' = used \union {c}
  /\ UNCHANGED <<row, runtime, file, process, keys, replaced>>

Next ==
  \/ \E listed \in SUBSET Channel, conf \in Conf : Boot(listed, conf)
  \/ Stop
  \/ \E c \in Channel :
       \/ \E conf \in Conf : create(c, conf) \/ update(c, conf)
       \/ rotateKey(c)
       \/ disable(c)
       \/ \E purge \in BOOLEAN : remove(c, purge)
       \/ Event(c)

Spec == Init /\ [][Next]_vars

-----------------------------------------------------------------------------
(***************************************************************************)
(* Properties.                                                             *)
(***************************************************************************)

(***************************************************************************)
(* Memory and table agree, through edits, failed edits, re-registrations   *)
(* and restarts: an enabled channel with a working configuration is served *)
(* with exactly the key and the settings of its row.                       *)
(***************************************************************************)
RuntimeReflectsRow ==
  process = "up" => \A c \in Channel :
    Live(c) /\ row[c].conf \in Sound
    => runtime[c] = [key |-> row[c].key, conf |-> row[c].conf]

(***************************************************************************)
(* What is served, and what is referred to, has a row: neither an event    *)
(* nor a record ever names a channel the table does not know (the foreign  *)
(* keys of tasks and context_threads).                                     *)
(***************************************************************************)
RowsForAll == \A c \in Channel : c \in used \/ runtime[c] # None => Exists(c)

-----------------------------------------------------------------------------
(***************************************************************************)
(* What the comments and documents say of the program, and the code does   *)
(* not do.                                                                 *)
(***************************************************************************)

\* channel-registry.ts:294: a disabled channel takes no events any more.
DisabledTakesNoEvents == \A c \in Channel : Exists(c) /\ row[c].disabled => runtime[c] = None

\* channel-registry.ts:136: whatever is stored, the control plane comes up.
AlwaysComesUp == process # "failed"

\* channel-registry.ts:279: a key that was replaced is refused at once.
ReplacedKeyIsDead ==
  \A c \in Channel : runtime[c] # None => <<c, runtime[c].key>> \notin replaced

\* docs/configuration.md:86: the call that deletes a channel only disables it.
RowsAreKept == [][\A c \in Channel : Exists(c) => row'[c] # None]_vars

=============================================================================
