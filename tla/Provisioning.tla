---------------------------- MODULE Provisioning ----------------------------
(***************************************************************************)
(* The database rows of satellites: a row made before the satellite is     *)
(* flashed, under a one-time seed; the registration that pairs the seed    *)
(* with a device, in two steps; and the confirmation, a single packet that *)
(* makes the satellite forget its seed.                                    *)
(***************************************************************************)
EXTENDS Naturals

CONSTANTS Macs, Seeds, Names,
          MaxLost,     \* confirmations lost (bound)
          MaxProvided  \* rows made in advance, renamings and deletions (bound)

VARIABLES
    rows,      \* device_id -> its row
    flash,     \* satellite -> the seed in its memory
    call,      \* satellite -> NotifySatelliteRegistered: where, with which seed
    packet,    \* satellites a "paired" packet is on its way to
    stale,     \* rows cleanup_stale_seeds has selected and not yet deleted
    paired,    \* history: seed -> the satellites it was paired with
    lost, provided

vars == <<rows, flash, call, packet, stale, paired, lost, provided>>
None == "none"
Ids == Macs \cup Seeds
NoRow == [seed |-> None, name |-> None, paired |-> FALSE, exists |-> FALSE]
NewRow == [NoRow EXCEPT !.exists = TRUE]
Idle == [at |-> "idle", seed |-> None, ok |-> FALSE]

TypeOK ==
    /\ rows \in [Ids -> [seed: Seeds \cup {None}, name: Names \cup {None}, paired: BOOLEAN, exists: BOOLEAN]]
    /\ flash \in [Macs -> Seeds \cup {None}]
    /\ call \in [Macs -> [at: {"idle", "upsert", "pair", "answer"}, seed: Seeds \cup {None}, ok: BOOLEAN]]
    /\ packet \subseteq Macs /\ stale \subseteq Ids /\ paired \in [Seeds -> SUBSET Macs]

Init ==
    /\ rows = [i \in Ids |-> NoRow] /\ flash = [m \in Macs |-> None] /\ call = [m \in Macs |-> Idle]
    /\ packet = {} /\ stale = {} /\ paired = [s \in Seeds |-> {}] /\ lost = 0 /\ provided = 0

Provided == provided < MaxProvided /\ provided' = provided + 1

\* provision_satellite: the seed stands in for the device.
ProvisionSatellite(s, n) ==
    /\ Provided /\ rows' = [rows EXCEPT ![s] = [@ EXCEPT !.seed = s, !.name = n, !.exists = TRUE]]
    /\ paired' = [paired EXCEPT ![s] = {}]
    /\ UNCHANGED <<flash, call, packet, stale, lost>>

Flash(m, s) == /\ flash[m] = None /\ rows[s].exists /\ flash' = [flash EXCEPT ![m] = s]
               /\ UNCHANGED <<rows, call, packet, stale, paired, lost, provided>>

\* The satellite starts, the proxy tells the Core.
Register(m) == /\ call[m] = Idle /\ call' = [call EXCEPT ![m] = [Idle EXCEPT !.at = "upsert", !.seed = flash[m]]]
               /\ UNCHANGED <<rows, flash, packet, stale, paired, lost, provided>>

\* NotifySatelliteRegistered: the row of the device comes first.
Upsert(m) ==
    /\ call[m].at = "upsert" /\ rows' = [rows EXCEPT ![m] = IF @.exists THEN @ ELSE NewRow]
    /\ call' = [call EXCEPT ![m].at = IF call[m].seed = None THEN "answer" ELSE "pair"]
    /\ UNCHANGED <<flash, packet, stale, paired, lost, provided>>

Seeded(s) == {i \in Ids : rows[i].seed = s}

\* Fault: the seed stays valid.
PairedKeepsSeed(m, s) ==
    LET old == CHOOSE i \in Seeded(s) : TRUE IN [rows EXCEPT ![m].paired = TRUE, ![old].seed = s]

\* pair_satellite: the row of the seed is renamed, or, where the device has a
\* row already (IntegrityError), deleted.
PairedRows(m, s) ==
    LET old == CHOOSE i \in Seeded(s) : TRUE
        of == IF rows[m].exists THEN rows[m] ELSE rows[old]
    IN [rows EXCEPT ![old] = NoRow, ![m] = [of EXCEPT !.seed = None, !.paired = TRUE]]

\* Fault: a seed that is used up is an error.
ConfirmedOnce(m, s) == Seeded(s) # {}

\* A satellite that was paired before is told so again.
Confirmed(m, s) == Seeded(s) # {} \/ rows[m].paired

Pair(m) ==
    LET s == call[m].seed IN
    /\ call[m].at = "pair"
    /\ call' = [call EXCEPT ![m].at = "answer", ![m].ok = Confirmed(m, s)]
    /\ IF Seeded(s) # {} THEN rows' = PairedRows(m, s) /\ paired' = [paired EXCEPT ![s] = @ \cup {m}]
                         ELSE UNCHANGED <<rows, paired>>
    /\ UNCHANGED <<flash, packet, stale, lost, provided>>

\* The proxy's SendPaired, one packet that nobody confirms.
Answer(m) ==
    /\ call[m].at = "answer" /\ call' = [call EXCEPT ![m] = Idle]
    /\ packet' = packet \cup (IF call[m].ok THEN {m} ELSE {})
    /\ UNCHANGED <<rows, flash, stale, paired, lost, provided>>
Receive(m) == /\ m \in packet /\ packet' = packet \ {m} /\ flash' = [flash EXCEPT ![m] = None]
              /\ UNCHANGED <<rows, call, stale, paired, lost, provided>>
Lose(m) == /\ m \in packet /\ packet' = packet \ {m} /\ lost < MaxLost /\ lost' = lost + 1
           /\ UNCHANGED <<rows, flash, call, stale, paired, provided>>

\* The calls of the administration make sure of the row first.
SetSatelliteDisplayName(m, n) ==
    /\ Provided /\ rows' = [rows EXCEPT ![m] = [@ EXCEPT !.name = n, !.exists = TRUE]]
    /\ UNCHANGED <<flash, call, packet, stale, paired, lost>>
DeleteSatellite(i) ==
    /\ Provided /\ rows[i].exists /\ rows' = [rows EXCEPT ![i] = NoRow]
    /\ UNCHANGED <<flash, call, packet, stale, paired, lost>>

\* cleanup_stale_seeds: selected without the lock, deleted by device_id.
SelectStale(old) == /\ stale = {} /\ old # {} /\ old \subseteq UNION {Seeded(s) : s \in Seeds} /\ stale' = old
                    /\ UNCHANGED <<rows, flash, call, packet, paired, lost, provided>>
DeleteStale == /\ stale # {} /\ stale' = {} /\ rows' = [i \in Ids |-> IF i \in stale THEN NoRow ELSE rows[i]]
               /\ UNCHANGED <<flash, call, packet, paired, lost, provided>>

Call(m) == Upsert(m) \/ Pair(m) \/ Answer(m)
Next ==
    \/ \E m \in Macs : Register(m) \/ Call(m) \/ Receive(m) \/ Lose(m) \/ \E s \in Seeds : Flash(m, s)
    \/ \E s \in Seeds, n \in Names : ProvisionSatellite(s, n)
    \/ \E m \in Macs, n \in Names : SetSatelliteDisplayName(m, n)
    \/ \E i \in Ids : DeleteSatellite(i)
    \/ \E old \in SUBSET Ids : SelectStale(old)
    \/ DeleteStale
\* Satellites start again and again.
Fairness == \A m \in Macs : WF_vars(Register(m)) /\ WF_vars(Call(m)) /\ WF_vars(Receive(m))
Spec == Init /\ [][Next]_vars /\ Fairness

-----------------------------------------------------------------------------
\* A seed is for one satellite, until a row is made for it again.
SeedPairsOnce == \A s \in Seeds : \A m, n \in paired[s] : m = n

\* A satellite that was paired forgets its seed, however many confirmations
\* are lost and whether or not its row was deleted since (grpc_server.py:1495).
SeedIsForgotten == \A m \in Macs : []<>(flash[m] = None \/ ~rows[m].paired)

\* "Looks up the seed, renames the record's device_id to the hardware
\* device_id" (satellite_manager.py:98): the name given in advance is the
\* satellite's after the pairing.
KeepsItsName ==
    [][\A m \in Macs : Pair(m) /\ Seeded(call[m].seed) # {} =>
         \E i \in Seeded(call[m].seed) : rows'[m].name = rows[i].name]_vars
=============================================================================
