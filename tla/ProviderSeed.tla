---------------------------- MODULE ProviderSeed ----------------------------
(***************************************************************************)
(* The providers from an empty table on: SeedFromConfig inserts those of   *)
(* config.yaml one by one, the router loads its first table, and every     *)
(* edit of the admin API is followed by a reload.  Each key is encrypted   *)
(* with the key-encryption key of the run that stored it; a row whose key  *)
(* this run cannot decrypt makes the whole reload fail.                    *)
(*                                                                         *)
(* One handler is at work at a time: how several of them interleave is the *)
(* subject of ProviderCatalog.                                             *)
(***************************************************************************)
EXTENDS ProviderUsage, Sequences, FiniteSets

CONSTANTS
  Slugs,   \* provider slugs
  Config,  \* the providers of config.yaml, in order
  Keks     \* the values GATEWAY_KEK_ENV may have at a start

ASSUME SeedAssumption == Config \in Seq(Slugs)

VARIABLES
  status,  \* status[s]: the row of provider s is "absent", "on" or "off"
  sealed,  \* sealed[s]: the key-encryption key its API key was encrypted with
  date,    \* date[s]: its cycle_start_date
  kek,     \* the key-encryption key of this run
  toSeed,  \* the providers SeedFromConfig has yet to insert
  table    \* the providers of the router's table

(* History variables, for the properties only. *)
VARIABLES
  removed,   \* the providers an admin deleted or never had, and nobody created since
  seedCut    \* a crash has cut the seeding

providers == <<status, sealed, date>>
seedVars == <<providers, kek, toSeed, table, removed, seedCut>>

Rows == {s \in Slugs : status[s] # "absent"}
Enabled == {s \in Slugs : status[s] = "on"}
Readable(s) == sealed[s] = kek

SeedInit ==
  /\ status \in [Slugs -> {"absent", "on"}]
  /\ kek \in Keks
  /\ sealed = [s \in Slugs |-> kek]
  /\ date = [s \in Slugs |-> NoDate]
  /\ toSeed = <<>> /\ table = {} /\ seedCut = FALSE
  /\ removed = IF Rows = {} THEN {} ELSE Slugs \ Rows

\* A mutant of SeedPlan: whatever is missing is inserted, at every start.
SeedMissing == LET missing(s) == s \notin Rows IN SelectSeq(Config, missing)

\* SeedFromConfig: all of config.yaml, if there is no provider at all.
SeedPlan == IF Rows = {} THEN Config ELSE <<>>

\* The next INSERT of SeedFromConfig.
InsertSeed(today) ==
  LET s == Head(toSeed)
  IN  /\ toSeed # <<>>
      /\ status' = [status EXCEPT ![s] = "on"]
      /\ sealed' = [sealed EXCEPT ![s] = kek]
      /\ date' = [date EXCEPT ![s] = today]
      /\ toSeed' = Tail(toSeed)
      /\ UNCHANGED <<kek, table, removed, seedCut>>

\* NewRouter: an empty table if the first load fails.
FirstLoad ==
  /\ toSeed = <<>>
  /\ table' = IF \A s \in Enabled : Readable(s) THEN Enabled ELSE {}
  /\ UNCHANGED <<providers, kek, toSeed, removed, seedCut>>

-----------------------------------------------------------------------------
(* An edit, and the reload after it. *)

\* A mutant of Reloaded: the table in use is filled in place.
ReloadedInPlace(on, sealing) ==
  IF \A s \in on : sealing[s] = kek THEN table \cup on ELSE table

\* Reload keeps the current table if BuildProviderTable fails.
Reloaded(on, sealing) == IF \A s \in on : sealing[s] = kek THEN on ELSE table

Reload == table' = Reloaded({s \in Slugs : status'[s] = "on"}, sealed')

\* HandleCreateProvider.
CreateProvider(s, day) ==
  /\ status[s] = "absent"
  /\ status' = [status EXCEPT ![s] = "on"]
  /\ sealed' = [sealed EXCEPT ![s] = kek]
  /\ date' = [date EXCEPT ![s] = day]
  /\ removed' = removed \ {s}
  /\ UNCHANGED <<kek, toSeed, seedCut>>
  /\ Reload

\* HandleUpdateProvider: any of enabled, api_key and cycle_start_date.
UpdateProvider(s, day) ==
  /\ status[s] # "absent"
  /\ \E v \in {"on", "off"} : status' = [status EXCEPT ![s] = v]
  /\ \E key \in {kek, sealed[s]} : sealed' = [sealed EXCEPT ![s] = key]
  /\ \E d \in {day, date[s]} : date' = [date EXCEPT ![s] = d]
  /\ UNCHANGED <<kek, toSeed, removed, seedCut>>
  /\ Reload

\* HandleDeleteProvider: refused for the last one.
DeleteProvider(s) ==
  /\ status[s] # "absent" /\ Rows # {s}
  /\ status' = [status EXCEPT ![s] = "absent"]
  /\ removed' = removed \cup {s}
  /\ UNCHANGED <<sealed, date, kek, toSeed, seedCut>>
  /\ Reload
=============================================================================
