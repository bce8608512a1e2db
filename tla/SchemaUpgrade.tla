---------------------------- MODULE SchemaUpgrade ----------------------------
(***************************************************************************)
(* The migration scripts of sqlite_migration.rs and postgres_migration.rs  *)
(* and the database they work on. A script is a sequence of commits, as    *)
(* they reach the disk: execute_batch outside a transaction commits each   *)
(* statement for itself, and so does PRAGMA user_version; what a script    *)
(* does inside one transaction is one commit. A relay may be killed        *)
(* between any two of them.                                                *)
(*                                                                         *)
(* The schema is the set of what a query or a later script can tell apart: *)
(* tables, columns, and that stored rows were brought to a new form.       *)
(* Indexes, VACUUM and reindex change no answer and are left out.          *)
(***************************************************************************)
EXTENDS Integers, Sequences

VARIABLES engine,     (* database.engine                                       *)
          version,    (* PRAGMA user_version; the greatest serial_number       *)
          has,        (* what the schema has                                   *)
          unfinished  (* history: versions whose scripts have written the next *)
                      (* version but have not come to their end                *)

database == <<engine, version, has, unfinished>>

\* The first version of the schema that has a thing (DB_VERSION and the tables above).
SqliteSince ==
  [event |-> 1, hidden |-> 2, hidden_set |-> 2, tag |-> 3, tags_built |-> 3,
   user_verification |-> 4, delegated_by |-> 7, newest_shown |-> 12,
   hidden_removed |-> 15, tags_as_text |-> 16, expires_at |-> 17,
   invoice |-> 18, account |-> 18]

PostgresSince ==
  [event |-> 1, tag |-> 1, user_verification |-> 1, value_hex |-> 2, tags_built |-> 2,
   unique_tags |-> 3, expires_at |-> 4, account |-> 5, invoice |-> 5]

Since == IF engine = "sqlite" THEN SqliteSince ELSE PostgresSince
SchemaOf(n) == {o \in DOMAIN Since : Since[o] <= n}

\* Tables that version 5 drops: references of events stored before there were tags.
References == {"event_ref", "pubkey_ref"}

----------------------------------------------------------------------------
(* Commits: a column can be added only once; "IF NOT EXISTS" makes the rest  *)
(* repeatable. A stamp of 0 leaves the version as it is.                     *)

Make(things) == [column |-> {}, make |-> things, drop |-> {}, stamp |-> 0]
AddColumn(c) == [Make({c}) EXCEPT !.column = {c}]
Drop(things) == [Make({}) EXCEPT !.drop = things]
Stamp(n)     == [Make({}) EXCEPT !.stamp = n]
Transaction(things, n) == [Make(things) EXCEPT !.stamp = n]

\* A database in the making: the version is among the pragmas that come first.
mig_init ==
  <<Stamp(18),
    Make({"event", "hidden", "hidden_set", "delegated_by", "newest_shown",
          "hidden_removed", "expires_at"}),
    Make({"tag", "tags_built", "tags_as_text"}), Make({"user_verification"}),
    Make({"account"}), Make({"invoice"})>>

mig_1_to_2   == <<AddColumn("hidden"), Make({"hidden_set"}), Stamp(2)>>
mig_2_to_3   == <<Make({"tag"}), Stamp(3), Make({"tags_built"})>>
mig_3_to_4   == <<Make({"user_verification"}), Stamp(4)>>
mig_4_to_5   == <<Drop({"event_ref"}), Drop({"pubkey_ref"}), Stamp(5)>>
mig_5_to_6   == <<Transaction({"tags_built"}, 6)>>
mig_6_to_7   == <<AddColumn("delegated_by"), Stamp(7)>>
mig_7_to_8   == <<Stamp(8)>>
mig_8_to_9   == <<Stamp(9)>>
mig_9_to_10  == <<Stamp(10)>>
mig_10_to_11 == <<Stamp(11)>>
mig_11_to_12 == <<Transaction({"newest_shown"}, 12)>>
mig_12_to_13 == <<Stamp(13)>>
mig_13_to_14 == <<Stamp(14)>>
mig_14_to_15 == <<Stamp(15), Make({"hidden_removed"})>>
mig_15_to_16 == <<Transaction({"tags_as_text", "tags_built"}, 16)>>
StampedFirst == <<Stamp(17), AddColumn("expires_at")>>
mig_16_to_17 == <<AddColumn("expires_at"), Stamp(17)>>
mig_17_to_18 == <<Make({"invoice"}), Make({"account"}), Stamp(18)>>

\* The scripts by the version they start from.
upgrade_db ==
  [v \in 0 .. 17 |->
     IF v = 0 THEN mig_init
     ELSE <<mig_1_to_2, mig_2_to_3, mig_3_to_4, mig_4_to_5, mig_5_to_6, mig_6_to_7,
            mig_7_to_8, mig_8_to_9, mig_9_to_10, mig_10_to_11, mig_11_to_12,
            mig_12_to_13, mig_13_to_14, mig_14_to_15, mig_15_to_16, mig_16_to_17,
            mig_17_to_18>>[v]]

\* run_migration: what a migration changes and its serial number are one transaction.
\* The tags are rebuilt in another one, by the run that made the change.
m001 == <<Transaction({"event", "tag", "user_verification"}, 1)>>
m002 == <<Transaction({"value_hex"}, 2), Make({"tags_built"})>>
m003 == <<Transaction({"unique_tags"}, 3)>>
m004 == <<Transaction({"expires_at"}, 4)>>
m005 == <<Transaction({"account", "invoice"}, 5)>>

run_migrations == [v \in 0 .. 4 |-> <<m001, m002, m003, m004, m005>>[v + 1]]

Scripts == IF engine = "sqlite" THEN upgrade_db ELSE run_migrations
DB_VERSION == IF engine = "sqlite" THEN 18 ELSE 5

\* The version that the script from v leads to.
Reached(v) == IF engine = "sqlite" /\ v = 0 THEN 18 ELSE v + 1

\* A database of any version up to one that is newer than this code.
DatabaseInit ==
  /\ engine \in {"sqlite", "postgres"}
  /\ version \in 0 .. DB_VERSION + 1
  /\ has = SchemaOf(version) \cup
             (IF engine = "sqlite" /\ version \in 1 .. 4 THEN References ELSE {})
  /\ unfinished = {}

\* The commit at place i of the script from v reaches the disk.
Execute(v, i) ==
  LET commit == Scripts[v][i] IN
  /\ commit.column \cap has = {}
  /\ has' = (has \cup commit.make) \ commit.drop
  /\ version' = IF commit.stamp = 0 THEN version ELSE commit.stamp
  /\ unfinished' = IF i = Len(Scripts[v]) THEN unfinished \ {v}
                   ELSE IF commit.stamp # 0 THEN unfinished \cup {v} ELSE unfinished
  /\ UNCHANGED engine

----------------------------------------------------------------------------
\* What the script from v does after it has written the next version. A database in
\* the making has nothing yet; tags that were not loaded are rebuilt by version 6.
DoneLate(v) ==
  IF engine = "sqlite"
  THEN [s \in 0 .. 17 |->
          CASE s = 0  -> SchemaOf(18)
            [] s = 2  -> IF version < 6 THEN {"tags_built"} ELSE {}
            [] s = 14 -> {"hidden_removed"}
            [] OTHER  -> {}][v]
  ELSE IF v = 1 THEN {"tags_built"} ELSE {}

\* Wherever the relays were killed, the version number tells the truth: a database of
\* version n has all that belongs to it, except for what one of the four scripts that
\* write the version first was kept from doing; and the old references are there
\* exactly as long as a script may need them.
VersionTellsTruth ==
  /\ SchemaOf(version) \ has \subseteq UNION {DoneLate(v) : v \in unfinished}
  /\ engine = "sqlite" /\ version \in 1 .. 3 => References \subseteq has
  /\ version >= 5 => References \cap has = {}
=============================================================================
