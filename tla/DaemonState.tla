----------------------------- MODULE DaemonState -----------------------------
(***************************************************************************)
(* The state shared by the dispatcher and the IPC server                   *)
(* (owlsentry-daemon/src/state.rs): the ring of recent alerts and the      *)
(* statistics.  Every method of DaemonState takes the RwLock, works        *)
(* without awaiting and releases it, so each one is an operator on the     *)
(* value the lock protects and takes effect in one step.                   *)
(***************************************************************************)
EXTENDS Integers, Sequences

CONSTANTS
  Monitors,        \* the tasks that raise alerts (audit, fs, net, process)
  Severities,      \* keys of by_severity
  Categories,      \* keys of by_category
  RecentBuffer,    \* general.recent_buffer of the configuration
  MaxHourBuckets,  \* MAX_HOUR_BUCKETS, 48 in the code
  HourLength,      \* clock ticks in one hour
  NoAlert          \* "no alert here"; not an alert

(***************************************************************************)
(* The Alert of owlsentry-common.  `tag' stands for everything that tells  *)
(* two alerts apart (title, what, why, how, metadata): it is the rank at   *)
(* which the alert was built.  `src' is the monitor that built it, `ts'    *)
(* the instant it did, `id' the number the dispatcher gives (0: none yet). *)
(***************************************************************************)
Alert == [tag: Nat, src: Monitors, sev: Severities, cat: Categories,
          ts: Nat, id: Nat]

ASSUME StateAssumption ==
  /\ RecentBuffer \in Nat
  /\ MaxHourBuckets \in Nat \ {0}
  /\ HourLength \in Nat \ {0}
  /\ NoAlert \notin Alert

\* DaemonState::new clamps the configured size: recent_buffer.max(1).
RecentCapacity == IF RecentBuffer = 0 THEN 1 ELSE RecentBuffer

\* truncate_to_hour: the first instant of the hour ts is in.
TruncateToHour(ts) == ts - (ts % HourLength)

\* The last n elements of s: what `while len > n { pop_front }' leaves, and
\* what `skip(len - n)' yields.
LastN(s, n) == IF Len(s) <= n THEN s ELSE SubSeq(s, Len(s) - n + 1, Len(s))

HourBucket == [hour: Nat, count: Nat]

StateType == [recent: Seq(Alert), total: Nat,
              by_severity: [Severities -> Nat],
              by_category: [Categories -> Nat],
              hourly: Seq(HourBucket)]

\* A counter absent from a BTreeMap is a 0 here.
EmptyState == [recent |-> <<>>, total |-> 0,
               by_severity |-> [s \in Severities |-> 0],
               by_category |-> [c \in Categories |-> 0],
               hourly |-> <<>>]

(***************************************************************************)
(* The hourly counters after an alert of the given hour: the LAST bucket   *)
(* is incremented if it is of that hour, otherwise a bucket is pushed and  *)
(* the oldest one may go.  Only the last bucket is ever looked at.         *)
(***************************************************************************)
CountHour(hourly, hour) ==
  LET n == Len(hourly)
  IN  IF n > 0 /\ hourly[n].hour = hour
      THEN [hourly EXCEPT ![n].count = @ + 1]
      ELSE LastN(Append(hourly, [hour |-> hour, count |-> 1]), MaxHourBuckets)

\* The slip of making room before the push, not after.
RecordAlert_TrimFirst(state, a) ==
  [recent |-> Append(LastN(state.recent, RecentCapacity), a),
   total |-> state.total + 1,
   by_severity |-> [state.by_severity EXCEPT ![a.sev] = @ + 1],
   by_category |-> [state.by_category EXCEPT ![a.cat] = @ + 1],
   hourly |-> CountHour(state.hourly, TruncateToHour(a.ts))]

\* DaemonState::record
RecordAlert(state, a) ==
  [recent |-> LastN(Append(state.recent, a), RecentCapacity),
   total |-> state.total + 1,
   by_severity |-> [state.by_severity EXCEPT ![a.sev] = @ + 1],
   by_category |-> [state.by_category EXCEPT ![a.cat] = @ + 1],
   hourly |-> CountHour(state.hourly, TruncateToHour(a.ts))]

\* The slip of take(limit) in place of skip(len - limit).
RecentAlerts_Oldest(state, limit) ==
  SubSeq(state.recent, 1, IF limit < Len(state.recent) THEN limit ELSE Len(state.recent))

\* DaemonState::recent: the `limit' newest alerts, oldest first.
RecentAlerts(state, limit) == LastN(state.recent, limit)

\* DaemonState::stats: the snapshot a GetStats reply carries.
StatsSnapshot(state) ==
  [total |-> state.total, by_severity |-> state.by_severity,
   by_category |-> state.by_category, hourly |-> state.hourly]
=============================================================================
