------------------------------ MODULE Keyring ------------------------------
(***************************************************************************)
(* The decryption keys of the networks (assoc_keys.hpp; AssocModel's       *)
(* keyring, bp_ and net_keys_): what users set and remove over HTTP, the   *)
(* file it is kept in, and the options each starting decoder reads.  Every *)
(* request holds the model's mutex; a starting session takes and releases  *)
(* it once for each thing it reads, so requests fall between its steps.    *)
(*                                                                         *)
(* A key as text is [hex, digits, v]: whether all of it is hex, how many   *)
(* digits, and the number they make.  Spaces and case are left out.        *)
(***************************************************************************)
EXTENDS Naturals, Sequences, FiniteSets, TLC, SequencesExt, FiniteSetsExt

CONSTANTS
  Nets,        \* the networks in the order of their maps: [fam, freq]
  Ids,         \* key ids as typed
  Typed,       \* key values as typed
  Numbers,     \* Basic Privacy numbers as typed
  Kinds,       \* the kinds of per-network key the instance uses
  Hints,       \* the sessions' protocol families; "auto" is any
  Freqs,       \* the sessions' channel frequencies; 0 is unknown
  Sessions,
  MaxByte,     \* the last 8-bit key id
  MaxChanges,  \* bound: requests
  MaxStarts    \* bound: starts of a session

VARIABLES
  ring,        \* [keys, bp, secret]: keys_, bp_, net_keys_
  file,        \* the keys file
  stale,       \* history: the last write of the file failed
  changes,     \* requests so far
  sess         \* what each session has read

vars == <<ring, file, stale, changes, sess>>

NoKey == [hex |-> FALSE, digits |-> 0, v |-> 0]
NoId == 1000000
NoRing == [keys |-> <<>>, bp |-> <<>>, secret |-> <<>>]
Written(r) == [whole |-> TRUE, ring |-> r]
Torn == [whole |-> FALSE, ring |-> NoRing]

----------------------------------------------------------------------------
\* Ids and values as they are stored.

KeyNormId(t) == IF t.hex /\ t.digits > 0 THEN t.v ELSE NoId
KeyNormValue(t) == IF t.hex /\ t.digits \in 1..64 /\ t.digits % 2 = 0 THEN t ELSE NoKey
HexKeyNorm(t, digits) ==
  IF t.hex /\ t.digits \in 1..digits /\ t.v # 0 THEN [t EXCEPT !.digits = digits] ELSE NoKey

\* net_key_kinds, in their order.
NetKeyKinds == <<
  [id |-> "ep",    digits |-> 10, forced |-> FALSE, allow256 |-> FALSE],
  [id |-> "tytep", digits |-> 32, forced |-> TRUE,  allow256 |-> FALSE],
  [id |-> "tytbp", digits |-> 4,  forced |-> TRUE,  allow256 |-> FALSE],
  [id |-> "anybp", digits |-> 4,  forced |-> TRUE,  allow256 |-> FALSE],
  [id |-> "tytap", digits |-> 32, forced |-> TRUE,  allow256 |-> TRUE],
  [id |-> "bfap",  digits |-> 32, forced |-> TRUE,  allow256 |-> TRUE],
  [id |-> "rtap",  digits |-> 32, forced |-> TRUE,  allow256 |-> TRUE] >>
Forced == {i \in DOMAIN NetKeyKinds : NetKeyKinds[i].forced}
Kind(id) == CHOOSE i \in DOMAIN NetKeyKinds : NetKeyKinds[i].id = id

NetKeyNorm(i, t) ==
  LET k == NetKeyKinds[i]
  IN IF k.allow256 /\ t.digits = 64 THEN HexKeyNorm(t, 64) ELSE HexKeyNorm(t, k.digits)

----------------------------------------------------------------------------
\* The keys file, and the requests.

Without(f, S) == [x \in DOMAIN f \ S |-> f[x]]
With(f, x, v) == [y \in DOMAIN f \cup {x} |-> IF y = x THEN v ELSE f[y]]

\* Fault: a 256-bit key in the file is taken for a malformed one.
LoadUsualLength(f) ==
  IF ~f.whole THEN NoRing
  ELSE [f.ring EXCEPT !.secret =
          Without(@, {x \in DOMAIN @ : HexKeyNorm(@[x], NetKeyKinds[x[1]].digits) = NoKey})]

\* What is read back from the file: the entries that are still well-formed.
Load(f) ==
  LET r == f.ring
      secret == [x \in DOMAIN r.secret |-> NetKeyNorm(x[1], r.secret[x])]
  IN IF ~f.whole THEN NoRing
     ELSE [keys |-> Without(r.keys, {x \in DOMAIN r.keys : KeyNormValue(r.keys[x]) = NoKey}),
           bp |-> Without(r.bp, {n \in DOMAIN r.bp : r.bp[n] \notin 1..255}),
           secret |-> Without(secret, {x \in DOMAIN secret : secret[x] = NoKey})]

\* A new file is written beside the old one and renamed over it; the request
\* succeeds whatever becomes of it.  A file that cannot be made leaves the old
\* one; one cut off when it is closed (a full disk) goes unnoticed, and is
\* renamed all the same.
Save(new) == \E result \in {Written(new), file, Torn} : file' = result /\ stale' = (result # Written(new))

\* Whoever is starting, or has started, read keys that have changed.
Touched == [s \in Sessions |-> [sess[s] EXCEPT !.changed = TRUE]]
Change(new) ==
  /\ changes < MaxChanges /\ changes' = changes + 1
  /\ ring' = new /\ Save(new) /\ sess' = Touched

SetKey(n, t, v) ==
  /\ KeyNormId(t) # NoId /\ KeyNormValue(v) # NoKey
  /\ Change([ring EXCEPT !.keys = With(@, <<n, KeyNormId(t)>>, KeyNormValue(v))])
RemoveKey(n, t) ==
  /\ <<n, KeyNormId(t)>> \in DOMAIN ring.keys
  /\ Change([ring EXCEPT !.keys = Without(@, {<<n, KeyNormId(t)>>})])
SetBp(n, number) == number \in 1..255 /\ Change([ring EXCEPT !.bp = With(@, n, number)])
RemoveBp(n) == n \in DOMAIN ring.bp /\ Change([ring EXCEPT !.bp = Without(@, {n})])

SetNetKey(i, n, t) ==
  LET others == IF i \in Forced THEN {<<k, n>> : k \in Forced \ {i}} ELSE {}
  IN /\ NetKeyNorm(i, t) # NoKey
     /\ Change([ring EXCEPT !.secret = With(Without(@, others), <<i, n>>, NetKeyNorm(i, t))])
RemoveNetKey(i, n) ==
  <<i, n>> \in DOMAIN ring.secret /\ Change([ring EXCEPT !.secret = Without(@, {<<i, n>>})])

----------------------------------------------------------------------------
\* What a starting session reads.

\* The first of the DMR networks on a frequency, of those that have an entry.
FirstOn(freq, having) ==
  LET at == {n \in having : Nets[n].fam = "dmr" /\ freq > 0 /\ Nets[n].freq = freq}
  IN IF at = {} THEN 0 ELSE Min(at)
BpForFreq(freq) ==
  LET n == FirstOn(freq, DOMAIN ring.bp) IN IF n = 0 THEN 0 ELSE ring.bp[n]
NetKeyForFreq(i, freq) ==
  LET n == FirstOn(freq, {x \in DOMAIN Nets : <<i, x>> \in DOMAIN ring.secret})
  IN IF n = 0 THEN NoKey ELSE ring.secret[<<i, n>>]

\* What the first list has not, from the second.
Over(f, g) == [x \in DOMAIN f \cup DOMAIN g |-> IF x \in DOMAIN f THEN f[x] ELSE g[x]]
\* A network's keys by their ids.
KeysOf(keys, n) == [id \in {x[2] : x \in {y \in DOMAIN keys : y[1] = n}} |-> keys[<<n, id>>]]

\* The decoder's key list: where networks share a key id the first one's key,
\* after the rows that give the EP key every 8-bit id; a later row counts.
KeysCsvFamily(fam) ==
  FoldLeft(LAMBDA list, n : IF fam = "auto" \/ Nets[n].fam = fam THEN Over(list, KeysOf(ring.keys, n)) ELSE list,
           <<>>, [n \in DOMAIN Nets |-> n])
EpRows(ep) == IF ep = NoKey THEN <<>> ELSE [id \in 0..MaxByte |-> ep]
\* Fault: the EP rows come last, and count.
KeysCsvStreamEpLast(fam, ep) == Over(EpRows(ep), KeysCsvFamily(fam))
KeysCsvStream(fam, ep) == Over(KeysCsvFamily(fam), EpRows(ep))

Idle == [at |-> "off", starts |-> 0, changed |-> FALSE, fam |-> "auto", freq |-> 0, own |-> FALSE,
         kind |-> 0, bp |-> 0, ep |-> NoKey, secret |-> <<0, NoKey>>, list |-> <<>>]
Set(s, r) == sess' = [sess EXCEPT ![s] = r] /\ UNCHANGED <<ring, file, stale, changes>>

\* Only a stream that may be DMR reads the keys of DMR networks; `own` is a
\* Basic Privacy number of the client's.
Begin(s, fam, freq, own) ==
  Set(s, [Idle EXCEPT !.at = IF fam \in {"dmr", "auto"} THEN "bp" ELSE "list",
                      !.starts = sess[s].starts + 1, !.fam = fam, !.freq = freq, !.own = own])
Start(s) ==
  /\ sess[s].at = "off" /\ sess[s].starts < MaxStarts
  /\ \E fam \in Hints, freq \in Freqs, own \in BOOLEAN : Begin(s, fam, freq, own)
\* /net/keys/reload: the session starts again as it was started.
Reload(s) ==
  /\ sess[s].at = "on" /\ sess[s].starts < MaxStarts
  /\ Begin(s, sess[s].fam, sess[s].freq, sess[s].own)
Stop(s) == sess[s].at = "on" /\ Set(s, [Idle EXCEPT !.starts = sess[s].starts])

ReadBp(s) ==
  /\ sess[s].at = "bp"
  /\ Set(s, [sess[s] EXCEPT !.at = "ep", !.bp = IF sess[s].own THEN 0 ELSE BpForFreq(sess[s].freq)])
ReadEp(s) ==
  /\ sess[s].at = "ep"
  /\ Set(s, [sess[s] EXCEPT !.at = "forced", !.kind = Min(Forced), !.ep = NetKeyForFreq(Kind("ep"), sess[s].freq)])
\* One kind after the other, until one is found.
ReadForced(s) ==
  /\ sess[s].at = "forced"
  /\ LET i == sess[s].kind
         v == NetKeyForFreq(i, sess[s].freq)
     IN Set(s, IF v # NoKey THEN [sess[s] EXCEPT !.at = "list", !.secret = <<i, v>>]
               ELSE IF i = Max(Forced) THEN [sess[s] EXCEPT !.at = "list"]
               ELSE [sess[s] EXCEPT !.kind = i + 1])
\* The list goes to the decoder in a file, unless that cannot be written.
ReadList(s) ==
  /\ sess[s].at = "list"
  /\ \E written \in BOOLEAN :
       Set(s, [sess[s] EXCEPT !.at = "on", !.list = IF written THEN KeysCsvStream(sess[s].fam, sess[s].ep) ELSE <<>>])

----------------------------------------------------------------------------
\* The server dies at any point and starts again with what the file holds.
Restart ==
  /\ ring' = Load(file) /\ sess' = [s \in Sessions |-> [Idle EXCEPT !.starts = sess[s].starts]]
  /\ stale' = FALSE /\ UNCHANGED <<file, changes>>

Init ==
  /\ ring = NoRing /\ file = Written(NoRing) /\ stale = FALSE /\ changes = 0
  /\ sess = [s \in Sessions |-> Idle]

Next ==
  \/ \E n \in DOMAIN Nets :
       \/ \E t \in Ids : (\E v \in Typed : SetKey(n, t, v)) \/ RemoveKey(n, t)
       \/ (\E number \in Numbers : SetBp(n, number)) \/ RemoveBp(n)
       \/ \E id \in Kinds : (\E t \in Typed : SetNetKey(Kind(id), n, t)) \/ RemoveNetKey(Kind(id), n)
  \/ \E s \in Sessions : \/ Start(s) \/ Reload(s) \/ Stop(s)
                         \/ ReadBp(s) \/ ReadEp(s) \/ ReadForced(s) \/ ReadList(s)
  \/ Restart

Spec == Init /\ [][Next]_vars

----------------------------------------------------------------------------
\* A restart brings back every key as it was last set, whatever its kind and
\* length, unless the last write of the file failed.
KeysSurvive == ~stale => Load(file) = ring

\* A decoder whose start no request interrupted runs with the keys of its
\* channel: a forced key if any network there has one, and for every key id
\* the keyring's key before the EP key, of the first network that has it.
StreamsHaveTheirKeys ==
  \A s \in Sessions :
    LET c == sess[s]
        Here == {n \in DOMAIN Nets : Nets[n].fam = "dmr" /\ c.freq # 0 /\ Nets[n].freq = c.freq}
        reads == c.fam \in {"dmr", "auto"}
        ours == {x \in DOMAIN ring.keys : c.fam \in {"auto", Nets[x[1]].fam}}
        hasEp == reads /\ \E n \in Here : <<Kind("ep"), n>> \in DOMAIN ring.secret
    IN c.at = "on" /\ ~c.changed =>
         /\ (c.bp # 0) = (reads /\ ~c.own /\ Here \cap DOMAIN ring.bp # {})
         /\ (c.secret[1] # 0) = (reads /\ \E x \in DOMAIN ring.secret : x[1] \in Forced /\ x[2] \in Here)
         /\ c.secret[1] # 0 => \E n \in Here : <<c.secret[1], n>> \in DOMAIN ring.secret
         /\ c.list # <<>> =>
              \A x \in ours :
                /\ c.list[x[2]] \in {ring.keys[y] : y \in {z \in ours : z[2] = x[2]}}
                /\ (\A y \in ours : y[2] = x[2] => y[1] >= x[1]) => c.list[x[2]] = ring.keys[x]
         /\ c.list # <<>> /\ hasEp => 0..MaxByte \subseteq DOMAIN c.list
=============================================================================
