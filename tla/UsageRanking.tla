----------------------------- MODULE UsageRanking -----------------------------
(* The command-line feed (usage.rs): a history of texts, oldest first, becomes *)
(* one entry for each text, and the entries are put in order.  An occurrence   *)
(* is a text and its stamp, <<>> when the history has no time for it.          *)
EXTENDS Scores

Empty == ""     \* the text that is skipped

\* One occurrence, counted on the entry of its text.
Observe(entries, o, ordinal) ==
    LET old   == {i \in DOMAIN entries : entries[i].command = o.text}
        slot  == IF old = {} THEN Len(entries) + 1 ELSE Min(old)
        entry == IF old = {} THEN [command |-> o.text, timestamps |-> <<>>, occurrences |-> 0]
                             ELSE entries[slot]
    IN  [i \in DOMAIN entries \cup {slot} |->
            IF i # slot THEN entries[i]
            ELSE [command |-> o.text, occurrences |-> entry.occurrences + 1,
                  timestamps |-> entry.timestamps \o o.stamp, last_ordinal |-> ordinal]]

\* (Mistaken variant: the empty texts take an ordinal too.)
OccursCountingEmpty(feed, o) ==
    [entries |-> IF o.text = Empty THEN feed.entries ELSE Observe(feed.entries, o, feed.ordinal),
     ordinal |-> feed.ordinal + 1]

\* The empty texts are filtered out before the others are numbered.
Occurs(feed, o) ==
    IF o.text = Empty THEN feed
    ELSE [entries |-> Observe(feed.entries, o, feed.ordinal), ordinal |-> feed.ordinal + 1]

Accumulate(history) == FoldLeft(Occurs, [entries |-> <<>>, ordinal |-> 0], history).entries

\* UsageEntry::frecency.
Frecency(e, now) ==
    Total(Map(LAMBDA t : HyperbolicDays(IF now < t THEN 0 ELSE now - t), e.timestamps))

\* The order of each mode; last ordinals are distinct.
FeedPrecedes(mode, now, a, b) ==
    \/ mode = "Frecency" /\ Frecency(a, now) > Frecency(b, now)
    \/ /\ mode = "Frecency" => Frecency(a, now) = Frecency(b, now)
       /\ a.last_ordinal > b.last_ordinal

\* (Mistaken variant: swap(0, newest).)
PinBySwap(seq, i) == [seq EXCEPT ![1] = seq[i], ![i] = seq[1]]

\* remove(newest), insert(0).
Pin(seq, i) == <<seq[i]>> \o RemoveAt(seq, i)

Newest(seq) == CHOOSE i \in DOMAIN seq : \A j \in DOMAIN seq :
                   seq[j].last_ordinal <= seq[i].last_ordinal

RankEntries(entries, opts, now) ==
    LET sorted == StableSort(entries, LAMBDA a, b : FeedPrecedes(opts.mode, now, a, b))
    IN  IF opts.pin_most_recent /\ sorted # <<>> THEN Pin(sorted, Newest(sorted)) ELSE sorted
-----------------------------------------------------------------------------
\* What the fields of UsageEntry are documented to be, read off the history.
Said(history)       == {n \in DOMAIN history : history[n].text # Empty}
Uses(text, history) == {n \in DOMAIN history : history[n].text = text}

EntryOf(text, history) ==
    [command |-> text, occurrences |-> Cardinality(Uses(text, history)),
     timestamps |-> FoldLeft(LAMBDA all, o : IF o.text = text THEN all \o o.stamp ELSE all,
                             <<>>, history),
     last_ordinal |-> Cardinality({n \in Said(history) : n < Max(Uses(text, history))})]

\* One entry for each text, with all its occurrences.
IsFeedOf(entries, history) ==
    LET texts == {history[n].text : n \in Said(history)}
    IN  /\ Len(entries) = Cardinality(texts)
        /\ ToSet(entries) = {EntryOf(t, history) : t \in texts}

\* The entries in the order of the mode, but for the newest at the top.
IsRanked(ranked, opts, now) ==
    LET body == IF opts.pin_most_recent /\ ranked # <<>> THEN Tail(ranked) ELSE ranked
    IN  /\ \A i, j \in DOMAIN body : i < j => FeedPrecedes(opts.mode, now, body[i], body[j])
        /\ opts.pin_most_recent =>
              \A e \in ToSet(ranked) : e.last_ordinal <= ranked[1].last_ordinal
=============================================================================
