------------------------------- MODULE Replay -------------------------------
(***************************************************************************)
(* aflnet-replay.c, aflnet-client.c and afl-replay.c: a saved test is sent *)
(* to a server again.  A crash is stored as records, a size and its bytes, *)
(* which aflnet-replay reads one by one; the others read the plain file.   *)
(*                                                                         *)
(* A file is a sequence of units: a size, or a byte.  The network answers  *)
(* every call at random.                                                   *)
(*                                                                         *)
(* Not modelled: sockets' options, printing, the codes of the answers      *)
(* (module Regions has them).                                              *)
(***************************************************************************)
EXTENDS Naturals, Sequences, FiniteSets, SequencesExt

\* save_kl_messages_to_file with replay_enabled: a record for each message.
SizeUnit(n) == [k |-> "size", v |-> n]
ByteUnit(b) == [k |-> "byte", v |-> b]
Record(message) == <<SizeUnit(Len(message))>> \o [i \in DOMAIN message |-> ByteUnit(message[i])]
SavedRecords(messages) == FlattenSeq([i \in DOMAIN messages |-> Record(messages[i])])

\* One packet: receive, send, receive; the loop ends where one of them fails.
\* net[k] is what fails for packet k: "none", "before", "send" or "after".
GoesOn(net, k) == net[k] = "none"
IsSent(net, k) == net[k] \in {"none", "after"}

\* What is left of the file behind a unit, and the bytes that fread puts into a
\* zeroed buffer of the given size.
NullByte == 0
ReadBytes(file, pos, size) ==
    [i \in 1..size |-> IF pos + i <= Len(file) THEN file[pos + i].v ELSE NullByte]

\* The loop of aflnet-replay: feof is known after a read that ran short, so one
\* more round reads no size and sends nothing.
replay_records(file, net) ==
    LET from[p \in 0..Len(file)] ==
            IF p = Len(file) THEN <<>>
            ELSE LET size == file[p + 1].v
                     next == IF p + 1 + size < Len(file) THEN p + 1 + size ELSE Len(file)
                 IN <<ReadBytes(file, p + 1, size)>> \o from[next]
        packets == from[0]
        last == {k \in DOMAIN packets : ~ GoesOn(net, k)}
        sent == IF last = {} THEN Len(packets)
                ELSE LET k == CHOOSE k \in last : \A j \in last : k <= j IN IF IsSent(net, k) THEN k ELSE k - 1
    IN SubSeq(packets, 1, sent)

\* aflnet-client: the plain file cut where extract_requests cuts it (ends), and
\* the same loop.
replay_regions(bytes, ends, net) ==
    LET packets == [k \in DOMAIN ends |-> SubSeq(bytes, IF k = 1 THEN 1 ELSE ends[k - 1] + 1, ends[k])]
        last == {k \in DOMAIN packets : ~ GoesOn(net, k)}
        sent == IF last = {} THEN Len(packets)
                ELSE LET k == CHOOSE k \in last : \A j \in last : k <= j IN IF IsSent(net, k) THEN k ELSE k - 1
    IN SubSeq(packets, 1, sent)

\* afl-replay: the plain file as one packet.
replay_whole(bytes, net) == IF net[1] = "send" THEN <<>> ELSE <<bytes>>

\* A server that is sent a saved test gets the messages of the run that was
\* saved, in their order, each in a packet of its own and none twice, up to where
\* the connection breaks; from a file that was cut short it gets them up to the
\* cut, and zeros for what the last one lacks.  The three tools send the same
\* bytes, if nothing fails, whatever the packets.
ReplaySendsSaved(messages, cut, net) ==
    LET file == SavedRecords(messages)
        sent == replay_records(SubSeq(file, 1, Len(file) - cut), net)
        Same(a, b) == \A i \in DOMAIN a : a[i] \in {b[i], NullByte}
    IN /\ Len(sent) <= Len(messages)
       /\ \A k \in DOMAIN sent :
             /\ Len(sent[k]) = Len(messages[k])
             /\ k < Len(sent) \/ cut = 0 => sent[k] = messages[k]
             /\ Same(sent[k], messages[k])
       /\ (cut = 0 /\ \A k \in DOMAIN messages : GoesOn(net, k)) => sent = messages
       /\ LET ends == [k \in DOMAIN messages |-> Len(FlattenSeq(SubSeq(messages, 1, k)))]
              plain == FlattenSeq(messages)
              cutUp == replay_regions(plain, ends, net)
              whole == replay_whole(plain, net)
          IN /\ \A k \in DOMAIN cutUp : cutUp[k] = messages[k]
             /\ net[1] # "send" => IsPrefix(FlattenSeq(cutUp), FlattenSeq(whole))
             /\ cut = 0 => sent = cutUp
             /\ (\A k \in DOMAIN messages : GoesOn(net, k)) => FlattenSeq(cutUp) = FlattenSeq(whole)
=============================================================================
