------------------------------ MODULE Regions ------------------------------
(***************************************************************************)
(* How aflnet.c cuts the requests of a seed into regions, one per message, *)
(* and reads the status codes of a response.                               *)
(*                                                                         *)
(* A buffer is a sequence of bytes or, where the code compares words, of   *)
(* tokens: CR, LF, a numeric field, a word such as a SIP command that      *)
(* stands for its first byte, or Other for another.  Positions count       *)
(* from 0 as in the code.  The lengths of headers are constants, so that a *)
(* small instance meets every boundary; length fields are one byte.        *)
(***************************************************************************)
EXTENDS Integers, SequencesExt

CONSTANTS
    DnsHeader, DnsTail,      \* 12 and 4
    TlsHeader,               \* 5, of which the last bytes are the length
    SshField, SshMac,        \* 4, the length field of SSH; 8
    DicomHeader,             \* 6
    DtlsHeader,              \* 13: content type, version, the last bytes are the length
    DtlsFragment             \* 12, of which the last bytes are the fragment's length

\* The words, apart from the numbers and from each other.
CR == -1
LF == -2
Command == -3
Tag == -4
Ssh == -5
Dtls == -6
Version == -7
Other == -8

\* The content types of TLS and DTLS.
ChangeCipher == 20
Alert == 21
Handshake == 22
Application == 23
Heartbeat == 24
ContentTypes == ChangeCipher..Heartbeat

\* The types of messages that cannot be told, and of those too short.
Unknown == 255
Malformed == 254

\* What is not a code of the response: the code was computed from bytes behind
\* the buffer, and the reading never ends.
Behind == -20
Endless == -21

At(buf, i) == buf[i + 1]
Region(s, e) == <<[start |-> s, end |-> e]>>
Least(S) == CHOOSE i \in S : \A j \in S : i <= j

\* The two bytes that end at i are CR LF, or the four are CR LF CR LF.
EndsLine(buf, i) == At(buf, i - 1) = CR /\ At(buf, i) = LF
EndsHead(buf, i) == EndsLine(buf, i) /\ EndsLine(buf, i - 2)
Follows(buf, i, word) == i + 1 < Len(buf) /\ At(buf, i + 1) = word

----------------------------------------------------------------------------
(* Requests *)

\* A buffer without any region is one region.
OrWhole(buf, regions) ==
    IF regions = <<>> /\ buf # <<>> THEN Region(0, Len(buf) - 1) ELSE regions

\* Regions from position 0, each up to EndOf(start).  A last byte that would
\* be a region of its own is given up.
CutUp(buf, EndOf(_)) ==
    LET n == Len(buf)
        cut[s \in 0..(2 * n + DnsTail)] ==
            IF s + 1 >= n THEN <<>> ELSE Region(s, EndOf(s)) \o cut[EndOf(s) + 1]
    IN OrWhole(buf, cut[0])

\* A message ends at the first byte where it may, or with the buffer: the last
\* byte is taken without looking at it.
FirstEnd(n, s, EndsAt(_)) ==
    LET ends == {i \in s..(n - 2) : EndsAt(i)} IN IF ends = {} THEN n - 1 ELSE Least(ends)

extract_requests_smtp(buf) ==
    CutUp(buf, LAMBDA s : FirstEnd(Len(buf), s, LAMBDA i : i > s + 1 /\ EndsLine(buf, i)))

extract_requests_ftp(buf) ==
    CutUp(buf, LAMBDA s : FirstEnd(Len(buf), s, LAMBDA i : i > s + 1 /\ EndsLine(buf, i)))

extract_requests_rtsp(buf) ==
    CutUp(buf, LAMBDA s : FirstEnd(Len(buf), s, LAMBDA i : i > s + 3 /\ EndsHead(buf, i)))

extract_requests_http(buf) ==
    CutUp(buf, LAMBDA s : FirstEnd(Len(buf), s, LAMBDA i : i >= s + 4 /\ EndsHead(buf, i)))

\* One byte of the terminator is compared, and a command has to follow.
extract_requests_sip(buf) ==
    CutUp(buf, LAMBDA s : FirstEnd(Len(buf), s,
        LAMBDA i : i > s + 1 /\ At(buf, i - 1) = CR /\ Follows(buf, i, Command)))

\* The end of the head of HTTP or of the IPP attributes, before the next POST.
extract_requests_ipp(buf) ==
    CutUp(buf, LAMBDA s : FirstEnd(Len(buf), s,
        LAMBDA i : i > s + 3 /\ (EndsHead(buf, i) \/ At(buf, i) = Tag) /\ Follows(buf, i, Command)))

\* The first zero after the header and a tail, which may not be there.
extract_requests_dns(buf) ==
    LET zeroes(s) == {i \in s..(Len(buf) - 2) : i >= s + DnsHeader /\ At(buf, i) = 0}
    IN CutUp(buf, LAMBDA s : IF zeroes(s) = {} THEN Len(buf) - 1 ELSE Least(zeroes(s)) + DnsTail)

\* A message of known length ends with the buffer when it reaches its last
\* byte but one.
KnownEnd(n, e) == IF e >= n - 2 THEN n - 1 ELSE e

extract_requests_tls(buf) ==
    LET n == Len(buf)
    IN CutUp(buf, LAMBDA s : IF n - s < TlsHeader + 2 THEN n - 1
                             ELSE KnownEnd(n, s + TlsHeader + At(buf, s + TlsHeader - 1) - 1))

\* An identification ends with its line; a message has a length, of which two
\* bytes are taken as present, a code and, unless it exchanges keys, a MAC.
extract_requests_ssh(buf) ==
    LET n == Len(buf)
        seen == SshField + 2
        lines(s) == {i \in (s + seen)..(n - 1) : EndsLine(buf, i)}
        size(s) == At(buf, s)
        mac(s) == IF At(buf, s + SshField + 1) \in 20..49 THEN 0 ELSE SshMac
    IN CutUp(buf, LAMBDA s :
           IF n - s < seen + 2 THEN n - 1
           ELSE IF At(buf, s) = Ssh THEN (IF lines(s) = {} THEN n - 1 ELSE Least(lines(s)))
           ELSE IF size(s) \notin Nat \ {0, 1} THEN n - 1
           ELSE KnownEnd(n, s + SshField + size(s) + mac(s) - 1))

\* The rest of the buffer is a region when no complete message is left.
extract_requests_dicom(buf) ==
    LET n == Len(buf)
        end(s) == s + DicomHeader + At(buf, s + DicomHeader - 1) - 1
        cut[s \in 0..n] ==
            IF s = n THEN <<>>
            ELSE IF s + DicomHeader > n \/ end(s) >= n THEN Region(s, n - 1)
            ELSE Region(s, end(s)) \o cut[end(s) + 1]
    IN cut[0]

\* A record starts where a content type and the version follow, not before the
\* fifth byte.
extract_requests_dtls12(buf) ==
    LET n == Len(buf)
        starts == {0} \union {i \in 4..(n - 2) : At(buf, i) \in ContentTypes /\ At(buf, i + 1) = Dtls}
        cut[s \in 0..n] ==
            LET later == {i \in starts : i > s}
            IN IF later = {} THEN Region(s, n - 1)
               ELSE Region(s, Least(later) - 1) \o cut[Least(later)]
    IN IF n = 0 THEN <<>> ELSE cut[0]

----------------------------------------------------------------------------
(* Responses *)

\* The codes of the lines from s on: each line gives a code, none, or 0, which
\* ends the reading.  State 0 comes first.
SkipLine == -1
LineCodes(buf, IsEnd(_, _), CodeOf(_, _)) ==
    LET n == Len(buf)
        read[s \in 0..n] ==
            LET ends == {i \in (s + 1)..(n - 1) : IsEnd(s, i)}
                code == CodeOf(s, Least(ends))
            IN IF ends = {} \/ code = 0 THEN <<>>
               ELSE (IF code = SkipLine THEN <<>> ELSE <<code>>) \o read[Least(ends) + 1]
    IN <<0>> \o read[0]

\* atoi of the field at i.
NumberAt(buf, i) == IF At(buf, i) \in Nat THEN At(buf, i) ELSE 0

extract_response_codes_smtp(buf) ==
    LineCodes(buf, LAMBDA s, i : EndsLine(buf, i), LAMBDA s, i : NumberAt(buf, s))

extract_response_codes_ftp(buf) ==
    LineCodes(buf, LAMBDA s, i : EndsLine(buf, i), LAMBDA s, i : NumberAt(buf, s))

\* Only a line that starts with the version, a word with its trailing blank, has
\* a code: the field that follows.
StatusLines(buf) ==
    LineCodes(buf, LAMBDA s, i : EndsLine(buf, i),
              LAMBDA s, i : IF At(buf, s) = Version THEN NumberAt(buf, s + 1) ELSE SkipLine)

extract_response_codes_rtsp(buf) == StatusLines(buf)
extract_response_codes_sip(buf) == StatusLines(buf)
extract_response_codes_http(buf) == StatusLines(buf)

\* The code of a record, its type and the byte after its header unless that is
\* data, is read once two bytes follow the header; a length of 0 skips the rest.
extract_response_codes_tls(buf) ==
    LET n == Len(buf)
        size(s) == At(buf, s + TlsHeader - 1)
        next(s) == IF size(s) = 0 \/ s + TlsHeader + size(s) + 1 >= n THEN n
                   ELSE s + TlsHeader + size(s)
        read[s \in 0..n] ==
            IF n - s < TlsHeader + 2 THEN <<>>
            ELSE <<256 * At(buf, s) + (IF At(buf, s) = Application THEN Unknown ELSE At(buf, s + TlsHeader))>>
                 \o read[next(s)]
    IN <<0>> \o read[0]

extract_response_codes_dicom(buf) == IF buf = <<>> THEN <<>> ELSE <<0, At(buf, 0)>>

\* The original query comes first: its first zero after the header, and five
\* bytes more, end what the next one is looked for after.
extract_response_codes_dns(buf) ==
    LET n == Len(buf)
        read[s \in 0..(n + DnsTail + 2)] ==
            LET zeroes == {i \in (s + DnsHeader)..(n - 1) : At(buf, i) = 0}
            IN IF zeroes = {} THEN <<>>
               ELSE <<At(buf, s + 2)>> \o read[Least(zeroes) + DnsTail + 2]
    IN <<0>> \o read[0]

\* Six bytes are taken whether they are there or not.  An identification ends
\* with a line feed, wherever that is; a message that reaches behind the buffer
\* ends the reading.
extract_response_codes_ssh(buf) ==
    LET n == Len(buf)
        seen == SshField + 2
        identifies(s) == \E i \in s..(s + SshField - 1) :
                            At(buf, i) = Ssh /\ \A j \in s..(i - 1) : At(buf, j) # 0
        lines(s) == {i \in (s + seen)..(n - 1) : At(buf, i) = LF}
        size(s) == At(buf, s)
        code(s) == At(buf, s + SshField + 1)
        mac(s) == IF code(s) \in 20..49 THEN 0 ELSE SshMac
        next(s) == IF ~ identifies(s) THEN s + SshField + size(s) + mac(s)
                   ELSE IF lines(s) = {} THEN n ELSE Least(lines(s)) + 1
        read[s \in 0..(n + SshMac)] ==
            CASE s >= n -> <<>>
              [] s < n /\ s + seen > n -> <<Behind>>
              [] s + seen <= n /\ identifies(s) -> <<256>> \o read[next(s)]
              [] OTHER ->
                   IF size(s) \notin Nat \ {0, 1} \/ size(s) - 2 > n - (s + seen) THEN <<>>
                   ELSE <<code(s)>> \o read[next(s)]
    IN <<0>> \o read[0]

\* The message type in the record at s.  A word as a length is a large number.
DtlsMessage(buf, s, size) ==
    LET n == Len(buf)
        body == s + DtlsHeader
        fragment == At(buf, body + DtlsFragment - 1)
        TypeAt(i, length) ==
            CASE size < length -> Malformed [] size > length -> Unknown
              [] OTHER -> IF i < n THEN At(buf, i) ELSE Behind
    IN CASE At(buf, s) = ChangeCipher -> TypeAt(body, 1)
         [] At(buf, s) = Alert -> TypeAt(body + 1, 2)
         [] At(buf, s) = Application -> Unknown
         [] At(buf, s) = Heartbeat -> IF size >= 3 THEN Unknown ELSE Malformed
         [] At(buf, s) = Handshake ->
              IF size < DtlsFragment THEN Malformed
              ELSE IF body + DtlsFragment > n THEN Behind
              ELSE IF fragment \in Nat /\ size - fragment = DtlsFragment THEN At(buf, body) ELSE Unknown

\* That a record is longer than the buffer is tested with unsigned numbers, so it
\* never is.  A record is passed by its length without its header, and one of
\* length 0 is not passed.
extract_response_codes_dtls12(buf) ==
    LET n == Len(buf)
        isRecord(s) == n - s > DtlsHeader /\ At(buf, s) \in ContentTypes /\ At(buf, s + 1) = Dtls
        size(s) == IF At(buf, s + DtlsHeader - 1) \in Nat THEN At(buf, s + DtlsHeader - 1) ELSE n
        message(s) == DtlsMessage(buf, s, size(s))
        code(s) == IF message(s) = Behind THEN Behind ELSE 256 * At(buf, s) + message(s)
        read[s \in 0..n] ==
            CASE s = n -> <<>>
              [] s < n /\ ~ isRecord(s) -> read[s + 1]
              [] s < n /\ isRecord(s) /\ size(s) = 0 -> <<code(s), Endless>>
              [] OTHER -> <<code(s)>> \o read[IF s + size(s) < n THEN s + size(s) ELSE n]
    IN <<0>> \o read[0]

\* The byte that a word starts with, and a byte.
ByteOf(word) == CASE word = CR -> 13 [] word = LF -> 10 [] word = Version -> 72 [] OTHER -> word

\* A head gives the code of HTTP; of 200 the third and the fourth byte behind it
\* make the code of IPP.  What is no head is read with the next end of a head.
extract_response_codes_ipp(buf) ==
    LET n == Len(buf)
        read[s \in 0..n] ==
            LET ends == {i \in (s + 4)..(n - 1) : EndsHead(buf, i)}
                e == Least(ends)
                code == NumberAt(buf, s + 1)
            IN CASE ends = {} -> <<>>
                 [] ends # {} /\ At(buf, s) # Version -> read[e + 1]
                 [] ends # {} /\ At(buf, s) = Version /\ code # 200 ->
                      IF code = 0 THEN <<>> ELSE <<code>> \o read[e + 1]
                 [] OTHER ->
                      IF e + 4 >= n THEN <<Behind>>
                      ELSE <<200 + 10 * ByteOf(At(buf, e + 3)) + ByteOf(At(buf, e + 4))>> \o read[e + 1]
    IN <<0>> \o read[0]

----------------------------------------------------------------------------
(* What holds of them *)

Requests(proto, buf) ==
    CASE proto = "smtp" -> extract_requests_smtp(buf)
      [] proto = "ftp" -> extract_requests_ftp(buf)
      [] proto = "rtsp" -> extract_requests_rtsp(buf)
      [] proto = "http" -> extract_requests_http(buf)
      [] proto = "sip" -> extract_requests_sip(buf)
      [] proto = "ipp" -> extract_requests_ipp(buf)
      [] proto = "dns" -> extract_requests_dns(buf)
      [] proto = "tls" -> extract_requests_tls(buf)
      [] proto = "ssh" -> extract_requests_ssh(buf)
      [] proto = "dicom" -> extract_requests_dicom(buf)
      [] proto = "dtls12" -> extract_requests_dtls12(buf)

Codes(proto, buf) ==
    CASE proto = "smtp" -> extract_response_codes_smtp(buf)
      [] proto = "ftp" -> extract_response_codes_ftp(buf)
      [] proto = "rtsp" -> extract_response_codes_rtsp(buf)
      [] proto = "sip" -> extract_response_codes_sip(buf)
      [] proto = "http" -> extract_response_codes_http(buf)
      [] proto = "tls" -> extract_response_codes_tls(buf)
      [] proto = "dicom" -> extract_response_codes_dicom(buf)
      [] proto = "dns" -> extract_response_codes_dns(buf)
      [] proto = "ssh" -> extract_response_codes_ssh(buf)
      [] proto = "dtls12" -> extract_response_codes_dtls12(buf)
      [] proto = "ipp" -> extract_response_codes_ipp(buf)

\* The regions follow each other from the first byte, without a gap, and the
\* last one ends with the buffer, so that construct_kl_messages, which reads
\* the file in order, gives each message its region.  A protocol with
\* terminators may lose one byte after the last of them, and a DNS query that
\* is cut off in its tail ends after the buffer.
CoversBuffer(proto, buf) ==
    LET r == Requests(proto, buf)
        n == Len(buf)
    IN /\ r # <<>> /\ r[1].start = 0
       /\ \A i \in DOMAIN r : r[i].start <= r[i].end
       /\ \A i \in 2..Len(r) : r[i].start = r[i - 1].end + 1
       /\ Last(r).end \in (n - (IF proto \in {"tls", "dicom", "dtls12"} THEN 1 ELSE 2))
                            ..(n - 1 + (IF proto = "dns" THEN DnsTail ELSE 0))

\* A region that is cut out and sent as a message is one message for the parser
\* too: a seed that is made of the messages of another one has its regions.
CutsAreStable(proto, buf) ==
    LET r == Requests(proto, buf)
    IN \A i \in DOMAIN r :
          LET message == SubSeq(buf, r[i].start + 1, r[i].end + 1)
          IN r[i].end < Len(buf) => Requests(proto, message) = Region(0, Len(message) - 1)

\* Codes up to one that was made of bytes behind the buffer.
Settled(codes) == IF codes # <<>> /\ Last(codes) = Behind THEN Front(codes) ELSE codes

\* The codes of the first part of a response are the first codes of all of it:
\* the state after a message was also seen in the whole sequence.
PrefixesAgree(proto, buf) ==
    \A k \in 1..Len(buf) : IsPrefix(Settled(Codes(proto, SubSeq(buf, 1, k))), Codes(proto, buf))
=============================================================================
