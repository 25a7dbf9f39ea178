----------------------------- MODULE UsbTransfers -----------------------------
(****************************************************************************)
(* Reading messages from a robot over libusb: aseba_message_parser.h asks   *)
(* for the header of a message and then for its data, usb_device answers    *)
(* from a buffer or submits a transfer whose callback runs on the thread of *)
(* libusb, at the same time as the main thread.                             *)
(*                                                                          *)
(* Bytes are counted, not represented: a position in the stream is the      *)
(* number of bytes before it.                                               *)
(****************************************************************************)
EXTENDS Naturals, Sequences, FiniteSets, SequencesExt

CONSTANTS HeaderSize,      \* 6 in the program
          ReadSize,        \* wMaxPacketSize of the device
          Growth,          \* 50 in the program
          PayloadSizes,    \* sizes of the messages a robot sends
          MaxMessages      \* bound: messages sent

ASSUME TransfersOK ==
  /\ HeaderSize \in Nat \ {0} /\ ReadSize \in Nat \ {0} /\ Growth \in Nat \ {0}
  /\ PayloadSizes \subseteq Nat
  /\ \A n \in PayloadSizes \cup {HeaderSize} : n <= (Growth - 1) * (ReadSize + 1)

VARIABLES sentSizes,     \* the messages the robot sent
          wire,          \* bytes not yet received
          filled,        \* s of read_buffer
          readAt,        \* position of the bytes last given to the parser
          want,          \* bytes the pending read asks for
          parsing,       \* "header" or "data"
          parsed,        \* sizes of the messages the parser delivered
          transfer,      \* "idle", "submitted", "again", "cancelling"
          unlisted,      \* the main thread is between submit and push_back
          inTransfers,   \* entries of impl.transfers
          completions,   \* handler of the read posted: "no", "done", "error"
          cancelled,     \* the device was closed: "no", "reached", "missed"
          overrun        \* bytes were copied past the end of read_buffer

transferVars == <<sentSizes, wire, filled, readAt, want, parsing, parsed, transfer,
                  unlisted, inTransfers, completions, cancelled, overrun>>

\* buffer::reserve.

Reserve(s, size, unit) ==
  LET u == IF Growth * unit > 1 THEN Growth * unit ELSE 1
  IN  ((s + size + u - 1) \div u) * u

Left_Dropped(s, n) == 0

\* buffer::read: what stays in the buffer when n bytes are taken from it.
Left(s, n) == s - n

TransfersInit ==
  /\ sentSizes = <<>> /\ wire = 0
  /\ filled = 0 /\ readAt = 0 /\ want = 0
  /\ parsing = "header" /\ parsed = <<>>
  /\ transfer = "idle" /\ unlisted = FALSE /\ inTransfers = 0
  /\ completions = "no" /\ cancelled = "no" /\ overrun = FALSE

\* The robot sends a message.
RobotSends ==
  /\ Len(sentSizes) < MaxMessages
  /\ \E n \in PayloadSizes :
       /\ sentSizes' = Append(sentSizes, n)
       /\ wire' = wire + HeaderSize + n
  /\ UNCHANGED <<filled, readAt, want, parsing, parsed, transfer, unlisted, inTransfers,
                 completions, cancelled, overrun>>

\* Where message i begins, and the size a header read at a position holds.
StartOf(i) == HeaderSize * (i - 1) + FoldLeft(LAMBDA a, n : a + n, 0, SubSeq(sentSizes, 1, i - 1))
Total == StartOf(Len(sentSizes) + 1)
SizeAt(p) == {sentSizes[i] : i \in {i \in 1..Len(sentSizes) : StartOf(i) = p}}

\* read_from_buffer: of the s bytes in the buffer, the last that were received
\* when "later" bytes are still on the wire, n are taken.
FromBuffer(s, n, later) ==
  /\ filled' = Left(s, n)
  /\ readAt' = Total - later - s
  /\ completions' = "done"

\* async_transfer_some on the main thread, up to libusb_submit_transfer, which
\* fails once the device is closed.
AsyncRead(n) ==
  /\ want' = n
  /\ IF filled >= n
       THEN /\ FromBuffer(filled, n, wire)
            /\ UNCHANGED <<transfer, unlisted>>
       ELSE /\ UNCHANGED <<filled, readAt>>
            /\ IF cancelled = "no"
                 THEN /\ transfer' = "submitted" /\ unlisted' = TRUE
                      /\ completions' = "no"
                 ELSE /\ completions' = "error"
                      /\ UNCHANGED <<transfer, unlisted>>

ReadHeader ==
  /\ want = 0 /\ ~unlisted /\ completions = "no" /\ cancelled = "no" /\ parsing = "header"
  /\ AsyncRead(HeaderSize)
  /\ UNCHANGED <<sentSizes, wire, parsing, parsed, inTransfers, cancelled, overrun>>

\* impl.transfers.push_back after the submission.
ListTransfer ==
  /\ unlisted
  /\ unlisted' = FALSE /\ inTransfers' = inTransfers + 1
  /\ UNCHANGED <<sentSizes, wire, filled, readAt, want, parsing, parsed, transfer, completions,
                 cancelled, overrun>>

\* commit_buffer: a packet's room is reserved in units of the bytes received.
Overruns(s, k) == s + k > Reserve(s, ReadSize, k)

\* The callback on libusb's thread: the transfer is taken off the list if it is
\* there, its bytes are added to the buffer, and it is listed again when they do
\* not suffice.
TransferDone(k) ==
  /\ transfer = "submitted" /\ cancelled = "no" /\ k <= wire
  /\ wire' = wire - k
  /\ overrun' = (overrun \/ Overruns(filled, k))
  /\ LET s == filled + k
         listed == IF inTransfers > 0 THEN inTransfers - 1 ELSE 0
     IN  IF s >= want
           THEN /\ FromBuffer(s, want, wire - k)
                /\ transfer' = "idle" /\ inTransfers' = listed
           ELSE /\ filled' = s
                /\ transfer' = "again" /\ inTransfers' = listed + 1
                /\ UNCHANGED <<readAt, completions>>
  /\ UNCHANGED <<sentSizes, want, parsing, parsed, unlisted, cancelled>>

\* The callback submits the transfer again.
SubmitAgain ==
  /\ transfer = "again"
  /\ transfer' = "submitted"
  /\ UNCHANGED <<sentSizes, wire, filled, readAt, want, parsing, parsed, unlisted,
                 inTransfers, completions, cancelled, overrun>>

Reached_Last == transfer = "idle"

\* libusb_cancel_transfer finds the transfers that are listed and submitted.
Reached == inTransfers > 0 /\ transfer = "submitted"

\* stop and close on the main thread.
CloseDevice ==
  /\ cancelled = "no" /\ ~unlisted
  /\ transfer' = IF Reached THEN "cancelling" ELSE transfer
  /\ cancelled' = IF transfer = "again" THEN "missed" ELSE "reached"
  /\ inTransfers' = 0 /\ filled' = 0
  /\ UNCHANGED <<sentSizes, wire, readAt, want, parsing, parsed, unlisted, completions,
                 overrun>>

\* The callback of a transfer that was cancelled.
TransferCancelled ==
  /\ transfer = "cancelling"
  /\ transfer' = "idle" /\ completions' = "error"
  /\ UNCHANGED <<sentSizes, wire, filled, readAt, want, parsing, parsed, unlisted,
                 inTransfers, cancelled, overrun>>

\* read_aseba_message_op: a header gives the size of the data to read next; a
\* message is complete with its data, or at once when it has none.  A header
\* read at a wrong position would hold any size.
ReadHandler ==
  /\ completions # "no" /\ ~unlisted
  /\ IF completions = "error"
       THEN /\ completions' = "no" /\ want' = 0 /\ parsing' = "error"
            /\ UNCHANGED <<filled, readAt, parsed, transfer, unlisted>>
       ELSE IF parsing = "header"
       THEN \E n \in IF SizeAt(readAt) = {} THEN PayloadSizes ELSE SizeAt(readAt) :
              IF n = 0
                THEN /\ completions' = "no" /\ want' = 0
                     /\ parsed' = Append(parsed, 0)
                     /\ UNCHANGED <<filled, readAt, transfer, unlisted, parsing>>
                ELSE /\ parsing' = "data"
                     /\ AsyncRead(n)
                     /\ UNCHANGED parsed
       ELSE /\ parsed' = Append(parsed, want)
            /\ parsing' = "header" /\ want' = 0 /\ completions' = "no"
            /\ UNCHANGED <<filled, readAt, transfer, unlisted>>
  /\ UNCHANGED <<sentSizes, wire, inTransfers, cancelled, overrun>>

TransfersNext ==
  \/ RobotSends \/ ReadHeader \/ ListTransfer \/ SubmitAgain \/ CloseDevice
  \/ TransferCancelled \/ ReadHandler
  \/ \E k \in 1..wire : TransferDone(k)

-----------------------------------------------------------------------------
\* The parser delivers the messages the robot sent, in order and none twice,
\* however the bytes are cut into transfers: no byte is lost or read twice when
\* a transfer brings the end of a message and the beginning of the next, and none
\* is copied past the end of the buffer, although commit_buffer reserves a packet
\* in units of the transfer's size.
MessagesIntact == IsPrefix(parsed, sentSizes) /\ ~overrun

\* Closing a device ends the read that is pending, unless the callback was
\* about to submit the transfer again.
CancelEndsRead == []<>(cancelled = "reached" => transfer = "idle")
=============================================================================
