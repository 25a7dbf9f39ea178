------------------------ MODULE FirmwareUpgradeProofs ------------------------
(****************************************************************************)
(* What an interrupted upgrade leaves in a robot, for a firmware of any     *)
(* size, any number of failures and both kinds of links.                    *)
(****************************************************************************)
EXTENDS FirmwareUpgrade, TLAPS

BootMessages == [type : {"page", "reset"}, page : PageNumbers]

UpgradeTypes ==
  /\ linked \in BOOLEAN /\ faulted \in BOOLEAN /\ restarted \in BOOLEAN
  /\ page \in Nat
  /\ stage \in {"reading", "opening", "sending", "waiting", "complete", "failed"}
  /\ stage \in {"reading", "opening", "sending", "waiting"} => page < PageCount
  /\ toBoot \in Seq(BootMessages)
  /\ flashed \in SUBSET PageNumbers

\* Page q is in the robot, or on its way before the message at position i.
Before(q, i) ==
  q \in flashed \/ \E j \in 1..Len(toBoot) : j < i /\ toBoot[j] = BootMessage("page", q)

\* Page q is in the robot or on its way.
Sent(q) == q \in flashed \/ \E j \in 1..Len(toBoot) : toBoot[j] = BootMessage("page", q)

\* What the thread counts as acknowledged was at least sent, also when it took
\* an acknowledgement for another page's.
AcknowledgedSent ==
  /\ \A q \in PageNumbers : PageCount - q - 1 < page => Sent(q)
  /\ stage = "waiting" => Sent(PageCount - page - 1)

\* Whatever is on its way comes after the pages above it.
HighestFirst ==
  \A i \in 1..Len(toBoot) : \A q \in PageNumbers :
    toBoot[i].type = "reset" \/ toBoot[i].page < q => Before(q, i)

\* What was written has everything above it.
SuffixFlashed == \A p \in flashed : \A q \in PageNumbers : p < q => q \in flashed

UpgradeInv ==
  /\ UpgradeTypes
  /\ linked /\ ~faulted => AcknowledgedSent /\ HighestFirst
  /\ ~faulted => SuffixFlashed /\ (restarted => flashed = PageNumbers)

-----------------------------------------------------------------------------
LEMMA UpgradeStarts == UpgradeInit => UpgradeInv
<1> SUFFICES ASSUME UpgradeInit PROVE UpgradeInv
  OBVIOUS
<1>1. linked \in BOOLEAN /\ faulted \in BOOLEAN /\ restarted \in BOOLEAN /\ ~restarted
  BY Zenon DEF UpgradeInit
<1>2. page = 0 /\ stage = "reading" /\ toBoot = <<>> /\ flashed = {}
  BY DEF UpgradeInit
<1>3. UpgradeTypes
  BY <1>1, <1>2, UpgradeOK DEF UpgradeTypes
<1>4. AcknowledgedSent /\ HighestFirst /\ SuffixFlashed
  BY <1>2, UpgradeOK DEF AcknowledgedSent, HighestFirst, SuffixFlashed, PageNumbers
<1> QED BY <1>1, <1>3, <1>4 DEF UpgradeInv

\* A message that is added comes after everything that was sent.
LEMMA Appended ==
  ASSUME UpgradeTypes, NEW m \in BootMessages, flashed' = flashed, toBoot' = Append(toBoot, m)
  PROVE  /\ \A q : Sent(q) => Sent(q)'
         /\ \A q, k : Sent(q) /\ k = Len(toBoot) + 1 => Before(q, k)'
         /\ \A q : \A i \in 1..Len(toBoot) : Before(q, i) => Before(q, i)'
         /\ \A q : m = BootMessage("page", q) => Sent(q)'
         /\ Len(toBoot') = Len(toBoot) + 1
         /\ toBoot'[Len(toBoot) + 1] = m
         /\ \A i \in 1..Len(toBoot) : toBoot'[i] = toBoot[i]
<1>1. /\ Len(toBoot) \in Nat /\ Len(toBoot') = Len(toBoot) + 1
      /\ toBoot'[Len(toBoot) + 1] = m
      /\ \A i \in 1..Len(toBoot) : toBoot'[i] = toBoot[i]
  BY DEF UpgradeTypes
<1>2. \A q : Sent(q) => Sent(q)'
  BY <1>1 DEF Sent, BootMessage
<1>3. \A q, k : Sent(q) /\ k = Len(toBoot) + 1 => Before(q, k)'
  BY <1>1 DEF Sent, Before, BootMessage
<1>4. \A q : \A i \in 1..Len(toBoot) : Before(q, i) => Before(q, i)'
  BY <1>1 DEF Before, BootMessage
<1>5. \A q : m = BootMessage("page", q) => Sent(q)'
  BY <1>1 DEF Sent, BootMessage
<1> QED BY <1>1, <1>2, <1>3, <1>4, <1>5

LEMMA SendKeeps == UpgradeInv /\ SendPage => UpgradeInv'
<1> SUFFICES ASSUME UpgradeInv, SendPage PROVE UpgradeInv'
  OBVIOUS
<1> USE UpgradeOK
<1>0. UpgradeTypes /\ stage = "sending" /\ page < PageCount /\ flashed' = flashed
      /\ faulted' = faulted /\ restarted' = restarted /\ linked' = linked
  BY DEF UpgradeInv, UpgradeTypes, SendPage
<1>1. CASE /\ linked /\ toBoot' = Append(toBoot, BootMessage("page", NextPage(page)))
           /\ stage' = "waiting" /\ page' = page
  <2>0. PICK n \in PageNumbers : n = PageCount - page - 1
    BY <1>0 DEF PageNumbers, UpgradeTypes
  <2> DEFINE m == BootMessage("page", n)
  <2>1. m \in BootMessages /\ m.type = "page" /\ m.page = n
    BY DEF BootMessages, BootMessage
  <2>2. toBoot' = Append(toBoot, m)
    BY <1>1, <2>0 DEF NextPage
  <2>3a. \A q : m = BootMessage("page", q) <=> q = n
    BY DEF BootMessage
  <2> HIDE DEF m
  <2>3. UpgradeTypes'
    BY <1>0, <1>1, <2>1, <2>2 DEF UpgradeTypes
  <2>4. /\ \A q : Sent(q) => Sent(q)'
        /\ \A q, k : Sent(q) /\ k = Len(toBoot) + 1 => Before(q, k)'
        /\ \A q : \A i \in 1..Len(toBoot) : Before(q, i) => Before(q, i)'
        /\ \A q : m = BootMessage("page", q) => Sent(q)'
        /\ Len(toBoot') = Len(toBoot) + 1
        /\ toBoot'[Len(toBoot) + 1] = m
        /\ \A i \in 1..Len(toBoot) : toBoot'[i] = toBoot[i]
    BY <1>0, <2>1, <2>2, Appended
  <2>5. ASSUME ~faulted PROVE AcknowledgedSent' /\ HighestFirst'
    <3>1. AcknowledgedSent /\ HighestFirst
      BY <1>1, <2>5 DEF UpgradeInv
    <3>2. Sent(n)' /\ n = PageCount - page' - 1
      BY <1>1, <2>0, <2>3a, <2>4
    <3>3. AcknowledgedSent'
      BY <1>1, <2>4, <3>1, <3>2 DEF AcknowledgedSent
    <3>4. ASSUME NEW q \in PageNumbers, m.page < q PROVE Sent(q)
      BY <1>0, <2>0, <2>1, <3>1, <3>4 DEF AcknowledgedSent, PageNumbers, UpgradeTypes
    <3>5. Len(toBoot) \in Nat
      BY <1>0 DEF UpgradeTypes
    <3>6. ASSUME NEW i \in 1..Len(toBoot'), NEW q \in PageNumbers,
                 toBoot'[i].type = "reset" \/ toBoot'[i].page < q
          PROVE  Before(q, i)'
      <4>1. CASE i \in 1..Len(toBoot)
        BY <2>4, <3>1, <3>6, <4>1 DEF HighestFirst
      <4>2. CASE i = Len(toBoot) + 1
        BY <2>1, <2>4, <3>4, <3>6, <4>2
      <4> QED BY <2>4, <3>5, <4>1, <4>2
    <3> QED BY <3>3, <3>6 DEF HighestFirst
  <2> QED BY <1>0, <2>3, <2>5 DEF UpgradeInv, SuffixFlashed
<1>2. CASE toBoot' = toBoot /\ page' = Resumed /\ stage' = AfterFailure
  <2>1. stage' \in {"opening", "sending"} /\ page' = page
    BY <1>2 DEF AfterFailure, Resumed
  <2>2. UpgradeTypes'
    BY <1>0, <1>2, <2>1 DEF UpgradeTypes
  <2> QED BY <1>0, <1>2, <2>1, <2>2
      DEF UpgradeInv, AcknowledgedSent, HighestFirst, SuffixFlashed, Sent, Before
<1> QED BY <1>1, <1>2 DEF SendPage

LEMMA AckKeeps == UpgradeInv /\ ReadAck => UpgradeInv'
<1> SUFFICES ASSUME UpgradeInv, ReadAck PROVE UpgradeInv'
  OBVIOUS
<1> USE UpgradeOK
<1>0. /\ UpgradeTypes /\ stage = "waiting" /\ page < PageCount /\ page' = page + 1
      /\ flashed' = flashed /\ faulted' = faulted /\ restarted' = restarted /\ linked' = linked
  BY DEF UpgradeInv, UpgradeTypes, ReadAck
<1>1. ASSUME linked, ~faulted
      PROVE  /\ AcknowledgedSent /\ HighestFirst
             /\ \A q \in PageNumbers : PageCount - q - 1 < page + 1 => Sent(q)
  <2>1. AcknowledgedSent /\ HighestFirst
    BY <1>1 DEF UpgradeInv
  <2>2. ASSUME NEW q \in PageNumbers, PageCount - q - 1 < page + 1 PROVE Sent(q)
    <3>1. PageCount - q - 1 < page \/ q = PageCount - page - 1
      BY <1>0, <2>2 DEF UpgradeTypes, PageNumbers
    <3> QED BY <1>0, <2>1, <3>1 DEF AcknowledgedSent
  <2> QED BY <2>1, <2>2
<1>2. CASE toBoot' = toBoot /\ stage' \in {"complete", "sending"}
           /\ (stage' = "sending" => page + 1 < PageCount)
  <2>1. UpgradeTypes'
    BY <1>0, <1>2 DEF UpgradeTypes
  <2> QED BY <1>0, <1>1, <1>2, <2>1
      DEF UpgradeInv, AcknowledgedSent, HighestFirst, SuffixFlashed, Sent, Before
<1>3. CASE linked /\ toBoot' = Append(toBoot, BootMessage("reset", 0)) /\ stage' = "complete"
           /\ page + 1 = PageCount
  <2> DEFINE m == BootMessage("reset", 0)
  <2>1. m \in BootMessages /\ m.type = "reset"
    BY DEF BootMessages, BootMessage, PageNumbers
  <2>2. toBoot' = Append(toBoot, m)
    BY <1>3
  <2> HIDE DEF m
  <2>3. UpgradeTypes'
    BY <1>0, <1>3, <2>1, <2>2 DEF UpgradeTypes
  <2>4. /\ \A q : Sent(q) => Sent(q)'
        /\ \A q, k : Sent(q) /\ k = Len(toBoot) + 1 => Before(q, k)'
        /\ \A q : \A i \in 1..Len(toBoot) : Before(q, i) => Before(q, i)'
        /\ Len(toBoot') = Len(toBoot) + 1
        /\ \A i \in 1..Len(toBoot) : toBoot'[i] = toBoot[i]
    BY <1>0, <2>1, <2>2, Appended
  <2>5. ASSUME ~faulted PROVE AcknowledgedSent' /\ HighestFirst'
    <3>1. HighestFirst /\ \A q \in PageNumbers : Sent(q)
      BY <1>1, <1>3, <2>5 DEF PageNumbers
    <3>2. AcknowledgedSent'
      BY <1>3, <2>4, <3>1 DEF AcknowledgedSent
    <3>3. Len(toBoot) \in Nat
      BY <1>0 DEF UpgradeTypes
    <3>4. ASSUME NEW i \in 1..Len(toBoot'), NEW q \in PageNumbers,
                 toBoot'[i].type = "reset" \/ toBoot'[i].page < q
          PROVE  Before(q, i)'
      <4>1. CASE i \in 1..Len(toBoot)
        BY <2>4, <3>1, <3>4, <4>1 DEF HighestFirst
      <4>2. CASE i = Len(toBoot) + 1
        BY <2>4, <3>1, <4>2
      <4> QED BY <2>4, <3>3, <4>1, <4>2
    <3> QED BY <3>2, <3>4 DEF HighestFirst
  <2> QED BY <1>0, <2>3, <2>5 DEF UpgradeInv, SuffixFlashed
<1>4. page + 1 # PageCount => page + 1 < PageCount
  BY <1>0 DEF UpgradeTypes
<1> QED BY <1>2, <1>3, <1>4 DEF ReadAck

\* A message that is taken moves the others up by one; a page is then written.
LEMMA Taken ==
  ASSUME UpgradeTypes, toBoot # <<>>, toBoot' = Tail(toBoot), flashed \subseteq flashed',
         Head(toBoot).type = "page" => Head(toBoot).page \in flashed'
  PROVE  /\ \A q : Sent(q) => Sent(q)'
         /\ \A q : \A i \in 1..Len(toBoot') : Before(q, i + 1) => Before(q, i)'
         /\ \A i \in 1..Len(toBoot') : i + 1 \in 1..Len(toBoot) /\ toBoot'[i] = toBoot[i + 1]
<1>1. /\ Len(toBoot) \in Nat /\ Len(toBoot) > 0 /\ Len(toBoot') = Len(toBoot) - 1
      /\ toBoot[1] = Head(toBoot)
      /\ \A i \in 1..Len(toBoot') : toBoot'[i] = toBoot[i + 1]
  BY DEF UpgradeTypes
<1>2. \A q : toBoot[1] = BootMessage("page", q) => q \in flashed'
  BY <1>1 DEF BootMessage
<1>3. ASSUME NEW j \in 1..Len(toBoot), j # 1
      PROVE  j - 1 \in 1..Len(toBoot') /\ toBoot'[j - 1] = toBoot[j]
  BY <1>1, <1>3
<1>4. ASSUME NEW q, Sent(q) PROVE Sent(q)'
  <2>1. CASE q \in flashed
    BY <2>1 DEF Sent
  <2>2. ASSUME NEW j \in 1..Len(toBoot), toBoot[j] = BootMessage("page", q)
        PROVE  q \in flashed' \/ \E k \in 1..Len(toBoot') : toBoot'[k] = BootMessage("page", q)
    <3>1. CASE j = 1
      BY <1>2, <2>2, <3>1
    <3>2. CASE j # 1
      BY <1>3, <2>2, <3>2
    <3> QED BY <3>1, <3>2
  <2> QED BY <1>4, <2>1, <2>2 DEF Sent, BootMessage
<1>5. ASSUME NEW q, NEW i \in 1..Len(toBoot'), Before(q, i + 1) PROVE Before(q, i)'
  <2>1. CASE q \in flashed
    BY <2>1 DEF Before
  <2>2. ASSUME NEW j \in 1..Len(toBoot), j < i + 1, toBoot[j] = BootMessage("page", q)
        PROVE  q \in flashed'
               \/ \E k \in 1..Len(toBoot') : k < i /\ toBoot'[k] = BootMessage("page", q)
    <3>1. CASE j = 1
      BY <1>2, <2>2, <3>1
    <3>2. CASE j # 1
      <4>1. j - 1 < i
        BY <2>2, <1>1
      <4> QED BY <1>3, <2>2, <3>2, <4>1
    <3> QED BY <3>1, <3>2
  <2> QED BY <1>5, <2>1, <2>2 DEF Before, BootMessage
<1>6. \A i \in 1..Len(toBoot') : i + 1 \in 1..Len(toBoot)
  BY <1>1
<1> QED BY <1>1, <1>4, <1>5, <1>6

LEMMA BootKeeps == UpgradeInv /\ Bootloader => UpgradeInv'
<1> SUFFICES ASSUME UpgradeInv, Bootloader PROVE UpgradeInv'
  OBVIOUS
<1> USE UpgradeOK
<1>0. /\ UpgradeTypes /\ linked /\ linked' = linked /\ stage' = stage /\ page' = page
      /\ ~restarted /\ toBoot # <<>> /\ toBoot' = Tail(toBoot)
  BY DEF UpgradeInv, Bootloader
<1>1. /\ Len(toBoot) \in Nat /\ 1 \in 1..Len(toBoot) /\ Head(toBoot) = toBoot[1]
      /\ Head(toBoot) \in BootMessages /\ Tail(toBoot) \in Seq(BootMessages)
  BY <1>0 DEF UpgradeTypes
<1>2. /\ flashed' \in SUBSET PageNumbers
      /\ faulted' \in BOOLEAN /\ restarted' \in BOOLEAN
  BY <1>0, <1>1 DEF Bootloader, BootMessages, UpgradeTypes
<1>3. UpgradeTypes'
  BY <1>0, <1>1, <1>2 DEF UpgradeTypes
<1>4. ASSUME ~faulted'
      PROVE  /\ AcknowledgedSent' /\ HighestFirst' /\ SuffixFlashed'
             /\ restarted' => flashed' = PageNumbers
  <2>1. AcknowledgedSent /\ HighestFirst /\ SuffixFlashed
    BY <1>0, <1>4 DEF UpgradeInv, Bootloader
  <2>2. \A q \in PageNumbers :
          Head(toBoot).type = "reset" \/ Head(toBoot).page < q => q \in flashed
    <3>1. ASSUME NEW q, Before(q, 1) PROVE q \in flashed
      BY <1>1, <3>1 DEF Before
    <3> QED BY <1>1, <2>1, <3>1 DEF HighestFirst
  <2>3. /\ flashed \subseteq flashed'
        /\ Head(toBoot).type = "page" => Head(toBoot).page \in flashed'
    BY <1>4 DEF Bootloader
  <2>4. /\ \A q : Sent(q) => Sent(q)'
        /\ \A q : \A i \in 1..Len(toBoot') : Before(q, i + 1) => Before(q, i)'
        /\ \A i \in 1..Len(toBoot') : i + 1 \in 1..Len(toBoot) /\ toBoot'[i] = toBoot[i + 1]
    BY <1>0, <2>3, Taken
  <2>5. AcknowledgedSent'
    BY <1>0, <2>1, <2>4 DEF AcknowledgedSent
  <2>6. HighestFirst'
    BY <2>1, <2>4 DEF HighestFirst
  <2>7. CASE Head(toBoot).type = "page"
    <3>1. flashed' = flashed \cup {Head(toBoot).page} /\ ~restarted'
      BY <1>0, <1>4, <2>7 DEF Bootloader
    <3> QED BY <2>1, <2>2, <2>5, <2>6, <3>1 DEF SuffixFlashed
  <2>8. CASE Head(toBoot).type = "reset"
    <3>1. flashed' = flashed
      BY <2>8 DEF Bootloader
    <3>2. flashed = PageNumbers
      BY <1>0, <2>2, <2>8 DEF UpgradeTypes
    <3> QED BY <2>5, <2>6, <3>1, <3>2 DEF SuffixFlashed
  <2> QED BY <1>1, <2>7, <2>8 DEF BootMessages
<1> QED BY <1>3, <1>4 DEF UpgradeInv

\* The other steps send nothing, write nothing and acknowledge nothing.
LEMMA QuietKeeps ==
  ASSUME UpgradeInv, UNCHANGED <<linked, page, toBoot, flashed, restarted, faulted>>,
         stage' \in {"reading", "opening", "sending", "waiting", "complete", "failed"},
         stage' \in {"reading", "opening", "sending", "waiting"} => page < PageCount,
         stage' = "waiting" => stage = "waiting"
  PROVE  UpgradeInv'
<1>1. UpgradeTypes'
  BY DEF UpgradeInv, UpgradeTypes
<1>2. /\ AcknowledgedSent => AcknowledgedSent'
      /\ HighestFirst => HighestFirst'
      /\ SuffixFlashed => SuffixFlashed'
  BY DEF AcknowledgedSent, HighestFirst, SuffixFlashed, Sent, Before
<1> QED BY <1>1, <1>2 DEF UpgradeInv

LEMMA UpgradeSteps == UpgradeInv /\ [UpgradeNext]_upgradeVars => UpgradeInv'
<1> SUFFICES ASSUME UpgradeInv, [UpgradeNext]_upgradeVars PROVE UpgradeInv'
  OBVIOUS
<1>1. CASE ReadFirmware
  BY <1>1, QuietKeeps DEF ReadFirmware, UpgradeInv, UpgradeTypes
<1>2. CASE OpenDevice
  BY <1>2, QuietKeeps DEF OpenDevice, Opened, UpgradeInv, UpgradeTypes
<1>3. CASE AckTimeout
  BY <1>3, QuietKeeps DEF AckTimeout, AfterFailure, Resumed, UpgradeInv, UpgradeTypes
<1>4. CASE RobotUnplugged
  <2>1. linked' = FALSE /\ toBoot' = <<>>
        /\ UNCHANGED <<stage, page, flashed, restarted, faulted>>
    BY <1>4 DEF RobotUnplugged
  <2>2. UpgradeTypes'
    <3>1. <<>> \in Seq(BootMessages) /\ FALSE \in BOOLEAN
      OBVIOUS
    <3>2. linked' \in BOOLEAN /\ toBoot' \in Seq(BootMessages)
      BY <2>1, <3>1
    <3> QED BY <2>1, <3>2 DEF UpgradeInv, UpgradeTypes
  <2> QED BY <2>1, <2>2 DEF UpgradeInv, SuffixFlashed
<1>5. CASE UNCHANGED upgradeVars
  BY <1>5, QuietKeeps DEF upgradeVars, UpgradeInv, UpgradeTypes
<1> QED
  BY <1>1, <1>2, <1>3, <1>4, <1>5, SendKeeps, AckKeeps, BootKeeps DEF UpgradeNext

-----------------------------------------------------------------------------
\* The page that makes a firmware start is the last one written (send_page's
\* callers count the pages down), for firmwares of any length.
THEOREM FirstPageIsLast == UpgradeSpec => []FirstPageLast
<1>1. UpgradeInv => FirstPageLast
  <2> SUFFICES ASSUME UpgradeInv, 0 \in flashed, ~faulted PROVE flashed = PageNumbers
    BY DEF FirstPageLast
  <2>1. \A q \in PageNumbers : q = 0 \/ 0 < q
    BY UpgradeOK DEF PageNumbers
  <2> QED BY <2>1 DEF UpgradeInv, UpgradeTypes, SuffixFlashed
<1> QED BY <1>1, UpgradeStarts, UpgradeSteps, PTL DEF UpgradeSpec

\* The firmware is only started when all of it was written, although an
\* acknowledgement does not say which page it is for.
THEOREM OnlyWholeStarted == UpgradeSpec => []StartedWhole
<1>1. UpgradeInv => StartedWhole
  BY DEF UpgradeInv, StartedWhole
<1> QED BY <1>1, UpgradeStarts, UpgradeSteps, PTL DEF UpgradeSpec
=============================================================================
