# The SATLL simulator in TLA+

This directory specifies and verifies the satellite simulator of the MBEP CDR
quickstart and what it is used with. The simulator is the C program in
`scripts/satll-simulator`; it plays the satellite towards a Yamcs ground station:
it sends housekeeping reports TM[3,25] in CCSDS space packets over UDP and
executes the telecommands it receives. With it come the checksum and codecs of
its packets, the ground's continuity check, and the script that starts both ends.
Paths below are relative to the repository's root.

Contents: [the system](#the-system), [the modules](#the-modules),
[what the runs show](#what-the-runs-show), [what is proved](#what-is-proved),
[disagreements found](#disagreements-between-the-code-and-its-documents),
[limits](#what-is-not-modelled), [plan](#plan).

## The system

| Part | Source | State | Operations |
| --- | --- | --- | --- |
| Main loop | `main.c` | `timeSinceBoot`, `previousTMSendMillis`, socket | `simulator_init`, the loop, `send_telemetry`, `check_for_tc` |
| Onboard time | `telemetry.c:42-115` | `coarse_time`, `pus_time`, calendar in `tm_3_25_1`, two timers | `update_time`, `update_telemetry` |
| Command handler | `telecommand.c` | static buffer `space_packet_tc.data`, the decoded `tc_x_y`, counters and flags in `tm_3_25_1` and `tm_5_1` | `handle_sp`, `handle_pus_tc` |
| Housekeeping report | `telemetry.c:275-342` | `sp_packet_count`, `COUNTER_3_25` | `generate_tm_3_25` |
| Other reports | `telemetry.c` | counters `COUNTER_x_y` | `generate_tm_1_x`, `5_1`, `9_2`, `17_2`; none is called |
| Codecs | `space_packet.c`, `pus.c`, `ecss_crc.c` | `space_packet`, `pus_c` | building of headers, frames, packets, CRC-16 |
| UDP | `udp.c` | a socket | `init_udp`, `send_udp`, `receive_udp_nonblocking` |
| Ground | `MyPacketPreprocessor.java`, `MyCommandPostprocessor.java`, Yamcs itself, `mbep-cdr-satll.xml` | last sequence count per APID; what is shown | continuity check, command encoding, reading of reports |
| Scripts | `scripts/egse_run_simulator.sh`, `run-yamcs.sh`, installation, docker | processes | stop what is left, start both |

The simulator is one thread. Its loop reads the monotonic clock, calls
`update_time`, `update_telemetry`, `send_telemetry` and `check_for_tc`, and
starts again without waiting. The parts share global variables: the command
handler writes the counters and flags of `tm_3_25_1`, the clock writes its
calendar, and the report reads them. The only other actor inside the machine is
the kernel, which puts datagrams into the socket's buffer at any moment.

Hard here, and what makes each part correct:

* **Time.** The clock is polled, a poll may come any amount of time late, and
  the same second is kept in two forms. The clocks must agree through every
  carry, never run fast, never be counted twice although `update_time` has two
  callers, and every report must show a later time than the one before it.
* **Commands.** The handler is a nest of switches over a static buffer. Missing
  breaks, identifiers left behind by other commands and bytes left behind by
  longer ones decide what a command does. Counters must agree with what was
  handled, and flags with what was asked for.
* **Loop.** Commands come between any two calls. They must not delay reports or
  seconds, must be executed once each, and the two counters of a report, which
  two functions in two files increment, must stay in step.
* **Reports.** A generator writes into four static buffers, one filled from the
  other and never cleared, in functions copied from one another. A packet must
  say what its own report was to say, and no more.
* **Checksum.** A wrong CRC that both builder and checker share would pass every
  test on the simulator alone. It must be the standard's, and it must see damage.
* **Link.** UDP loses, repeats and reorders datagrams, and a socket's buffer
  fills up. The ground's warnings, and their absence, must mean something.
* **Processes.** Yamcs and the simulator die and are started again
  independently, and the start script may be broken off after any command. What
  the operator sees must come from the present run and be true.

## The modules

`PeriodicTimer` is the abstract specification of the idiom with which the code
does everything periodic: `if (now - previous >= interval) { ...; previous =
now; }`. Its promise is that it never fires more than once per interval and
that the stored instant is never ahead of the clock, so that the unsigned
difference never wraps.

`OnboardTime` is the clock. One pass of the loop is three steps, `ReadClock`,
`update_time`, `update_telemetry`. `Tick` is the body of `update_time`: the
seconds counter, its four bytes (`BigEndian`), and the calendar (`NextSecond`,
`CarryMinute`, `CarryHour`). Intervals, epoch and calendar are constants; the
clock reading is any later time, which stands for passes of any duration.

`Telecommand` is the command handler. `handle_sp` and `handle_pus_tc` run to
completion for one datagram, so a command is one step, `HandleCommand`.
A command is the payload of an intact packet, a sequence of bytes;
`Unpacked` copies it over the static buffer and leaves the tail as it was.
The branches of the switches are the actions `TC_2_1` to `TC_23` and
`Unsupported`. A branch's *verdict* says how often it accepts and how often it
rejects, because a missing break runs one branch after another:
`FallThrough` adds two verdicts. `Conclude` is what every leaf does with it:
count the acceptances and announce the reports the acknowledgement flags ask
for. The code only prints these reports, the calls that send them are commented
out, so `announced` counts the lines printed. Fields that are decoded and never
read again (`tc_5_6`, `ADCS` data, the packet header) are left out. The
expression `in[i++] << 8 | in[i++]` has two unsequenced increments; it is
modelled as the left-to-right reading that gcc produces (checked with `-O0` and
`-O2`), on which every decoded field depends. The variables after `announced`
are history: they do not occur in any guard of the code.

`Simulator` composes `OnboardTime` and `Telecommand` with the loop. It instantiates
`OnboardTime` with the loop's position mapped to the clock's, and `Telecommand` as
it is, and uses their operators for the bodies of the calls; `After` is the order of
the calls. It adds `send_telemetry`, with the increments of `generate_tm_3_25` and
those of its caller, `check_for_tc` with the socket's queue, and the arrival of
commands as an action of its own. `tm` is the last packet handed to `send_udp`.

`Satellite` is the abstract specification of the simulator as the ground sees it:
a queue of commands, their count, and reports that carry it. `Simulator` is
shown to implement it (`SatelliteSpec`), and `EGSE` is built on it.

`EcssCrc` is `ecss_crc16` bit by bit, with the end of `buildSPPacket` that appends
the checksum and the loop of `handle_sp` that checks it. A byte and the register
are sets of bit positions, which makes exclusive or the symmetric difference.
Between the two the way may invert any of 16 successive bits, wherever they begin
(`Hit`). `RemainderOf` is the definition that the code must meet: the remainder of
long division of polynomials.

`Telemetry` has the report generators down to the bytes they leave in the buffers:
`Build` is the common sequence of writing `pus_data`, `buildPUSFrame`, the copy and
`buildSPPacket`, each over what the buffer held before (`Overwrite`). Only
`generate_tm_3_25` has a caller today, the calls of the others being commented
out; they are modelled as functions of a library, called in any order with any
arguments. `report` keeps what a report was to say, under the counter of its own
type. `BytesAhead` and `WordAt` are where the generators put the words;
`DatabaseVersion`, `DatabaseFields`, `Accepted` and `FieldsRead` are what the
mission database makes of a packet, which is the same for TM[3,25] only.
`generate_tm_9_2` is left out: its loops test a variable that they do
not count, so that it never returns. `main.c:85-87` says that the PUS time
is not used and takes 0 bytes; the module follows the code, in which
`config.h` makes it three.

`PacketPreprocessor` is `MyPacketPreprocessor`, and `Downlink` puts it behind a
link that loses, repeats and reorders the packets of several application
processes. The instance that the repository configures names Yamcs's generic
classes in place of `MyPacketPreprocessor` and `MyCommandPostprocessor`, and these do
not look at the sequence count; `Downlink` therefore shows what the check is
worth where it is used, not what the configured station reports.

`EGSE` composes `Satellite` with Yamcs and `egse_run_simulator.sh`, one action per
command of the script. A run may be broken off and a new one started between any
two commands; any process may die at any moment. A simulator that is started
while the port is taken is `deaf`: `init_udp` has failed and the program goes on.
A process that has been signalled is gone at once, except Yamcs, which takes its
time (`stopping`): the script waits a second for the simulator, which has no
signal handler. `ManualSpec` is the equipment without the script, started and
stopped by hand. Of Yamcs only what the script and the ports see of it is
modelled; that its archive outlives it does not matter to what it shows of a new
run.

`MCOnboardTime`, `MCTelecommand`, `MCSimulator`, `MCEcssCrc`, `MCTelemetry`,
`MCDownlink` and `MCEGSE` give the constants values. The modules named `...Proofs`
hold the theorems. Definitions called `X_Something` directly before `X`, with a
comment that begins with "Mutated", are plausible wrong versions of `X`; every
checked property is known to fail with one of them in place of `X`.

## What the runs show

| Run | Bounds | Shows |
| --- | --- | --- |
| `MCOnboardTime.cfg` | second = 2 units, telemetry = 4, 14 units, start two seconds before a midnight and before a carry from the low to the high half of `coarse_time` | clocks agree (`CalendarAgreesWithCoarse`, `PusTimeEncodesCoarse`), never run fast (`ClockNeverFast`), the inner call of `update_time` does nothing (`TelemetryUpdateNeverTicks`), the clock implements `PeriodicTimer` (`SecondTimerSpec`) |
| `MCTelecommand.cfg` | 36 payloads: every branch, the layouts of the mission database where they differ from the decoder, short ones, other PUS versions; up to 4 in a row; counters of 8 values | the flags' meaning (`HkOffOnceEnabled`, `EventsOffNeedEnable`), the counters (`CountersExplained`), no influence of stale bytes on complete commands (`CompleteCommandsStandAlone`) |
| `MCSimulator.cfg` | report = 4 units, 12 units, so three reports and a wrap of the sequence field; 2 commands of 4 kinds, queue of 2; link up or down | nothing is left due by a pass (`NothingDueAfterTimers`), numbering and dating of reports (`ReportNumbers`, `SequenceStepsByTwo`, `ReportTimesAdvance`), the next call can always be made (`NeverBlocks`), the loop implements `OnboardTime`, `Telecommand`, `PeriodicTimer` and `Satellite` (`ClockSpec`, `CommandSpec`, `BeaconSpec`, `SatelliteSpec`), buffered commands are executed (`CommandsHandled`), reports are sent (`BeaconStarts`) and, while their flag is set, go on (`BeaconGoesOn`) |
| `MCEcssCrc.cfg` | the code's polynomial and initial value; packets of up to 3 bytes of 5 values, of which the second stands for the length field; bursts of 6 patterns beginning at any bit | both registers are remainders of polynomial division (`RegisterIsRemainder`), intact packets pass (`IntactAccepted`), damaged ones do not (`DamageSeen`) |
| `MCTelemetry.cfg` | words of 36 values (`Base` = 6), so that the sequence field has 9; buffers of 36 bytes, just enough for the longest report; up to 5 reports of 7 types with 2 sets of arguments | every packet says what its report was to, where its generator puts it, and TM[3,25] is read so by the mission database (`PacketReadsBack`), sequence count and counters tell how many there were (`CountersExplained`), the time of a report is its own without the lower two bytes (`TimeTagTruncates`) |
| `MCDownlink.cfg` | 2 application processes, one counting by one and one by two, 5 packets each, 2 under way, 3 received; sequence field of 4 values | of the first, no warning means complete and in order, and the reverse (`SilenceMeansComplete`); of the second, as of the simulator, every packet after the first is warned of (`CheckBlind`) |
| `MCEGSE.cfg` | 3 runs of the script, 3 commands, sockets of one datagram | what Yamcs shows is of its own run (`NoStaleReport`) and counts no command that was lost, is still waiting, or belongs to an earlier Yamcs (`ShownNeverOverstates`), a run of the script that is not broken off ends in a report, an abort or the death of a process it started (`ScriptBringsTelemetry`), and whoever is to move can (`NobodyStuck`) |

The runs that must find a violation are listed
[below](#disagreements-between-the-code-and-its-documents).

The bounds are enough for the cases that matter: four units of two-unit seconds let
a poll be on time, one unit late and several intervals late; a handler's behaviour
depends on earlier commands only through two identifiers, two flags, two counters
and the tail of the buffer, all of which two or three commands reach; eight counter
values let `CMD_ACC_CNT` wrap within four commands. `MaxTime` and `MaxHandled` are
the bounds in the guards. `CoarseMod`, 2^32 in the code, is 2^31 - 1 in the runs,
TLC's largest integer; neither is reached. `DataSize` is cut to the longest payload,
11. The calendar's initial time differs from the code's so that a midnight comes
within two seconds.

A register of 16 bits takes two bytes to fill, so a third byte meets every
interplay of data and feedback; the sets of bytes contain those with the lowest,
the highest, all and no bits. The reports differ in length, and five of them let
each be followed by a shorter one and that by a longer one; the sequence field of
9 values wraps within five reports counted twice. Two application processes are enough
to mix their counts up; three packets received out of five let any of them be
lost, late or repeated across a wrap. Three runs of the script let one be broken
off, one abort, and one come to its end.

`CHECK_DEADLOCK` is off in the command runs, which end when `MaxHandled` commands
have been handled, and in those of `EGSE`, where all processes may be dead and all
runs of the script used up. The loop never stops.

Fairness (`FairSpec` of `Simulator`): weak fairness of the loop's passes, because no
call of the loop blocks - the socket is non-blocking, and closed if `init_udp` failed
- and strong fairness of reading the last instant of the run, `MaxTime`, because a
pass takes time and the monotonic clock passes every instant: a loop that reads it
again and again reads that one at some time. When it reads it, and which times it
reads before, is left open. No fairness is assumed of the ground. In `EGSE`, weak
fairness of the commands of the script (each returns), of Yamcs coming up and reading
its socket (`Bind`, `Show`), and of the simulator's loop (`Execute`, `Release`),
which `CommandsHandled` and the theorem `DueReportsSent` show for the loop, for the
latter whatever the flag of the reports says; nobody has to start the script, to
issue a command or to die.

Some properties in full:

* `HkOffOnceEnabled` says that the flag of periodic housekeeping is off exactly
  if some TC[3,5] for SID 1 was handled. It is the consequence of two defects
  together: TC[3,5] runs on into TC[3,6], and TC[3,6] uses the identifier of the
  last TC[3,5].
* `CountersExplained` relates `CMD_RCV_COUNT` and `CMD_ACC_CNT`, which the
  operator compares: as long as neither may have wrapped, the first counts the
  commands of PUS version 1, and the second exceeds the number of commands by
  at most one for each TC[3,5], which is accepted twice.
* `ReportTimesAdvance` says that two reports never carry the same time, however
  late passes are, provided reports are not more frequent than seconds. It
  depends on the order of the calls: with `send_telemetry` first it is false.
* `ReportNumbers` says every report has an odd sequence count: both counters
  move by two. `SequenceStepsByTwo` says so of any two reports in a row, across wraps
  of the field; a process of `Downlink` that counts by two is a simulator because of
  it, and `CheckBlind` is about such a process.
* `BeaconGoesOn` says that, while the flag of periodic housekeeping is set, each
  report is followed by another as long as an interval is left for it. A timer that
  is due at one instant only, which a late pass misses, violates it. While the flag is
  clear nothing is claimed: the comments want silence then, the code sends on, and
  `SilentWhileDisabled` shows the disagreement. A loop that heeded the flag would
  keep both properties.
* `NeverBlocks` says that the loop can make its next call in every state, with no
  command in the socket as with a full one. With a receive that waits for a datagram
  it fails as soon as the ground is silent, and then neither clock nor reports go
  on. It says as well that the loop can always read the last instant when it comes
  to the clock. `NobodyStuck` says the same of the script, of Yamcs when it boots or
  listens, and of a simulator that has a report to send. Both are also what the
  theorems about liveness rest on (see [below](#what-is-proved)).
* `DamageSeen` is the promise of a 16-bit checksum: damage within 16 successive bits is
  seen, at whatever bit it begins, in the packet, in the checksum or across both. A
  register that loses the bits it shifts out, or a polynomial whose lowest bit is 0,
  does not keep it.
* `PacketReadsBack` reads the packet at the places where its generator puts things
  and compares it with what the generator was called for, whatever was in the
  buffers. A length field that is too large by one, for instance, is seen because
  the packet then ends in a byte of an earlier report and its checksum covers that.
  That Yamcs reads the same is claimed of TM[3,25] only, whose version, structure ID
  and eight fields are those of the mission database; of the reports that have no
  caller it is not true, which `ReportAsInDatabase` shows. The counter is claimed to
  be the report's own for every type but TM[1,7] and TM[1,8].
* `CountersExplained` of `Telemetry` holds modulo the width of the counters. In its
  run none of them reaches its modulus of 36, only the sequence field cut from one
  of them wraps; that it holds across the wraps is what `ReportsCounted` proves.
* `SilenceMeansComplete` is an equivalence: the check is neither deaf nor
  overcautious for a sender that counts by one, except that a loss of a whole
  cycle of the field cannot be seen. With the simulator's counts it is worth
  nothing, which is what `CheckBlind` says.
* `TimeTagTruncates` says what the date that Yamcs reads in a report is worth: only
  the upper two bytes of the counter are sent, so that it is the beginning of the
  18 hours in which the report was generated.
* `NoStaleReport` depends on the order of the script: simulators are stopped after
  Yamcs is gone and before the new one starts. `ShownNeverOverstates` is about the
  operator who compares the number of commands issued with the counter shown; it
  holds because no report outlives the run in which it was sent.
* `ScriptBringsTelemetry` names the ways in which the script may fail to bring
  telemetry. One of them is its own doing: a Yamcs that ends between `pgrep` and
  `pkill -9` makes `pkill` fail, which under `errexit` ends the script.

## What is proved

All theorems hold for every value of the constants that satisfies the `ASSUME`s
of the modules; `tlapm` checks them to the last leaf.

| Theorem | Statement |
| --- | --- |
| `TimerNeverFast` | `PeriodicTimer` keeps its promise |
| `TimeTypeCorrect`, `TimeNeverFast`, `ClocksAgree`, `HeaderEncodesCoarse` | the invariants of `OnboardTime` |
| `InnerCallNeverTicks` | the action property of `OnboardTime` |
| `ClockImplementsTimer` | `OnboardTime` implements `PeriodicTimer` |
| `CommandTypeCorrect`, `EnableSwitchesOff`, `DisableNeedsEnable`, `CountersAgree` | the invariants of `Telecommand` |
| `CommandsStandAlone` | complete commands are judged by their own bytes |
| `LoopRunsClock`, `LoopRunsCommands`, `LoopIsSatellite` | `Simulator` implements `OnboardTime`, `Telecommand` and `Satellite` |
| `LoopIsBeacon` | its reports implement `PeriodicTimer`, up to a wrap of the message counter |
| `ReportsNumbered`, `TimersServed`, `LoopTypeCorrect` | the invariants of `Simulator` |
| `ReportsTwoApart`, `ReportsDated` | its action properties `SequenceStepsByTwo` and `ReportTimesAdvance` |
| `LoopKeepsCommands`, `LoopKeepsTime`, `BeaconNeverFast` | in the running loop the invariants of `Telecommand`, `OnboardTime` and `PeriodicTimer` hold |
| `CommandsServed` | if every call can be made (`NeverBlocks`), fairness brings the execution of buffered commands (`CommandsHandled`) |
| `DueReportsSent`, `FirstReport`, `ReportsGoOn` | in the same way, a report that is due is sent, there is a first one (`BeaconStarts`) and after each another (`BeaconGoesOn`), the last two while the flag of the reports is set |
| `SecondsCounted` | in the same way, a second that is due is counted |
| `RegisterDivides` | the registers of `EcssCrc` are remainders of polynomial division, for every polynomial whose lowest bit is set and every length |
| `CrcTypeCorrect`, `IntactPackets`, `DamagedPackets` | the other invariants of `EcssCrc`, for every such polynomial, every packet and every burst |
| `TelemetryTypeCorrect`, `ReportsReadBack`, `ReportsCounted` | the invariants of `Telemetry`, for every base, size and checksum; of the mission database's reading `ReportsReadBack` speaks for TM[3,25] only |
| `ReportsTagged` | the time shown of a report, for every base |
| `DownlinkTypeCorrect`, `CheckSound`, `CheckTellsNothing` | the invariants and the action property of `Downlink` |
| `EquipmentTypeCorrect`, `ReportsFresh`, `CountsTrue` | the invariants of `EGSE` |
| `TelemetryComes` | if whoever is to move can (`NobodyStuck`), fairness brings `ScriptBringsTelemetry`, for every number of runs |

The clock's inductive invariant `TimeInv` adds two facts to the checked ones:
`coarse_time` is at least its epoch, and between `update_time` and
`update_telemetry` no second is due. The second is the reason why the inner call
never counts; the first, with `ClockNeverFast`, bounds the seconds counter by the
clock, so that it does not wrap before `MaxTime` (`HorizonAssumption`: with the
code's constants that is decades away). The calendar and the counter then advance
by one together (`NextSecondAdvances`), and the bytes decode to the counter
(`BigEndianDecodes`).

The command handler's inductive invariant `TCInv` adds `IDsExplained`: a stored
identifier of 1 can only come from a command that was counted as an enable.
Without it a TC[3,6] could clear the flag in a state where no enable was seen.
The proof splits a command into its effect on the counters (`CommandCounts`) and
on flags and identifiers (`CommandFlags`), each by the branches of
`handle_pus_tc`. `CommandsStandAlone` follows from the copy alone
(`VerdictIgnoresTail`).

For the loop, `LoopRunsClock` goes through the calls one by one: each is a step of
the clock or leaves its variables alone. `LoopRunsCommands` needs the bounds of the
queue (`QueueInv`): a datagram that is taken is one of `Commands`, and executing it
stays within `MaxHandled`. `NumbersInv`, behind `ReportsNumbered`, says that the
message counter is even, that the sequence count is one more, and that the last
report carried such a pair, cut to the fields' widths; an even modulus keeps the
parity (`ParityKept`). `TimersInv`, behind `TimersServed`, says that a timer is
quiet from its own call to the end of the pass, since the clock is read once per
pass. `LoopIsSatellite` maps a call of the loop to an action of the satellite or to
none, and the queue of datagrams to a queue of truth values (`CountsTail`,
`CountsAppend`).

`ReportsDated` uses the clock's invariant `TimeInv` over the loop's variables, by an
instance of `OnboardTimeProofs`; `ClockAssumption` of `Simulator` gives that module's
assumptions. The argument: at `send_telemetry` no second is due, so the last one
was counted less than a second ago; the last report was sent at least a second
ago; so a second was counted since. `DatesInv` keeps that a second counted after
the last report is one that the report does not show. `LoopIsBeacon` assumes
`Horizon`, that the run ends before `COUNTER_3_25`, a 16-bit number that moves by
two, wraps (18 hours in the code): the timer's count is read off it.

The three refinements carry the theorems about the parts into the loop:
`LoopKeepsCommands` and `LoopKeepsTime` use instances of `TelecommandProofs` and
`OnboardTimeProofs` over the loop's variables, and the assumptions of these modules
follow from those of `Simulator` (`HandlerAssumptions`, `ClockAssumption`).
`BeaconNeverFast` likewise has the same condition as `LoopIsBeacon`.

For the checksum everything goes through `Remainder`, long division of a polynomial
(a set of exponents) by the generator, a recursive function of the dividend's degree.
None of the library's induction theorems can be used, as they have an operator for a
parameter; the module proves `LeastNumber` and from it `Induction`, both about sets of
numbers in place of operators. With them `Remainder` is shown to be well defined
(`RemainderDef`), to let terms below the sixteenth power pass (`RemainderAdds`), to
commute with a shift, which is a multiplication by x (`RemainderShifts`), to be linear
(`RemainderLinear`), and to stay when the division goes on (`RemainderSettles`).
`DividendGrows` says that a further byte multiplies the dividend by x^8 and adds the
byte, as `ByteStep` does with the register (`RemainderOfBytes`).

The inductive invariant `CrcInv` says that both registers are remainders
(`RegisterDivides`), that a packet ending with its checksum has the remainder 0
(`ChecksumEnds`: a register fed its own two bytes is zero, `ChecksumClears`), and that
what arrived is what was sent plus a burst. Intact packets are then accepted at once.
For damaged ones, `HitAdds` says that the burst, multiplied by a power of x, is added
to the packet's polynomial, so by linearity its remainder is added to 0; and it is not
0 (`BurstRemains`), since a burst of 16 bits is its own remainder and no shift takes a
register other than 0 to 0 (`ShiftInjective`, because the polynomial's lowest bit shows
whether it was applied).

For the reports, `FrameParts` and `PacketParts` say what is at each place of a frame
and of a packet, `Glue` and `WrittenIsRead` that an overwritten buffer starts with
what was written. The inductive invariant `IInv` adds to the checked ones that
each static buffer is a sequence of `BufferSize` bytes (`Buffers`), without which a
`SubSeq` of it says nothing, the ranges of the counters (`Counts`), and that the two
bytes sent are the quotient of the time by the words' size (`TimeShown`), which they
are because dividing twice is dividing by the product (`DividedTwice`).

For the continuity check, `DownInv` adds that the count kept of a process is that
of the last packet passed on (`LastCount`). For the equipment, `EGSEInv` adds where
the script stands (`ScriptInv`: at `start_sim` there is no simulator, and Yamcs,
if it runs, is of this run), that a Yamcs and a simulator running at once are of one run
(`RunsInv`), and that the counts of the reports on their way do not exceed the
simulator's (`CountsInv`).

`ReportsTwoApart` adds to `NumbersInv` that the count kept is, in its field, two
more than the one last sent (`NextSeqInv`). That the field, cut from a counter that
itself wraps, steps by two across both wraps is arithmetic of remainders
(`RemainderOfSum`, `AddThenReduce`, `ReduceTwice`), since the field's modulus
divides the counter's.

Liveness is proved by following what is owed through the positions of the program.
In the loop (`CommandsServed`, `DueReportsSent`, `SecondsCounted`) that is the call
to be made next: a waiting command, a due report or a due second is still there
after each call up to the one that serves it, and `LoopGoesRound` says that the loop
comes round again and again and each time leaves nothing due. That something becomes
due needs time: `ClockReachesEnd` combines `LoopGoesRound` with the strong fairness
of the clock, the loop reads the last instant, and by then every interval that ends
within the run has passed. `ReportsGoOn` and `FirstReport` follow: a report that
never came would be due from then on, and the loop leaves nothing due; the argument
does not use the flag of the reports, which the code does not read. In the
equipment (`TelemetryComes`) what is owed is the command of the script, by the
invariant `WaitInv` what runs while the script waits, and from there the steps by
which Yamcs binds its port, the simulator releases a report and Yamcs shows it.
`ENABLED` is opaque to the prover: it occurs in these theorems as an atom, in the
premises `[]NeverBlocks` and `[]NobodyStuck`. The premises are not assumed of the
program: they are invariants that `MCSimulator.cfg` and `MCEGSE.cfg` check.

Only model-checked: these two invariants, because of `ENABLED`.

## Disagreements between the code and its documents

Each of these has a run that must find the property violated.

| Property, run | Code | Says otherwise |
| --- | --- | --- |
| `SilentWhileDisabled`, `MCSimulatorFlag.cfg` | the report is sent without a look at the flag of periodic housekeeping (`main.c:125`) | comments at `main.c:117` and `telecommand.c:561` |
| the same | TC[3,5] falls through into TC[3,6] and clears the flag (`telecommand.c:549`) | comment at `telecommand.c:507` |
| `OneVerdict`, `MCTelecommandOneVerdict.cfg` | missing breaks after SID 1 (`:531`) and TC[2,7] (`:487`) announce success and failure; several branches end without a verdict (`:104`, `:431-442`, `:465`, `:761`) | `documentation/EGSE User Guide.md:132-133` |
| `DisableUsesOwnID`, `MCTelecommandDisableID.cfg` | TC[5,6] switches on the ID of TC[5,5] (`:665`) | comments at `:658-664` |
| `ReportAsInDatabase`, `MCTelemetryDatabase.cfg` | every report has PUS version 2 (`telemetry.c:246`, for TM[1,8]) | `mbep-cdr-satll.xml:1303`, and `:1260`, `:1281`, `:1369`, `:1808`, `:1970` for the others but TM[3,25] |
| the same | failure codes have two bytes (`telemetry.c:251`) | `mbep-cdr-satll.xml:342`, and `:167` for TM[1,2] |
| the same | TM[1,8] and TM[1,7] send the counter of TM[1,2] (`telemetry.c:246`, `:206`) | `mbep-cdr-satll.xml:60` |
| the same | the sequence count is incremented by `generate_tm_3_25` and again by its caller (`main.c:137`) | `mbep-cdr-satll.xml:139` |
| `LiveTelemetry`, `MCEGSEDeaf.cfg` | a simulator started while the port is taken runs on without a link, even when the port is free again (`main.c:81`) | `EGSE User Guide.md:156` |

Two runs show several disagreements at once, and each takes all of them to be
violated. The only command of `MCSimulatorFlag.cfg` about the flag is the one that
enables the reports: if it left the flag set, the flag would never be clear, and if
the report asked for the flag, none would be sent while it is clear.
`ReportAsInDatabase` says of each report that at least one of four claims of the
database holds, which any of the claims implies; TLC finds a TM[1,8], sent after
another TM[1,8] and a TM[3,25], of which none holds.

Also noticed, without a run:

* The calls that send TM[1,x] are commented out (`telecommand.c:88`), so that the
  operator never sees the verification of `EGSE User Guide.md:134`.
* `generate_tm_5_1` puts event and data into two bytes each (`telemetry.c:358-362`),
  where the mission database has one for each (`mbep-cdr-satll.xml:325`, `:946`).
* Only the upper two bytes of the time are sent (`pus.c:149`); a comment of the
  mission database wants the time tag of the report (`mbep-cdr-satll.xml:70`).
  `TimeTagTruncates` says what is shown.
* The loops of `generate_tm_9_2` never end (`telemetry.c:398`).
* A Yamcs that ends between `pgrep` and `pkill -9` aborts the script
  (`egse_run_simulator.sh:16`), which `EGSE User Guide.md:47` has start both.
* A restarted simulator begins again at sequence count 1 (`main.c:114`), where
  `mbep-cdr-satll.xml:139` says it is never re-initialised.
* The mission database encodes TC[2,7], TC[3,5], TC[5,5] and TC[5,6] with other field
  widths than the decoder reads (these encodings are among the payloads of
  `MCTelecommand`).
* `main.c:85-87` says that no bytes of time are sent.
* `docker/docker-compose.yml` publishes a telemetry port other than the one that the
  simulator sends to.

## What is not modelled

* Datagrams that are not intact packets, in `Telecommand`: a wrong checksum has
  no effect in the code but a line of output, which `EcssCrc` covers.
* `MyCommandPostprocessor`: it sets the length and the sequence count of a
  command. The configured instance names a class of Yamcs in its place and leaves
  the length to the mission database, where it is an argument (`tc_packet_length`)
  of the command. `handle_sp` trusts the length and reads the count into a field
  that nothing uses; commands with a wrong length are not modelled.
* The functions of `pus.c`, `udp.c` and `telemetry.c` that have no caller and set
  fields nothing reads; `set_udp_nonblocking` failing.
* Yamcs itself, beyond what the script and the ports see; its displays, alarms
  and archive; installation and packaging scripts, docker.
* `generate_tm_9_2`: it has no caller, never returns and writes past its buffer.
* Wrap of `coarse_time` (in 79 years) and of the 64-bit millisecond clock.

## Plan

Done: the timer, the clock, the command handler and the loop; the abstract
satellite; checksum and reports; the continuity check and the link; the
equipment with its script; their runs and proofs, liveness included.

Left, in this order:

1. A command's way: the layouts of the mission database, as Yamcs encodes them,
   against the fields that `handle_pus_tc` decodes, as a property of every
   command instead of some payloads of `MCTelecommand`.
2. `EGSE` with two simulators of which the deaf one is restarted by hand while the
   script runs.
3. `generate_tm_9_2` in `Telemetry`, once its loops are corrected.
