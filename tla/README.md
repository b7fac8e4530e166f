# at_client_arduino in TLA+

A model of the atProtocol client SDK for ESP32 and Arduino, checked with TLC,
its safety properties proved with TLAPS. The C sources are in `src/src`; `PROJECT.json`
maps every definition to the lines it translates.

## The system

The library is single threaded C. An application owns one or more `atclient`
contexts; each holds an atSign, the connection to that atSign's server (the
atServer) and keys. Nothing in the library runs in the background: what makes
it hard is the stream it talks over, the allocations that may fail on a small
device, the flags that decide who owns memory, and the other clients of the
same atSign.

| component | state | operations | talks to |
|---|---|---|---|
| connection (`atclient_connection.c`) | host, port, TLS socket, hooks, four flags | init, connect, send, write, read, is_connected, disconnect, free | socket, hooks |
| Arduino socket (`atsdk_socket.cpp`) | `WiFiClientSecure`, 4 KB read buffer, timeout, two flags | init, configure, connect, read, write, disconnect, free | network |
| hooks (`atclient_connection_hooks.c`) | four callbacks, a bit each, a nesting flag | enable, disable, set | called around each read and write; may call back |
| context and authentication (`atclient_atclient.c`) | atSign, connection, two bits | init, free, start, stop, set/unset atSign, PKAM, CRAM, heartbeat | connection, cryptography |
| CRUD (`atclient_atclient_{put,get}_*.c`, `..._delete.c`) | none | one command and its answer each; shared keys also look a key up | connection, key helpers |
| shared keys (`atclient_encryption_key_helpers.c`) | the pair of copies at the atServer | look up, create | connection |
| notify (`atclient_notify.c`, `..._notify_params.c`) | parameters | send one notification | key helpers, connection |
| monitor (`atclient_monitor.c`, `atclient_atserver_message.c`) | a message that owns a union | start, read, free | two connections, key helpers |
| onboarding, enrollment (`atauth_*.c`) | generated keys, the keys file | onboard, enroll, wait for approval | atDirectory, authentication, CRUD, file system |
| atDirectory (`atclient_atdirectory.c`) | none | look a host up | socket |
| RPC (`atclient_rpc.c`) | none | build and parse requests and responses | notify, monitor |
| field stores (`atclient_metadata.c`, `..._request_options.c`, `..._atnotification.c`, `..._atkeys.c`, `atchops_rsa_key.c`) | optional fields, a bit each | set, unset, free, per field | heap |
| memory list (`atcommons_memory_util.c`) | a bitmask of owned buffers | add, free one, free on success or failure | heap |
| cryptography (`atchops_*.c`), text helpers, logger, cJSON | none | pure functions | mbedTLS |

What makes each part correct, and what is hard about it:

- *connection, socket, context*: pointers and the flags that speak for them
  agree after every exit of every function; nothing is freed twice or lost.
- *send and read*: the answer a caller gets is the answer to its command. The
  stream has no ids, answers follow prompts that do not end in a line end,
  reads time out, and a late answer stays in the stream.
- *authentication*: success means that the server accepted the proof on this
  connection. Several answers are read in a row, in two different ways.
- *shared keys*: the two copies are the same key and values are encrypted under
  it. They are written by two commands, by any number of clients.
- *monitor*: the type of the message, the union field and the return value
  agree on every path; no notification is repeated or overtaken, whatever the
  checks of the connection and the timeouts take out of the stream.
- *onboarding, enrollment*: a crash, a failure or a lost answer at any step can
  be recovered from; what the keys file holds works.
- *field stores, memory list*: a bit is set exactly when the field is owned.
- *texts*: what one function writes another reads back as it was meant.

`PROJECT.json` lists each hazard at its line, with the properties that cover it
or the reason why none does.

## Modules

### AtConnection and AtClient: who owns what

`AtConnection` is the connection as a record `conn` of pointers and flags, over
a heap in which each block holds one kind of thing or is free, and any free
block may be handed out again. So an address kept too long can come back as
something else, which is how a double free or a use after free shows.
Each way out of `atclient_connection_connect` is an operator: `ConnectConfigureFails`
and `ConnectTlsFails` (plain returns that leave the connection enabled),
`ConnectBannerFails` and `ConnectHostFails` (through `exit`, which disables it)
and `ConnectSucceeds`. They are parameterised by the connection and the heap
they start from, because `atclient_start_atserver_connection` runs them after
stopping the old connection, in the same step.

`AtClient` is the life cycle of the context around it: `SetAtSign`,
`UnsetAtSign`, `Start`, `Stop`, `Free`, `Reinit`, the hooks enabled or disabled
by the application, and `DisconnectConnection`, which `atauth` calls behind the
started bit's back. One function is one action, since nothing can interleave
with it.

### Exchange and AtProtocol: commands and answers

`AtProtocol` is one connection at the level of the conversation. The byte stream
is a sequence of tokens split exactly where the code can tell the difference:
the `@` that opens a prompt, the rest of the prompt, the head of an answer
(through `data:` or `error:`) and its tail (through `\n`). The network delivers
one token at a time, so a read can end anywhere between two. A read that waits
is a step that is enabled at any moment and takes what is there: if that is no
whole line it is the timeout.

A synchronous call is several steps (`phase`): it writes, and at a later step it
reads. PKAM reads the prompt after the challenge separately (`ReadPrompt`), CRAM
does not. `SendOp`/`OpAnswer` stand for every function that sends one command
with `atclient_connection_send`, which may refuse the answer they are given for want of
`data:`; their guards are the two bits (`MayOperate`). `IsConnected` has no guard but the connection's own, and
`SendUnread` is the `async_read` mode that leaves its answer in the stream. An
answer may be too big for the caller's buffer (`"big"`: 0 is returned and nothing
copied) or longer than the socket's buffer (`"long"`: returned in pieces). The
server, the network and the peer closing are external.

`Exchange` is the abstract specification: four counters and flags that say in
which order commands are issued, executed and answered, what a caller may be
given after a read gave up, and that a new session has nothing of the old one.
`AtProtocol` implements it under the mapping `issued <- sent`,
`executed <- sent - Len(requests)`, `replied <- answered`,
`tainted <- broken # {}`.

`broken` and `answered` are history variables: no action's guard reads them.

### SharedKeyExchange: the key two atSigns share

The pair at the atServer (`mine`, `theirs`), the clients of one atSign, each in
the middle of at most one `put` or `notify`, and readers. A client's connection
is reduced to what `Exchange` leaves of it: commands are executed in order, each
has one answer, a read that gives up leaves its answer for the next read
(`Reads`). A call is a chain of commands, each sent when the answer before it was
accepted: lookup (`GetAnswer`), public key (`PublicKeyAnswer`, which generates
the key), our copy (`OursAnswer`), their copy (`TheirsAnswer`), the value
(`ValueAnswer`). `Creates` is where put and notify differ: put creates only when
the server said `AT0015` (key not found), notify whenever the lookup did not
succeed. The reader does the two lookups of `atclient_get_shared_key`, for its
own or the other's value, or the late key lookup of the monitor.

`mishaps` is a history of the three things that spoil the pair: a creation that was
interrupted between its updates, replaced a pair, or used a connection with an answer
left in it. The first leaves the recipient without a key and nobody with a wrong one,
so `Agreement` and `NoGarbage` hold through it (`Intact`). `acked` is the key of the
last put that returned 0.

A ciphertext is the key it is under. `Keys \ used` says that two generated keys
are never the same.

### NotificationFeed and Monitor: listening

`Monitor` is the loop of the example: check that the connection is alive
(`Noop`, `CheckAnswered`, `CheckTimedOut`), connect when it is not, read one
message, use it, free it. The connection (`link`) is none, up, closed by the peer, or
open: started by an authentication that failed afterwards, or of a monitor command
that failed, so that nothing is subscribed. `Connect` has all three outcomes, and goes
on to a check or, where the code returns 0 or the result is not looked at, to a read;
`Init` is what setup, which does the same once, leaves. On an open connection the
atServer answers checks and publishes nothing. The atServer writes notifications and the answers to
the checks into one stream, each line in one piece or in two, so a check may eat
a notification, a read may be given the answer to an earlier check, and a read
that times out gets the front of a line. `atclient_monitor_read` is several
steps (`phase`): the line, the parsed message, the decryption between its hooks;
each failing exit is a disjunct with what it frees, unlinks and leaves. `heap`
holds the blocks of a message (line, its buffer, notification), `message` the
type, the union and the line: which union member is freed follows from the type.
`masked` is a history of the two ways a read returns 0 without a decrypted
value: memory that ran out at the very end, and a hook whose result replaced the
failure.

`NotificationFeed` is what a monitor promises: the notifications in their order,
each at most once. `Monitor` implements it as it stands (`published`, `seen`).
`HeldByAnswersOnly` is what recovery there is: a monitor that is never subscribed again
is one whose checks are answered for ever. That this happens is `Resubscribes`.

### Enrollment: the first keys and the next

Two devices: `First` onboards the atSign, `Second` enrolls with it. Each command
is a chain of steps named after the calls it makes (`CramAuthenticate`,
`RequestFirst`, `PkamAuthenticate`, `PutPublicKey`, `DeleteCramSecret`;
`LookUp`, `RequestApkam`, `WaitForEnrollment`, `FetchPrivateKey`,
`FetchSelfKey`), with the writing of the keys file between them (`Open`,
`Write`). `Answered` is a call to the atServer that was carried out: its answer
may be lost. `Crash` is a device switched off after any step, `Fails` any other failure, which
runs the command's exit. Keys are known by the run that generated them, a file
is none, cut or whole with the fields it has, and `Loaded` is what loading such
a file gives, field by field. A device may be started again any number of times
while its file is not in the way; the operator may clear a file away, the owner
approves or denies. `hurt` is a history of what happened to a file without the
command's notice: `cut` and `dropped` (`WriteShort`, `WriteWithout`: a short
write counts as success, a field cJSON had no memory for is left out) and
`removed`.

### Fields and the structures over it

`Fields` is a heap and a set of bits; its operators take a memory and give what
the C code makes of it, so a function is the composition of the functions it
calls. A call that sets several fields one after the other (clone, create, read
from JSON, populate) is several steps: `call` holds what is still to be done, and
each step may find no memory. `AtkeyFields` (names and metadata of an atKey),
`NotificationFields`, `NotifyParamFields`, `OptionFields` (the seven request
options), `KeyFields` (atKeys and RSA keys) and `KeyFileFields` are the
structures; the groups of fields are CONSTANTS, since the code repeats the same
functions for each field of a group. `FieldStores` puts them over one heap, one
family in a behaviour. `OptionalMap` is the specification they all
implement: a map of optional values, of which a call changes one field, or empties
a part; the refinement mapping is `View`, the fields seen through their bits.

### WireText: texts

Five small machines let a text grow piece by piece, or a value be stored and
read, and their invariants compare two functions of the code on it. They share a
run; a behaviour follows one of them.

- `Lines`: the prompt of an answer as `read` and as `get` look for it, and
  the lookup of a host in the answer of the atDirectory, whole or as far as it came
  before the timeout, with the white space and the plus that `strtol` takes.
- `AtkeyText`: `atclient_atkey_to_string` and `atclient_atkey_from_string`.
- `MetadataText`: the metadata of a command, whose length one function counts and
  another prints.
- `StoredValues`: puts and gets of a self key and a shared key, with the
  caller's atkey structures reused between them, and the IV that has to be found
  again. A value is the IV it is under.
- `Rpc`: request and response keys, which domain takes them, the ids.

## Runs

| run | bounds | shows |
|---|---|---|
| `client` | 6 heap blocks, symmetric | `PointersSound`, `StartedIsUsable`, `LeaksOnlyWhenNotStarted` for every sequence of calls |
| `client_free` | same | `FreeReturnsEverything` is violated |
| `protocol` | 4 commands a connection, any number of connections | `Paired`, `AcceptedMeansAuthed`, `CallsReturn`, `Exchange` is implemented |
| `protocol_reset` | same | `NoAnswerAfterUnparsed` is violated |
| `protocol_memory` | same | `AuthOkMeansAuthed` is violated |
| `shared_key` | 2 clients, 2 keys, 2 commands or answers on the way on a connection | `Agreement`, `NoGarbage` |
| `shared_key_put` | 1 client | `PutIsShared` is violated |
| `fields` | one or two fields of a kind, 1 or 2 structures, 3 blocks (4 for keys) | `Sound`, `LeaksAreKnown`, `Delivered`, `CreatedAsAsked`, `OptionalMap` is implemented |
| `monitor` | 3 notifications, any number of checks, timeouts and connections | `Sound`, `NoLeaks`, `ValueUnlessMasked`, `HeldByAnswersOnly`, `NotificationFeed` is implemented |
| `monitor_reconnect` | same | `Resubscribes` is violated |
| `enroll` | 4 runs that generate keys, 2 polls | `NoLockout`, `KeptKeysWork`, `OkMeansDone`, `NeverOverwritten`, `CommandsEnd` |
| `text` | lines of 6 pieces, names of 5, 3 fields of metadata, 2 atkeys with 5 IVs | `PromptsAgree`, `AddressOrError`, `KeyTextRoundTrip`, `MetadataWhole`, `ValuesComeBack`, `AnswersFindTheirRequest` |

*Why the bounds are enough.* A started context with hooks and atSign owns five
blocks. With six, a connect still succeeds in a heap in which a failed one lost
a client and a buffer; after more losses only the failing branches remain. An authentication
is two commands; two more let an answer be late and be taken by the call after
the next, and the connection can be replaced any number of times. In
`SharedKeyExchange` one pair and one that replaces it need two keys and two
clients; a connection holds the answer waited for and one that came late. The
constraint `Unspoilt` stops where a pair is replaced or a creation is out of step:
`mishaps` only grows and both invariants say nothing after these; it goes on after an
interrupted creation. `shared_key_put` has no constraint.

In `fields` a group of like functions has one or two fields; a clone, a second
structure and a lost block need three blocks, an RSA key with two numbers and
its text a fourth. The constraint `Few` lets a call on atKeys begin with at most
two fields initialized: a field interacts with the one it aliases or follows.
Three notifications are one eaten, one cut and one that overtakes. In `enroll` two runs of
each device are a first one that failed at any step and its rerun; the polls are
50 in the code, and the second already is one that goes on where another failed.
In `text` a long has five bits, an id two, so numbers on both sides of their
limits are among the few that are tried. Five IVs are the two in the structures,
the two stored and the next.

*Fairness.* `AtProtocol` assumes `WF_vars(InCall)`, a call in progress takes its
next step. The code runs to completion by itself, and every loop of the
socket ends with data, at the buffer's limit or at a timeout. The server, the
network and the application may stop for ever. `Enrollment` assumes the same of
each command (`WF_vars(Device(d))`), whose calls all end by the read's timeout;
nothing is assumed of the owner or of a start. `Monitor` assumes that the application's loop goes
on, that bytes sent arrive, and that of connection attempts made for ever one
ends in a subscription (`SF_vars`): without the last no monitor recovers. An attempt is made
only when a check failed, so this does not say that a lost monitor is subscribed again:
one that is left open and answered makes no attempt (`Resubscribes`). The
server need not publish or answer anything.

*Deadlock* is checked in every run but `text`, where a text of full length is
complete.

## Where the code does not do what it says

- `client_free`: a connect that fails in the socket's configuration or the TLS
  handshake leaves the connection enabled with client and 4 KB buffer, but not
  started; `atclient_free` then skips it. The reconnect loop of
  `examples/MonitorNotifications` loses both at every failure.
- `protocol_reset`: the log says the connection should be reset; nothing does,
  and the next call is given the late answer with 0.
- `protocol_memory`: `ret` is still 0 from the previous call when an allocation
  in the middle of an authentication fails.
- `shared_key_put`: a creation interrupted between its two updates leaves only
  our copy, later puts find it and succeed, and the other atSign cannot read.
- `monitor_reconnect`: an authentication that fails after its connection was started
  leaves it started and open (`atclient_atclient.c:293`, `:421`). The example says it
  will retry; but the next check is answered by any line, an error included
  (`atclient_connection.c:508`), and the loop reads an unsubscribed session for as long as
  the atServer keeps it open. So it goes when `atclient_monitor_start` fails, whose
  result the loop ignores.

What the properties of the passing runs have to except, each with its clause. These are
things the code does, and no property of a passing run says otherwise:

- `PointersSound` rests on a flag that stays off: starting the connection keeps the hooks
  pointer "to preserve them across resets" (`atclient_atclient.c:135`), but not the flag,
  and stopping a started connection has freed the structure. Restoring the flag as well
  would be a use after free.
- `LeaksAreKnown`: `atclient_notify_params_set_id` never marks its copy as owned;
  `atclient_notify_params_set_atkey` loses a structure when the clone in it fails;
  the decrypted value of a notification is freed only if the notification is
  marked as encrypted when that happens.
- `Agreement`, `NoGarbage` (`Intact`): a creation that replaces a pair, since another
  client created one meanwhile or since notify creates whenever its lookup failed, also when
  only the answer was lost (`atclient_notify.c:100`). What was put before stays under the
  old key, and a get of it returns 0 with garbage. And a creation on a connection with an
  answer left in it, which is taken for the answer to an update.
- `ValueUnlessMasked`: no memory for the decrypted text or its copy
  (`atclient_monitor.c:407`, `:428`) and a post-decrypt hook that returns 0 after a
  failure (`:185`) make the read return 0 without a decrypted value.
- `NoLockout`, `KeptKeysWork`, `OkMeansDone`: the cases of `hurt`. A short write of
  the keys file is a success (`atclient_atkeys_file.c:331`): onboarding deletes the CRAM
  secret and returns 0 with a file that does not load (`cut`). A mandatory field missing
  from the file after the first makes `from_string` return 0, and the load goes on
  (`dropped`). A deletion of the CRAM secret that is done but whose answer is lost fails the
  command with a working keys file in place: who clears it away to run the
  command again is locked out (`removed`).
- `PromptsAgree`: an atSign that begins with `null` keeps its prompt in the answer
  (`atclient_atclient_utils.c:74`).
- `AddressOrError`: the lookup does not ask whether the line it read had ended, although
  its comment says so (`atclient_atdirectory.c:141`). A `null` cut before its line end is
  a success without a host (`:82`), which the whole line is not, and a port cut by the
  timeout is the port it says there.
- `KeyTextRoundTrip`: self keys whose names begin with `public` or `cached` are
  printed and not parsed back (`atclient_atkey.c:216`).
- `MetadataWhole`: a number that no long of the target holds is cast and sent as another
  (`atclient_metadata.c:629`; a time to live past 24 days with 32 bits).
- `ValuesComeBack`: the JSON `null` of `ivNonce` is kept as the text `null`
  (`atclient_metadata.c:2682`), which the monitor knows to be no IV
  (`atclient_monitor.c:372`) and the gets take for one; and a get of a self key
  reads the metadata of a value without an IV over that of the last value.
- `AnswersFindTheirRequest`: an id of more than 32 bits is read as another
  (`atclient_rpc.c:202`, `:295`), and a domain takes the keys of every domain whose
  name ends with its own (`atclient_rpc.c:121`).

## Proofs

`AtClient_proofs` (for any set of blocks, finite or not):

- `IInvHolds`: `IInv == TypeOK /\ PointersSound /\ StartedIsUsable /\ Flags` is
  inductive. Freeing a block breaks no other pointer because `PointersSound` says
  what each pointer's block holds, and blocks that hold different things are
  different blocks; it needs no clause that says the pointers differ. `Flags`
  (the host flag is set only while the connection is started; a freed context is
  neither started nor has an atSign) is there for the leaks: what a stop may
  overlook is then a socket or hooks, never a host name.
- `TypeCorrect`, `PointersAreSound`, `StartedConnectionIsUsable` follow.
- `LeaksAreConfined`, an action property: each operation of a context that does
  not drop an unstarted connection leaves the set of unreachable blocks as it was.

`AtProtocol_proofs` (for any bound `MaxSent`):

- `IInv == TypeOK /\ Truthful /\ (Authenticating => started)`. `Truthful` says that
  a `success` token on the wire or received belongs to a session that is
  authenticated. `AcceptedMeansAuthed` speaks of one read only, but any read may
  pick up an old token, so it has to hold of the whole stream.
- `TypeCorrect` and `AuthenticationIsSound` (`AcceptedMeansAuthed`) follow. The
  lemmas at the start say what the operators on token sequences return.
- `EInv == Queued /\ Travelling(Stream) /\ Settled /\ Fresh /\ Paired`, over the stream
  of what is received and what is under way. `Paired` is not inductive: it is about an
  answer that was given, and which answer a read will find depends on all that is
  still to come. `Queued` says that the commands that wait are the last ones written,
  in order; `Travelling` that the answers in the stream are in order, belong to
  executed commands and come after the last one that was given; `Settled` that, while
  nothing broke, prompts and answers are whole and the only answer there may be is the
  one the call waits for; `Fresh` that a session is not authenticated before its first
  proof, so that no named prompt can precede the challenge.
- A cut, lost or left answer only removes tokens from the stream, and `Within` says
  what that leaves of the invariant; a read takes the stream to its first line end.
- `AnswersArePaired` (`Paired`) and `ExchangeIsKept` (`ImplementsExchange`) follow: a
  whole answer read while nothing broke is a step `Answer`, any other read a step
  `GiveUp` or `GiveUpEmpty`.

`Enrollment_proofs` (for any number of runs and polls):

- `Invariant`: `IInv == TypeOK /\ ServerInv /\ FirstInv /\ SecondInv` is inductive.
  None of the checked properties is: each speaks of a file, and what makes the
  file right happened many steps before. `FirstKeys` and `SecondKeys` follow the
  keys of a run from their generation through the request to the file and say at
  which step the atServer holds the same; `FirstFile` and `SecondFile` take over
  once it is written; `FirstCram` says when the secret may be gone; `FirstDone`
  and `SecondDone` carry a result of 0 on to the next start. `ServerInv` says that
  a run still to come has left nothing at the atServer, which is why a fresh run
  cannot be confused with an old one.
- `TypeCorrect`, `NeverLockedOut` (`NoLockout`), `FilesWork` (`KeptKeysWork`),
  `ResultsHold` (`OkMeansDone`) and the action property `FilesKept`
  (`NeverOverwritten`) follow.

`Monitor_proofs` (for any number of notifications):

- `Invariance`: `IInv == StreamInv /\ CallType /\ MessageInv`. `Sound` and `NoLeaks`
  are not inductive: to know that nothing is left after `atclient_monitor_message_free`
  one must know which blocks were there before. `MessageInv` says so for each part of
  the loop: none while it checks and connects (`Quiet`), a line and its buffer once it
  was read (`Parsed`), a notification with them until it is delivered (`Noted`), and
  what the type says when the call has returned (`Used`). The lemmas at the start say
  what allocating and freeing change.
- `TypeCorrect`, `MessageSound` (`Sound`), `NothingLeaks` (`NoLeaks`) and
  `ValueDelivered` (`ValueUnlessMasked`) follow.
- `OrderInv`: what is received and under way is in order, two pieces of one notification
  are the front and the rest behind it, all of it lies beyond what the application
  was given, and the line in hand lies between. A cut line cannot be delivered twice
  because its front alone does not parse.
- `MonitorFeeds`: with that every step is one of `NotificationFeed` or leaves
  `published` and `seen` alone, so `Spec => ImplementsFeed`.

`SharedKeyExchange_proofs` (for any clients, keys and bounds):

- `IInv == TypeOK /\ (Intact => Clean)`. `Agreement` and `NoGarbage` speak of
  what is stored and read; whether that stays right depends on what is on every
  connection. `Clean` therefore follows the keys that are under way:
  - `Paired`: the recipient's copy is ours, or is missing while a client is half
    way, that is, has ours answered and has yet to send theirs, or a call was lost
    there (`"interrupted"`).
  - `KeysAsked`: an update of the pair is on a connection only for the call that
    waits for its answer, with that call's key, or was left there by the call that was
    lost (`Late`): it may still be executed, and only the pair of that one creation can
    come of it. Values may be left over from earlier calls, but a value is under the
    pair's key.
  - `Getting`, `LookingUp`, `Ours`, `Theirs`: what each step of a call may find on its
    connection. The answer to the lookup of the recipient's public key, once there,
    is the last thing there, so what answers the update behind it is that update's
    answer. Of an answer cut short a rest may be left, which is no data.
- `TypeCorrect`, `CopiesAgree` (`Agreement`) and `ReadersNeverGarble` (`NoGarbage`)
  follow. The lemmas at the start say what appending to and taking from a queue does
  to the elements in it.

`FieldStores_proofs` (for any fields, structures and heap):

- `IInv == used \in Families /\ StoreInv(mem) /\ (the heap is that of the family) /\
  CallInv`. `Sound` alone allows two fields to share a block. In `StoreInv` every
  block in use names the slot it was allocated for, so two initialized fields cannot
  share one (`TextOK`, `BlockOK`), and a number is a number while its bit is set
  (`ValueOK`).
- The primitive changes of `Fields` keep `StoreInv` and have one effect each on what
  the bits show: the fields of a set are gone (`Dropped`), or one field holds a value
  (`Filled`). Every function of the structures is made of these, and every step is
  one of three: a call that is complete in itself, the start of a call that sets
  several fields, or one field of such a call. One lemma per family of structures
  (`AtkeyStep`, ..., `FileStep`) shows that, and the theorems need no more.
- `CallInv` says that the fields a call is done with hold what they are meant to
  (`DoneWith`). `populate` of the RSA keys depends on it: the numbers are parsed from
  texts that the same call has set before them.
- `TypeCorrect`, `StoresAreSound` (`Sound`), `LeaksKnown` (`LeaksAreKnown`), the
  refinement `StoresAreMaps` (`FieldsAreMaps`), and the action properties
  `CallsDeliver` (`Delivered`) and `CreatesAsAsked` (`CreatedAsAsked`) follow.

`AtkeyText_proofs` (names of any length, made of any words):

- `TokenFacts` and `TokenReads` say what `strtok_r` gives of any text, and of a word
  with a delimiter behind it.
- `NameParsed`: whatever text the parser accepts, the parts of its record are well formed
  (`NameParts`, `Scoped`): no delimiter is left in a part that the printed text delimits
  with it. This is what a round trip needs, and it is true of the parser's records only:
  a structure the application fills may have an `@` in its key.
- `NamePrinted` follows the lengths that `atclient_atkey_strlen` adds up; `ReadBack`
  takes the printed text apart again, scope by scope; `RecordPrints` joins the two and shows
  where the exceptions (`Misread`) come from. `NameComesBack` is `KeyTextRoundTrip` for
  any name.

`WireText_proofs` (all the texts, without their bounds):

- `PromptsAlwaysAgree` (`PromptsAgree`), for lines of any length: `FirstFinds` and
  `LastFinds` say what the searches of both readers find, `LastSame` and `FirstSame`
  that they find the same in a line and in the line without its end.
- `AddressesAlwaysNamed` (`AddressOrError`), for answers of any length, whole or cut:
  `PortTextIs` says that what is left for the digits is what lies between the first piece
  that is no white space, or the plus there, and the last that is no line end. A port is not out of range because it is compared after it was read, and `strtol`
  is followed only until it is.
- `NamesAlwaysComeBack` (`KeyTextRoundTrip`), from `AtkeyText_proofs`: a name grows by
  pieces only.
- `MetadataAlwaysWhole` (`MetadataWhole`), for any fields, texts and widths of a long:
  `PrintedFacts` says that every field is as long as counted and has no terminator in it.
  `Unrolled` is the text that is meant, up to each field; `Laid` says that the buffer holds
  it up to there with terminators behind. So the position after a field is the end of
  its text, the first terminator is behind the last field, and nothing was written
  beyond it. Where a long is too narrow the printed field is longer or shorter than
  counted, which is the exception.
- `ValuesAlwaysComeBack` (`ValuesComeBack`), for any atkey structures and IVs:
  `StoredInv` says that the metadata of every stored value names the IV it is under,
  or none or `null` where a program without IVs stored it.
- `AnswersAlwaysFind` (`AnswersFindTheirRequest`), for any domains and ids:
  `KeyFacts` gives the places of a key, `__rpcs` at one of them only. A search for
  another domain's name must find it in front of that place, so it ends the
  name there (`OtherNamespace`). `ResponseInv` carries the id from the request to the
  answer, through an `unsigned long` of any width from 32 bits up.
- `Number`, `LengthUpTo` and `PrintedUpTo` are recursive functions over `0 .. n`. `UpTo`
  is induction over such a range, for a set and not for an operator, by its least
  counterexample; `Recursion` builds the function a recursion describes from its
  beginnings, so that the definition by `CHOOSE` is known to solve it; `StaysIn` gives
  its type. `FlattenSeq` of the community modules is unrolled the same way (`Flattened`).

Assumptions are those of the modules, all named: `NULL` is not a block (in `Monitor`:
not an address), no key is `NoKey`, `MaxSent` is a natural, the two devices differ,
the bounds are numbers. The field stores assume in addition what the C declarations
fix: a field is a text or a value and not both, a C object is a structure of one
kind, and the texts in base64 come before the numbers parsed from them. The texts
assume that a metadata field is of one kind; that a digit has a value and is no line
end; that the words of a name have no `@`, `:` or `.` in them, which are pieces of their
own; that no generated IV is one of the words `none`, `zeroes`, `null` and
`garbage` that stand for the others, that an `unsigned long` holds 32 bits, and that
the name of an RPC domain neither begins with a dot nor has the word `__rpcs` in it
(the code does not look: a domain `.d` would take the keys of a domain `d`).

Only model-checked: `CallsReturn`, `CommandsEnd` and `HeldByAnswersOnly`, since liveness under
fairness is out of the prover's reach. Every invariant, every action property and the
three refinements that a passing run checks are theorems.

## Not modelled

The mbedTLS socket of native builds; logging; the read timeout's length; base64
and the mathematics of the ciphers; JSON as text (what a document says is
modelled, field by field). In `SharedKeyExchange`: a key the caller supplies
(`request_options`, `params->shared_encryption_key`), commands the server
executes after the client has reconnected, and caches at the recipient's own
atServer. In `Enrollment`: more than one field dropped from a file, and a second
enrolling device. In the texts: names longer than the buffers they are printed to;
numbers so long that the power of ten that counts their digits overflows
(`atclient_string_utils.c:166`, ten digits where a long has 32 bits, and `:186`); and the
spelling of the labels and the flags of metadata, one character in the counting and in the
printing function. That a read of the socket ends is not modelled either: it is one step,
and `CallsReturn` is about the calls around it.

- *The IV of put_shared_key's options*: its bit is in byte 1 of an array of one byte
  (`request_options.h:15`, `:72`), in the padding, and setting it copies 32 bytes of an IV
  that has 16. `OptionFields` gives it a bit of its own.
- *JSON of the wrong type*: a number where the server's document has a text makes the
  parser take the length of NULL (`atclient_metadata.c:1707`). `ServerDocs` has members of
  their own type or null.
- *Hooks around reads and writes* (`atclient_connection_hooks.c`): the library
  calls them and the application decides what they do. What can go wrong (a hook
  that disables the hooks while one runs, a hook that is not set) is what the
  application does to itself; that the structure they live in is owned once is
  in `AtClient`.
- *`atclient_connection_read`*: no function of the library calls it.
- *Memory list*: used by `decrypt_notification` alone, for two buffers freed on
  every way out.
- *Buffers of a function*: a return that forgets one
  (`atclient_encryption_key_helpers.c:309`) is seen in the function and changes no
  state another call reads. In the same way a notification without any `value`
  has its length taken before the check that it has one
  (`atclient_monitor.c:320`); `Monitor` has notifications with a value only.

## Plan

Done so far: the connection and the context, the conversation, the shared key, the
monitor, enrollment and onboarding, the structures of fields, the texts. Next:

1. `AtProtocol` with two contexts on one atSign, and a caller's shared key in
   `SharedKeyExchange`, with their proofs extended.
