# TLA+ models of the privacyshield relay firmware

This directory models the relay firmware in `src/relay-fw`. The firmware is an ESP32 application. It downloads AirTag public-key records from a signalling server and advertises them, one tag at a time, as BLE offline-finding beacons.

## 1. The system (inventory)

| Part | Source | State | Operations |
|---|---|---|---|
| Tag codec | `airtag.c` `airtag_to_key`, `key_to_payload`, `key_to_addr`, `airtag_to_ble_advertisement` (41-130); `airtag.h` constants | none (pure) | base64 decode → 38 bytes → 28-byte key → 6-byte address + 31-byte payload |
| Tag store | `main.c` 62-67, 83-90 | `airtag_list[NUM_TAGS]`, `airtag_count`, `airtag_mutex` | written by the HTTP task, read by the BLE task |
| HTTP downloader | `main.c` `http_client_task` 227-284 | `http_buffer` | perform GET, take mutex, `json_read_array`, log, give, sleep |
| HTTP event handler | `main.c` `http_event_handler` 153-179 | static `buffer_len` | append chunks (truncate at `HTTP_BUFFER_SIZE`), reset on finish/disconnect |
| BLE advertiser | `main.c` `ble_adv_task` 294-347 | local `index`, locals `addr`/`payload` | check count, take mutex, assert, decode (skip on failure), advance index, give; then set address, set data, start, dwell, stop, each followed by `xSemaphoreTake(ble_sem)` |
| GAP event handler | `main.c` `ble_gap_event_handler` 193-216 | `ble_sem` | gives `ble_sem` on the four completion events, whatever their status |
| WiFi handler / `app_main` | `main.c` 113-142, 355-438 | `retry_num`, event group | connect and retry, wait for CONNECTED or FAIL, then create the semaphores and start both tasks |

How the parts interact:
- Two tasks of equal priority (2) share the tag store under `airtag_mutex`.
- The BLE task reads `airtag_count` once *without* the mutex (line 299).
- The HTTP client calls `http_event_handler` from inside `esp_http_client_perform`. The handler writes into the task's `http_buffer` through `user_data`.
- `wifi_event_handler` runs in the default event loop task. `app_main` waits on its event group only at start-up.
- The BLE stack calls the GAP handler from its own task. The handler gives the binary semaphore `ble_sem`, which is what the BLE task blocks on after every GAP command.
- `ESP_ERROR_CHECK`, `assert` and `esp_restart` reboot the chip, and nothing is persisted.

The hard behaviours are the following:
- the interleaving of a download with the advertiser's index;
- the unlocked read of the count;
- the completion handshake over `ble_sem`, including failed completions;
- decode failures inside the rotation;
- the exact bit layout of key, address and payload;
- the HTTP handler's static offset, which outlives a broken transfer;
- the WiFi retry counter, which is reset only by a new IP.

The full list, with source lines, is under `hazards` in `PROJECT.json`.

## 2. Modules

- **`Codec.tla`** is the tag codec, byte for byte.
  - Byte arrays are functions `0..n-1 -> 0..255`.
  - Masks and shifts are written arithmetically. For example, `x<<6 & 0xC0` is `(x*64)%256`, and `x | 0xC0` on `x%64` is `192 + x%64`.
  - `KeyFromAdvertisement` is the receiving side, which is not firmware code. It rebuilds the key from the address and the payload.
- **`CodecCheck.tla`** applies the codec to a record `bin` and states `CarriesKey`.
- **`MC_Codec.tla`** checks `Codec` against a reference written with the `Bitwise` operators.
  - The records (`CodecCheck`'s `Inputs`) are every pair of values of the two bytes that feed `key[0]` (`bin[5]`, `bin[35]`), set into a background of distinct bytes so that a misplaced copy shows, plus the all-zero and all-0xFF records (65538 records).
- **`Relay.tla`** models both tasks, the store, the GAP handler and the controller.
  - Data is abstracted. A record is a model value, and the codec is reduced to the classes the control flow tells apart:
    - `Malformed`: base64 rejected;
    - `Short`: decoded to fewer than 38 bytes;
    - otherwise, full;
    - `Zeroed`: the zero struct, whose empty string decodes to 0 bytes without error.
  - The server's answer is a JSON array of at most `NUM_TAGS` records, or `Garbage`.
  - `gap_q` holds the commands the controller has not completed yet, and `radio` is the controller's address, data and on/off state.
  - There is one action per step of each loop. The pairs `Issue`/`Await` are the GAP call and the `xSemaphoreTake` after it.
  - `GapComplete` and `GapCompleteFailed` are the controller finishing a command and the stack calling the handler.
  - `BleAssertFail` and `GapCallFails` are reboots (`Reboot` resets all RAM state).
  - `radio_failures` bounds the number of failed commands (`MaxRadioFailures`).
- **`Beacon.tla`** is the abstract specification of what the advertiser does to the air, taken from spec §4.4 and §7.
  - It has two variables, the address and the payload on the air, with `None` for a silent radio.
  - `GoOnAir` starts one record that decodes, with its own address and payload, from silence. `GoOff` silences the radio.
  - `Relay` maps onto it with `radio.addr`/`radio.data` while `radio.advertising`, and `None` otherwise. `BeaconRefined` is `Air!Spec`.
- **`MC_Relay.tla`** is the entry point for TLC. Each `.cfg` fixes the constants for one question.
- **`HttpClient.tla`** is the download path at the level of the byte buffer: `http_client_task`'s loop with `http_event_handler` and `json_read_array`.
  - Text is abstracted to tokens. `Open` and `Close` are `[` and `]`, a record stands for one tag object with its separator, `Junk` is text that is not JSON, and `NUL` is the zero byte. Records have equal length, the case in which two answers line up record by record.
  - `http_buffer` is `0..HTTP_BUFFER_SIZE -> tokens`, and `buffer_len` is the handler's static offset.
  - `body` and `sent` are the server's answer and how much of it has been handed to the handler.
  - The actions are the following:
    - `Perform`: the server picks an answer.
    - `ConnectFails`: an ERROR event that changes nothing.
    - `OnData`: copies `MIN(data_len, HTTP_BUFFER_SIZE - buffer_len)` tokens at the offset, for any chunk length.
    - `OnFinish`: resets the offset.
    - `TransferError`: ERROR mid-answer, with no reset.
    - `TransferDropped`: DISCONNECTED mid-answer, which resets.
    - `Parse`: `json_read_array` on the C string up to the first `NUL`, whatever perform returned.
  - `JsonReadArray` follows microjson:
    - no `[` writes nothing;
    - objects are written to their slots as they are parsed;
    - the count is set only when `]` follows;
    - text after `]` is ignored.
  - The mutex is not modelled here, since `Relay` covers it; the task holds it while it parses.
- **`Downloader.tla`** is the abstract specification of the download path, taken from spec §3 and §7. It has two variables, the store and a complete answer not yet stored. `Receive` takes an answer and `Install` replaces the store with it; failed polls are stutters. `HttpClient` maps onto it with `store <- the first airtag_count slots` and `answer <- the array's records`, defined only while a whole array has arrived and has not yet been parsed. `DownloaderRefined` is `Abs!Spec`.
- **`Wifi.tla`** is `wifi_event_handler` and the start-up in `app_main`.
  - The driver's events go through the default event loop's queue (`events`), and the handler takes them in order.
  - The actions are the following:
    - `StartWifi`: `esp_wifi_start`, which posts STA_START.
    - `OnStaStart`, `OnDisconnected`, `OnGotIp`: the handler's three branches.
    - `MainConnected` and `MainRestart`: the two outcomes of the wait at line 398.
  - The driver (`AttemptSucceeds`, `AttemptFails`, `LinkLost`) and the access point (`ApToggle`) are the environment.
- **`MC_HttpClient.tla`** and **`MC_Wifi.tla`** are their TLC entry points.
- **`RelayProofs.tla`**, **`RadioProofs.tla`**, **`HttpClientProofs.tla`**, **`DownloaderProofs.tla`**, **`WifiProofs.tla`** and **`CodecProofs.tla`** hold the TLAPS proofs.

## 3. Runs

Every Relay run has `NUM_TAGS = 2` and `Records = {r1, r2}`. Two slots are the least that lets a download shrink the list under the advertiser and lets a good and a bad record sit side by side. Downloads of 0, 1 and 2 records in any order are all possible.

| Run | Checks | Result | What it shows |
|---|---|---|---|
| `handshake` | `TypeOK`, `Handshake` | pass (44k states) | With a malformed record and one radio failure (so skips, reboots, failed completions and shrinking downloads all occur), every semaphore take consumes the completion of the command just issued, and no two commands are ever in flight. |
| `rotation` | `AdvertisedIsSelected`, `BeaconRefined`, and `StableStoreRotates` under `FairSpec` | pass (26k states) | With all records decodable and no radio errors, the beacon's address and data are both the selected tag's, and once the store stops changing every stored tag is advertised infinitely often. The controller implements `Beacon`: each beacon is stopped before the next tag's address is set, and only a stored record goes on the air. The failure actions are exercised by `handshake`. With one radio failure, as in `handshake`, TLC finds `BeaconRefined` violated, because a failed data command leaves the payload unset (or the previous tag's) when advertising starts. |
| `codec` | `CarriesKey`, `CodecMatchesReference` | pass (65538 states) | The codec equals the bitwise layout, and the address and payload together carry the whole key. |
| `index_bound` | `CycleIndexInRange` | **violation** | A download shrinks the list while `index = 1`, so the next turn fails `assert(index < airtag_count)` and the relay reboots (finding, `code_bug`). |
| `decode_stall` | `StableStoreRotates` | **violation** | A malformed record is retried forever, because the failure path does not advance `index`. Spec §4.4/§8 say it is skipped. |
| `short_key` | `FullKeyOnAir` | **violation** | A record that decodes short is advertised. Spec §8 says it is a `DecodeError`. |
| `status_ignored` | `AdvertisedIsSelected` | **violation** | A failed `set_rand_addr` still gives `ble_sem`, and the previous tag's address goes on the air. Spec §7 says that must not happen. |

The `HttpClient` runs all have `NUM_TAGS = 2` and `Records = {r1, r2}`, so answers hold 0, 1 or 2 records, and the chunk length is any value up to the rest of the answer.

| Run | Constants | Checks | Result | What it shows |
|---|---|---|---|---|
| `http_clean` | `HTTP_BUFFER_SIZE = 4`, no broken transfers | `DownloaderRefined` | pass (1121 states) | Every answer fits, whatever its chunking: error pages and failed connections leave the store as it is, and an array replaces it as a whole. |
| `http_bounds` | `HTTP_BUFFER_SIZE = 3`, 1 broken transfer | `TypeOK`, `Terminated` | pass (10k states) | A two-record array (4 tokens) does not fit, so truncation happens. The copies never reach `http_buffer[HTTP_BUFFER_SIZE]`. |
| `http_dropped` | `HTTP_BUFFER_SIZE = 4`, 1 broken transfer | `DownloaderRefined` | **violation** | After an ERROR mid-answer the offset is stale: the next full answer is written behind the `[`, `json_read_array` sees `[[r1…` and fails, and a complete answer is lost. After a DISCONNECTED mid-answer, the old tail can follow a shorter new array, or a cut-off array overwrites slots and keeps the old count. This is a finding (`spec_code_divergence`, spec §3 and §7). |
| `wifi_startup` | `WIFI_CONNECTION_RETRIES = 5` (ESP-IDF example default) | `TypeOK`, `StartupDecides` under `FairSpec` | pass | `app_main` never waits for ever: it runs the tasks or restarts. |
| `wifi_online` | `WIFI_CONNECTION_RETRIES = 2` | `StaysOnline` under `FairSpec` | **violation** | After start-up, `R` losses of the link in a row spend the retries. `STA_DISCONNECTED` then only sets `WIFI_FAIL_BIT`, which nobody waits on, so the station stays disconnected while the access point is up. This is a finding (`code_bug`). |

Each property of a passing run has a mutant in `PROJECT.json`, a plausible bug that TLC catches:
- the modulo dropped (`TypeOK`);
- a semaphore take dropped (`Handshake`, `AdvertisedIsSelected`);
- the index not advanced (`StableStoreRotates`);
- an off-by-one copy (`CodecMatchesReference`);
- the wrong bits of `key[0]` in the payload (`CarriesKey`);
- a non-record value taken for a tag object (`TypeOK` of `HttpClient`);
- the copy bounded by `sizeof(http_buffer)` (`Terminated`);
- FINISH without resetting the offset (`DownloaderRefined`);
- the copy loop of the parse stopping one element short, which puts the zeroed struct on the air (`BeaconRefined`);
- the retry test written `<=` (`TypeOK` of `Wifi`);
- FAIL never set (`StartupDecides`).

### Fairness

`FairSpec` assumes the following:
- weak fairness of each task: both run at priority 2 with time slicing;
- strong fairness of each task's mutex acquisition: the holder gives the mutex and then sleeps, so a waiter that is enabled again and again does get it;
- weak fairness of the GAP driver, which stands for spec §5's assumption that the controller always answers.

Reboots and failed downloads carry no fairness. Only safety is checked on `Spec`.

`Wifi`'s `FairSpec` assumes the following:
- weak fairness of the event loop task (`Handler`), of `app_main` and of the driver's `LinkLost`: each runs whenever it can;
- strong fairness of `AttemptSucceeds`: an access point that is up again and again is eventually joined;
- weak fairness of `ApToggle`: the access point does not stay down for good.

These assumptions are what makes `StaysOnline` a fair question. Even when the access point keeps coming back, the station stays offline, because no handler ever calls `esp_wifi_connect` again.

## 4. Proofs (TLAPS)

- `RelayProofs!TypeCorrect`: `Spec => []TypeOK`, for every `NUM_TAGS ≥ 1`, every record set and every failure bound. It rests on per-action lemmas. `TagArrayLen` gives the length bound that `HttpParse` needs.
- `RelayProofs!HandshakeHolds`: `Spec => []Handshake`. `Handshake` is not inductive on its own, because a step's effect on `gap_q` depends on its type. The inductive invariant is `IInv == TypeOK /\ Handshake`. The argument runs as follows:
  - a command is issued only from a non-waiting pc, where `Handshake` forces an empty queue and a taken semaphore (lemma `Quiet`);
  - a completion turns the single queued command into a given semaphore without moving the task (lemma `OneInFlight` pins the length to 1);
  - the task's take empties the semaphore;
  - a reboot resets all three.
- `RadioProofs!AdvertisedIsSelectedHolds`: if `MaxRadioFailures = 0`, then `Spec => []AdvertisedIsSelected` for every `NUM_TAGS` and record set. The `status_ignored` run shows that one reported failure breaks it. The inductive invariant `RInv` is `IInv` (types and handshake) together with `RadioInv`, which ties the controller to the task's place in its cycle:
  - the command in flight carries the selected record;
  - from the completion of the address (resp. data) command on, the controller's address (resp. data) is the selected record's;
  - advertising is on only between the completion of the start and that of the stop.

  The handshake is needed because a completion's effect depends on which wait the task is in. `Apply` is written with `IF` so that the SMT backend can expand it.
- `RadioProofs!BeaconRefinement`: if `MaxRadioFailures = 0`, then `Spec => BeaconRefined` for every `NUM_TAGS` and record set, including records that fail to decode. TLC checked the inductive invariant `BInv == RInv /\ SelInv` on the `handshake` and `rotation` constants, and on `handshake` without failures, before it was proved. `SelInv` adds what the selected record is:
  - the slots below `airtag_count` hold records, because `json_read_array` fills exactly the first `count` slots and a reboot zeroes the count;
  - from `BleSelect` to the end of the cycle, `selected` is a record that decoded.

  In the step proof (`BeaconStep`), only a completion changes what is on the air. An address or data completion comes while the radio is silent (`RadioInv`), so it is a stutter. A start completion comes while the radio is silent, with the address and data already the selected record's, so it is `GoOnAir`. A stop completion is `GoOff`. A failed assert reboots from `select`, where the radio is silent.
- `HttpClientProofs!TerminatedHolds`: `Spec => []Terminated` for every `HTTP_BUFFER_SIZE`, chunking and fault bound. The inductive invariant `BufInv` adds the buffer's domain and that the answer is a sequence of tokens, which makes `data_len` a natural number. Lemma `CopyInBounds` is the arithmetic of one copy: `MIN(d, SIZE - len)` keeps `len + copy_len <= SIZE`, so index `SIZE` is never written.
- `HttpClientProofs!TypeCorrect`: `Spec => []TypeOK` for `HttpClient`, with the inductive invariant `TInv == TypeOK /\ BufInv`. The hard part is `Parse`. Lemma `StrLenSpec` says what the C string is: the buffer up to its first NUL, which exists because `BufInv` keeps `http_buffer[SIZE] = NUL`. Lemma `LeadingSpec` says what `Leading` picks: the number of records after the `[`, capped at `maxlen`. Both are `CHOOSE`s, and their proofs need a least element of a set of naturals. Lemma `NatMin` gets it from `WellFoundedInduction`'s `WFMin` for `<` on `Nat`, since the library's `SmallestNatural` takes an operator parameter that the provers cannot instantiate.
- `DownloaderProofs!DownloaderRefinement`: under `RefHyp` (no broken transfers, and `HTTP_BUFFER_SIZE >= NUM_TAGS + 2`), `Spec => DownloaderRefined`, for every `NUM_TAGS` and buffer size. Both hypotheses are needed. `http_dropped` shows that a broken transfer breaks the refinement, and with `SIZE = NUM_TAGS + 1` TLC finds a truncated array that never replaces the store. The inductive invariant is `DInv == TInv /\ RefInv`. TLC checked it on the clean constants and on `NUM_TAGS = 3` with `SIZE` 5 and 6 before it was proved. `RefInv` says the following:
  - outside a transfer the offset is 0;
  - during a transfer, `buffer_len = sent` and the buffer holds the first `sent` tokens of the answer;
  - when a transfer has finished, the whole answer is a prefix of the buffer;
  - otherwise the buffer is `Settled`: either it does not start with `[`, or it starts with an array answer whose records are the current store.

  The last clause is needed because a failed connection leaves the previous answer in the buffer, and `json_read_array` parses it again. Lemma `ParseArray` computes `json_read_array` on a buffer that starts with an array answer. `ParseNoArray` covers a buffer that does not start with `[`. From these, `ParseStore` and `ParseFacts` give the abstract step of `Parse`: install when an answer is at hand, a stutter otherwise. `OnDataRef` shows that, with the hypothesis on the size, every chunk is copied in full. `OnFinish` of an array is `Receive`, and every other step is a stutter.
- `WifiProofs!TypeCorrect`: `FairSpec => []TypeOK` for every `WIFI_CONNECTION_RETRIES`. `TypeOK` is inductive. The retry count grows only under `retry_num < WIFI_CONNECTION_RETRIES`, and it is reset on `GOT_IP` and on restart.
- `CodecProofs!AdvertisementCarriesEveryKey`: for every 28-byte key, the receiver rebuilds exactly that key from `key_to_addr` and `key_to_payload`. Byte 0 is the one split between the two, and lemma `SplitByte` handles it.
- `CodecProofs!CarriesKeyHolds`: `Spec => []CarriesKey`. Lemma `KeyIsBytes` shows that `airtag_to_key` turns every 38-byte record into 28 bytes, since `key[0]` is the sum of two disjoint bit ranges. So the property that the `codec` run checks on 65538 records holds for every record.

Only TLC checks the following:
- liveness (`StableStoreRotates`, `StartupDecides`), since the prover does not handle fairness or ENABLED;
- the equality with the `Bitwise` reference (`CodecMatchesReference`), since the reference is written with `Bitwise`, which cannot be used in a module with theorems. `Codec`'s arithmetic forms are exactly what that run compares with the bit operations.

## 5. Not modelled, and the plan

Not modelled:
- mbedtls base64 and mjson: these are external libraries. Relay represents them by their outcome classes, and HttpClient represents mjson's array interface.
- `airtag_to_str` and the logging: they hold no state.
- the BLE controller's internals beyond applying commands in order.
- `app_main`'s BLE and semaphore set-up (412-432), and the `esp_http_client_init` failure (241-243). These are reboots before any task has run, and `Wifi` folds the set-up into `MainConnected`.
- the abort in `wifi_event_handler` (117-121): it is unreachable, because the group is created before the handler is registered.

Plan:
1. Compose `HttpClient` with `Relay`, with `Parse` in place of `HttpParse`, so that the half-overwritten list meets the advertiser's index.
