----------------------------- MODULE AbootProofs -----------------------------
(***************************************************************************)
(* Theorems about the boot loader: fastboot on the USB driver, modules Udc  *)
(* and Fastboot, for any control requests and commands, any number of bus   *)
(* resets and any length of a download; and the boot decisions and the      *)
(* recovery message of module Boot, for any number of power cuts, of        *)
(* failing flash calls and of looks at the keys.                            *)
(***************************************************************************)
EXTENDS Fastboot, Boot, TLAPS

-----------------------------------------------------------------------------
(* The inductive invariant                                                 *)

TypesInv == UdcTypeOK /\ FastbootTypeOK

\* The endpoints' requests: a transfer is in one place on its way from the
\* controller to the handler, and what is not handled yet has ended.
HandlerAtRest == isr # "complete" => todo = {}

RequestsApart == \A e \in Epts : ept_req[e] \in {"none", ItemOf(e)}

InOnePlace == \A e \in Bulk :
    /\ e \in primed => e \notin endptcomplete \cup todo
    /\ e \in endptcomplete => e \notin todo

CompletedEnded == \A e \in Bulk : e \in endptcomplete \cup todo => info["req"] # "active"

WaitIsOwed == pc = "wait" /\ ~txn_done => ept_req[EndpointOf(call)] = "req"

EndpointsInv == /\ HandlerAtRest /\ RequestsApart /\ InOnePlace /\ CompletedEnded
                /\ BulkOwed /\ TxnMatches /\ WaitIsOwed

\* The host has sent nothing else while a SETUP packet waits, and nothing but
\* commands comes after a reset or a new configuration.
HostWaits ==
    /\ setupstat # "none" => ~stalled /\ (stage # "idle" \/ "URI" \in usbsts)
    /\ "URI" \in usbsts \/ setupstat \in {"config", "unconfig"} => dialog = "command"

\* The thread is inside usb_read or usb_write.
Calling == {"check", "queue", "wait", "blocked_txn", "done"}

\* The read of the thread has ended well, whether the handler knows it or not.
Arrived == \/ "out" \in endptcomplete \cup todo /\ info["req"] = "ok"
           \/ (txn_done \/ pc = "done") /\ txn_status = 0

ReadIsFresh == Arrived /\ call = "command" => fresh

\* From the DATA answer to the last buffer, what arrived and what is left make
\* the image.  A transfer that arrived is of the image, or a command of a host
\* that does not send the image any more.
DataBegins ==
    call = "DATA" /\ pc \in Calling => left = asked /\ memory = 0 /\ download_size = 0

ImageGrows ==
    call = "image" /\ pc \in Calling =>
        /\ left >= 1 \/ pc = "check"
        /\ left <= asked /\ WholeBuffers(asked - left)
        /\ pc \in {"check", "queue"} \/ "out" \in primed => memory = asked - left
        /\ Arrived => \/ memory = (asked - left) + actual /\ actual = Xfer
                      \/ /\ memory = asked - left /\ dialog # "image"
                         /\ actual \in CommandLengths /\ actual <= left

\* The host sends an image to a thread that reads it, or to nobody until it
\* configures the device again.
ImageExpected ==
    dialog = "image" =>
        /\ download_size = 0
        /\ \/ call \in {"DATA", "image"} /\ pc \in Calling /\ memory < asked
           \/ Failed /\ pc \in {"loop", "online", "blocked_online"}

DownloadInv == ReadIsFresh /\ DataBegins /\ ImageGrows /\ ImageExpected /\ NoPartialDownload

FbInv == TypesInv /\ EndpointsInv /\ HostWaits /\ DownloadInv

LEMMA NoBuffers == WholeBuffers(0)
BY FastbootAssumption DEF WholeBuffers

LEMMA OneBufferMore == ASSUME NEW n \in Nat, WholeBuffers(n) PROVE WholeBuffers(n + BUF_SIZE)
<1>1. BUF_SIZE \in Nat /\ BUF_SIZE >= 1
  BY FastbootAssumption
<1>2. PICK k \in 0 .. n : n = k * BUF_SIZE
  BY DEF WholeBuffers
<1>3. n + BUF_SIZE = (k + 1) * BUF_SIZE /\ k + 1 \in 0 .. n + BUF_SIZE
  BY <1>1, <1>2
<1> QED BY <1>3 DEF WholeBuffers

LEMMA XferBounds == ASSUME left \in Nat PROVE Xfer \in 0 .. BUF_SIZE /\ Xfer <= left
BY FastbootAssumption DEF Xfer

LEMMA InitFbInv == Init => FbInv
<1> SUFFICES ASSUME Init PROVE FbInv
  OBVIOUS
<1>1. UdcTypeOK
  <2>1. resets \in 0 .. MaxResets /\ config_value \in 0 .. 1
    BY UdcAssumption DEF Init, UdcInit
  <2>2. stalled \in BOOLEAN
    BY DEF Init, UdcInit
  <2>3. bulk_enabled \subseteq Bulk /\ (config_value = 1 => bulk_enabled = Bulk)
    BY DEF Init, UdcInit
  <2> QED BY <2>1, <2>2, <2>3 DEF Init, UdcInit, UdcTypeOK, Epts, Bulk, Requests
<1>2. FastbootTypeOK
  <2>1. /\ asked \in Nat /\ left \in Nat /\ memory \in Nat /\ download_size \in Nat
        /\ txn_status \in {0, -1} /\ actual \in 0 .. BUF_SIZE
    BY FastbootAssumption DEF Init
  <2>2. /\ usb_online \in BOOLEAN /\ txn_done \in BOOLEAN
        /\ fresh \in BOOLEAN /\ running \in BOOLEAN
    BY DEF Init
  <2> QED BY <2>1, <2>2 DEF Init, FastbootTypeOK
<1>3. EndpointsInv
  BY DEF Init, UdcInit, EndpointsInv, HandlerAtRest, RequestsApart, InOnePlace, CompletedEnded,
         BulkOwed, TxnMatches, WaitIsOwed, Epts, Bulk, ItemOf
<1>4. HostWaits
  BY DEF Init, UdcInit, HostWaits
<1>5. DownloadInv
  BY DEF Init, UdcInit, DownloadInv, ReadIsFresh, DataBegins, ImageGrows, Xfer, ImageExpected,
         NoPartialDownload, Arrived, Calling
<1> QED BY <1>1, <1>2, <1>3, <1>4, <1>5 DEF FbInv, TypesInv

\* A request that the handler finds completed has ended, so it does not wait.
LEMMA FbInvUsbInv == FbInv => UsbInv
BY DEF FbInv, TypesInv, EndpointsInv, CompletedEnded, RequestsApart, UsbInv, BulkWaitsForTheDone,
       Waits, UdcTypeOK, Bulk, Epts, ItemOf

-----------------------------------------------------------------------------
(* The thread                                                              *)

\* While the thread does not wait, neither the controller nor the handler has
\* anything of its request.
LEMMA NothingOnItsWay ==
    ASSUME EndpointsInv, pc \notin {"wait", "blocked_txn"}
    PROVE  /\ \A e \in Bulk : ept_req[e] = "none" /\ e \notin primed \cup endptcomplete \cup todo
           /\ ~txn_done
           /\ Arrived => pc = "done" /\ txn_status = 0
BY DEF EndpointsInv, RequestsApart, BulkOwed, TxnMatches, Arrived, Bulk, Epts, ItemOf

\* Steps of the thread between two transfers: they leave the driver alone and do
\* not touch the event.
LEMMA Between ==
    ASSUME FbInv, UNCHANGED <<udcVars, dialog, txn_done, txn_status, actual>>,
           pc \notin {"wait", "blocked_txn"}, pc' \notin {"wait", "blocked_txn", "done"}
    PROVE  EndpointsInv' /\ HostWaits' /\ UdcTypeOK' /\ ~Arrived' /\ "out" \notin primed'
<1> USE DEF udcVars, driverVars, controllerVars, hostVars
<1>1. UdcTypeOK'
  BY DEF FbInv, TypesInv, UdcTypeOK
<1>2. HostWaits'
  BY DEF FbInv, HostWaits
<1>3. /\ \A e \in Bulk : ept_req'[e] = "none" /\ e \notin primed' \cup endptcomplete' \cup todo'
      /\ ~txn_done'
  BY NothingOnItsWay DEF FbInv
<1>4. EndpointsInv'
  BY <1>3 DEF FbInv, EndpointsInv, HandlerAtRest, RequestsApart, InOnePlace, CompletedEnded,
              BulkOwed, TxnMatches, WaitIsOwed
<1>5. ~Arrived' /\ "out" \notin primed'
  BY <1>3 DEF Arrived, Bulk
<1> QED BY <1>1, <1>2, <1>4, <1>5

LEMMA WaitOnlineFbInv == FbInv /\ wait_online => FbInv'
<1> SUFFICES ASSUME FbInv, wait_online PROVE FbInv'
  OBVIOUS
<1>1. /\ pc = "online" /\ pc' \in {"loop", "blocked_online"} /\ usb_online' \in BOOLEAN
      /\ UNCHANGED <<udcVars, fastboot_state, txn_done, txn_status, actual, call, cmd, asked, left,
                     download_size, running, buffer, fresh, memory, dialog>>
  BY DEF wait_online, Runs
<1>2. EndpointsInv' /\ HostWaits' /\ UdcTypeOK' /\ ~Arrived' /\ "out" \notin primed'
  BY <1>1, Between
<1>3. FastbootTypeOK'
  BY <1>1 DEF FbInv, TypesInv, FastbootTypeOK
<1>4. DownloadInv'
  BY <1>1, <1>2 DEF FbInv, DownloadInv, ReadIsFresh, DataBegins, ImageGrows, Xfer, ImageExpected,
                    NoPartialDownload, Failed, Calling
<1> QED BY <1>2, <1>3, <1>4 DEF FbInv, TypesInv

LEMMA CommandLoopFbInv == FbInv /\ command_loop => FbInv'
<1> SUFFICES ASSUME FbInv, command_loop PROVE FbInv'
  OBVIOUS
<1>1. /\ pc = "loop"
      /\ \/ Failed /\ pc' = "online" /\ call' = "none"
         \/ ~Failed /\ pc' = "check" /\ call' = "command"
      /\ UNCHANGED <<udcVars, fastboot_state, usb_online, txn_done, txn_status, actual,
                     download_size, running, buffer, fresh, memory, dialog>>
      /\ asked' = 0 /\ left' = 0 /\ cmd' = "none"
  BY DEF command_loop, Runs
<1>2. EndpointsInv' /\ HostWaits' /\ UdcTypeOK' /\ ~Arrived' /\ "out" \notin primed'
  BY <1>1, Between
<1>3. FastbootTypeOK'
  BY <1>1 DEF FbInv, TypesInv, FastbootTypeOK, Reads
<1>4. DownloadInv'
  BY <1>1, <1>2 DEF FbInv, DownloadInv, ReadIsFresh, DataBegins, ImageGrows, Xfer, ImageExpected,
                    NoPartialDownload, Failed, Calling
<1> QED BY <1>2, <1>3, <1>4 DEF FbInv, TypesInv

LEMMA UsbCheckFbInv == FbInv /\ usb_check => FbInv'
<1> SUFFICES ASSUME FbInv, usb_check PROVE FbInv'
  OBVIOUS
<1>1. /\ pc = "check"
      /\ \/ fastboot_state' = "ERROR" /\ pc' \in {"online", "loop"}
         \/ pc' = "queue" /\ (call = "image" => left > 0) /\ UNCHANGED fastboot_state
      /\ UNCHANGED <<udcVars, usb_online, txn_done, txn_status, actual, call, cmd, asked, left,
                     download_size, running, buffer, fresh, memory, dialog>>
  BY DEF usb_check, Runs, AfterError
<1>2. EndpointsInv' /\ HostWaits' /\ UdcTypeOK' /\ ~Arrived' /\ "out" \notin primed'
  BY <1>1, Between
<1>3. FastbootTypeOK'
  BY <1>1 DEF FbInv, TypesInv, FastbootTypeOK
<1>4. DownloadInv'
  <2>1. left \in Nat
    BY DEF FbInv, TypesInv, FastbootTypeOK
  <2> QED BY <1>1, <1>2, <2>1
          DEF FbInv, DownloadInv, ReadIsFresh, DataBegins, ImageGrows, Xfer, ImageExpected,
              NoPartialDownload, Failed, Calling
<1> QED BY <1>2, <1>3, <1>4 DEF FbInv, TypesInv

LEMMA TransactionFailedFbInv == FbInv /\ transaction_failed => FbInv'
<1> SUFFICES ASSUME FbInv, transaction_failed PROVE FbInv'
  OBVIOUS
<1>1. /\ pc = "done" /\ fastboot_state' = "ERROR" /\ pc' \in {"online", "loop"}
      /\ UNCHANGED <<udcVars, usb_online, txn_done, txn_status, actual, call, cmd, asked, left,
                     download_size, running, buffer, fresh, memory, dialog>>
  BY DEF transaction_failed, Runs, AfterError
<1>2. EndpointsInv' /\ HostWaits' /\ UdcTypeOK' /\ ~Arrived' /\ "out" \notin primed'
  BY <1>1, Between
<1>3. FastbootTypeOK'
  BY <1>1 DEF FbInv, TypesInv, FastbootTypeOK
<1>4. DownloadInv'
  BY <1>1, <1>2 DEF FbInv, DownloadInv, ReadIsFresh, DataBegins, ImageGrows, Xfer, ImageExpected,
                    NoPartialDownload, Failed, Calling
<1> QED BY <1>2, <1>3, <1>4 DEF FbInv, TypesInv

LEMMA CommandReadFbInv == FbInv /\ command_read => FbInv'
<1> SUFFICES ASSUME FbInv, command_read PROVE FbInv'
  OBVIOUS
<1>1. /\ pc = "done" /\ call = "command" /\ fresh' = FALSE
      /\ \/ fastboot_state' = "COMPLETE" /\ call' = "FAIL" /\ pc' = "check" /\ cmd' = "none"
         \/ /\ fastboot_state' = "COMMAND" /\ cmd' = buffer /\ pc' = "handler"
            /\ UNCHANGED call
      /\ UNCHANGED <<udcVars, usb_online, txn_done, txn_status, actual, asked, left, download_size,
                     running, buffer, memory, dialog>>
  BY DEF command_read, Runs, Ack
<1>2. EndpointsInv' /\ HostWaits' /\ UdcTypeOK' /\ ~Arrived' /\ "out" \notin primed'
  BY <1>1, Between
<1>3. FastbootTypeOK'
  BY <1>1 DEF FbInv, TypesInv, FastbootTypeOK, Reads, Answers
<1>4. DownloadInv'
  BY <1>1, <1>2 DEF FbInv, DownloadInv, ReadIsFresh, DataBegins, ImageGrows, Xfer, ImageExpected,
                    NoPartialDownload, Failed, Calling
<1> QED BY <1>2, <1>3, <1>4 DEF FbInv, TypesInv

LEMMA HandlerAcksFbInv == FbInv /\ handler_acks => FbInv'
<1> SUFFICES ASSUME FbInv, handler_acks PROVE FbInv'
  OBVIOUS
<1>1. /\ pc = "handler" /\ fastboot_state' = "COMPLETE" /\ call' \in {"OKAY", "FAIL"}
      /\ pc' = "check"
      /\ UNCHANGED <<udcVars, usb_online, txn_done, txn_status, actual, cmd, asked, left,
                     download_size, running, buffer, fresh, memory, dialog>>
  BY DEF handler_acks, Runs, Ack
<1>2. EndpointsInv' /\ HostWaits' /\ UdcTypeOK' /\ ~Arrived' /\ "out" \notin primed'
  BY <1>1, Between
<1>3. FastbootTypeOK'
  BY <1>1 DEF FbInv, TypesInv, FastbootTypeOK, Reads, Answers
<1>4. DownloadInv'
  BY <1>1, <1>2 DEF FbInv, DownloadInv, ReadIsFresh, DataBegins, ImageGrows, Xfer, ImageExpected,
                    NoPartialDownload, Failed, Calling
<1> QED BY <1>2, <1>3, <1>4 DEF FbInv, TypesInv

LEMMA CmdDownloadFbInv == FbInv /\ cmd_download => FbInv'
<1> SUFFICES ASSUME FbInv, cmd_download PROVE FbInv'
  OBVIOUS
<1>1. /\ pc = "handler" /\ download_size' = 0 /\ memory' = 0 /\ pc' = "check"
      /\ \/ fastboot_state' = "COMPLETE" /\ call' = "FAIL" /\ UNCHANGED <<asked, left>>
         \/ call' = "DATA" /\ asked' \in Nat /\ left' = asked' /\ UNCHANGED fastboot_state
      /\ UNCHANGED <<udcVars, usb_online, txn_done, txn_status, actual, cmd, running, buffer,
                     fresh, dialog>>
  BY FastbootAssumption DEF cmd_download, Runs, Ack
<1>2. EndpointsInv' /\ HostWaits' /\ UdcTypeOK' /\ ~Arrived' /\ "out" \notin primed'
  BY <1>1, Between
<1>3. FastbootTypeOK'
  BY <1>1, FastbootAssumption DEF FbInv, TypesInv, FastbootTypeOK, Reads, Answers
<1>4. DownloadInv'
  BY <1>1, <1>2 DEF FbInv, DownloadInv, ReadIsFresh, DataBegins, ImageGrows, Xfer, ImageExpected,
                    NoPartialDownload, Failed, Calling
<1> QED BY <1>2, <1>3, <1>4 DEF FbInv, TypesInv

LEMMA DataSentFbInv == FbInv /\ data_sent => FbInv'
<1> SUFFICES ASSUME FbInv, data_sent PROVE FbInv'
  OBVIOUS
<1>1. /\ pc = "done" /\ call = "DATA" /\ call' = "image" /\ pc' = "check"
      /\ UNCHANGED <<udcVars, fastboot_state, usb_online, txn_done, txn_status, actual, cmd, asked, left,
                     download_size, running, buffer, fresh, memory, dialog>>
  BY DEF data_sent, Runs
<1>2. EndpointsInv' /\ HostWaits' /\ UdcTypeOK' /\ ~Arrived' /\ "out" \notin primed'
  BY <1>1, Between
<1>3. FastbootTypeOK'
  BY <1>1 DEF FbInv, TypesInv, FastbootTypeOK, Reads, Answers
<1>4. DownloadInv'
  <2>1. left = asked /\ memory = 0 /\ asked \in Nat
    BY <1>1 DEF FbInv, TypesInv, FastbootTypeOK, DownloadInv, DataBegins, Calling
  <2>2. WholeBuffers(asked - left)'
    BY <1>1, <2>1, NoBuffers
  <2> QED BY <1>1, <1>2, <2>1, <2>2
          DEF FbInv, DownloadInv, ReadIsFresh, DataBegins, ImageGrows, Xfer, ImageExpected,
              NoPartialDownload, Failed, Calling
<1> QED BY <1>2, <1>3, <1>4 DEF FbInv, TypesInv

LEMMA EmptyDownloadFbInv == FbInv /\ empty_download => FbInv'
<1> SUFFICES ASSUME FbInv, empty_download PROVE FbInv'
  OBVIOUS
<1>1. /\ pc = "check" /\ call = "image" /\ left = 0 /\ download_size' = asked
      /\ fastboot_state' = "COMPLETE" /\ call' = "OKAY" /\ pc' = "check"
      /\ UNCHANGED <<udcVars, usb_online, txn_done, txn_status, actual, cmd, asked, left,
                     running, buffer, fresh, memory, dialog>>
  BY DEF empty_download, Runs, Ack
<1>2. EndpointsInv' /\ HostWaits' /\ UdcTypeOK' /\ ~Arrived' /\ "out" \notin primed'
  BY <1>1, Between
<1>3. FastbootTypeOK'
  BY <1>1 DEF FbInv, TypesInv, FastbootTypeOK, Reads, Answers
<1>4. memory = asked /\ asked \in Nat /\ dialog # "image"
  BY <1>1 DEF FbInv, TypesInv, FastbootTypeOK, DownloadInv, ImageGrows, Xfer, ImageExpected, Calling
<1>5. DownloadInv'
  BY <1>1, <1>2, <1>4 DEF FbInv, DownloadInv, ReadIsFresh, DataBegins, ImageGrows, Xfer, ImageExpected,
                    NoPartialDownload, Failed, Calling
<1> QED BY <1>2, <1>3, <1>5 DEF FbInv, TypesInv

\* A whole buffer cannot be a command, so what goes on is the image; and what ends
\* the download is its remainder, or a command as long as that.
LEMMA ImageReadFbInv == FbInv /\ image_read => FbInv'
<1> SUFFICES ASSUME FbInv, image_read PROVE FbInv'
  OBVIOUS
<1>1. /\ pc = "done" /\ txn_status >= 0 /\ call = "image" /\ left' = left - actual
      /\ \/ /\ left > Xfer /\ actual = Xfer /\ pc' = "queue"
            /\ UNCHANGED <<fastboot_state, call, download_size>>
         \/ /\ actual # Xfer /\ fastboot_state' = "ERROR" /\ pc' = "loop"
            /\ UNCHANGED <<call, download_size>>
         \/ /\ left = Xfer /\ actual = Xfer /\ download_size' = asked
            /\ fastboot_state' = "COMPLETE" /\ call' = "OKAY" /\ pc' = "check"
      /\ UNCHANGED <<udcVars, usb_online, txn_done, txn_status, actual, cmd, asked, running,
                     buffer, fresh, memory, dialog>>
  BY DEF image_read, Runs, Ack
<1>2. EndpointsInv' /\ HostWaits' /\ UdcTypeOK' /\ ~Arrived' /\ "out" \notin primed'
  BY <1>1, Between
<1>3. /\ left \in Nat /\ asked \in Nat /\ memory \in Nat /\ download_size \in Nat
      /\ actual \in 0 .. BUF_SIZE /\ txn_status = 0
      /\ BUF_SIZE \in Nat /\ CommandLengths \subseteq 1 .. BUF_SIZE - 1
      /\ Xfer \in 0 .. BUF_SIZE /\ Xfer <= left
  BY <1>1, FastbootAssumption, XferBounds DEF FbInv, TypesInv, FastbootTypeOK
<1>4. /\ left >= 1 /\ left <= asked /\ WholeBuffers(asked - left)
      /\ \/ memory = (asked - left) + actual /\ actual = Xfer
         \/ /\ memory = asked - left /\ dialog # "image"
            /\ actual \in CommandLengths /\ actual <= left
  BY <1>1, <1>3 DEF FbInv, DownloadInv, ImageGrows, Calling, Arrived
<1>5. left' \in Nat
  BY <1>1, <1>3, <1>4
<1>6. CASE left > Xfer /\ actual = Xfer /\ pc' = "queue"
  <2>1. Xfer = BUF_SIZE /\ actual = BUF_SIZE /\ actual \notin CommandLengths
    BY <1>3, <1>6 DEF Xfer
  <2>2. /\ memory = asked - left' /\ left' >= 1 /\ left' <= asked /\ left' \in Nat
        /\ asked - left' = (asked - left) + BUF_SIZE /\ asked - left \in Nat
    BY <1>1, <1>3, <1>4, <1>6, <2>1
  <2>3. WholeBuffers(asked - left)'
    BY <1>1, <1>4, <2>2, OneBufferMore
  <2>4. FastbootTypeOK'
    BY <1>1, <1>3, <1>6, <2>2 DEF FbInv, TypesInv, FastbootTypeOK, Reads, Answers
  <2>5. DownloadInv'
    BY <1>1, <1>2, <1>3, <1>6, <2>2, <2>3
       DEF FbInv, DownloadInv, ReadIsFresh, DataBegins, ImageGrows, Xfer, ImageExpected,
           NoPartialDownload, Failed, Calling
  <2> QED BY <1>2, <2>4, <2>5 DEF FbInv, TypesInv
<1>7. CASE actual # Xfer /\ fastboot_state' = "ERROR" /\ pc' = "loop"
  <2>1. UNCHANGED <<call, download_size>>
    BY <1>1, <1>3, <1>7
  <2>2. FastbootTypeOK'
    BY <1>1, <1>3, <1>5, <1>7, <2>1 DEF FbInv, TypesInv, FastbootTypeOK, Reads, Answers
  <2>3. DownloadInv'
    BY <1>1, <1>2, <1>7, <2>1
       DEF FbInv, DownloadInv, ReadIsFresh, DataBegins, ImageGrows, Xfer, ImageExpected,
           NoPartialDownload, Failed, Calling
  <2> QED BY <1>2, <2>2, <2>3 DEF FbInv, TypesInv
<1>8. CASE left = Xfer /\ actual = Xfer /\ download_size' = asked
  <2>1. fastboot_state' = "COMPLETE" /\ call' = "OKAY" /\ pc' = "check" /\ left' = 0
    BY <1>1, <1>3, <1>4, <1>8
  <2>2. FastbootTypeOK'
    BY <1>1, <1>3, <1>8, <2>1 DEF FbInv, TypesInv, FastbootTypeOK, Reads, Answers
  <2>3. NoPartialDownload'
    <3>1. \/ memory' = asked
          \/ memory' = asked - left /\ asked - memory' \in CommandLengths
      BY <1>1, <1>3, <1>4, <1>8
    <3> QED BY <1>4, <1>8, <3>1 DEF NoPartialDownload
  <2>4. dialog # "image"
    BY <1>1, <1>3, <1>4, <1>8 DEF FbInv, DownloadInv, ImageExpected
  <2>5. DownloadInv'
    BY <1>1, <1>2, <2>1, <2>3, <2>4
       DEF FbInv, DownloadInv, ReadIsFresh, DataBegins, ImageGrows, Xfer, ImageExpected, Failed, Calling
  <2> QED BY <1>2, <2>2, <2>5 DEF FbInv, TypesInv
<1> QED BY <1>1, <1>6, <1>7, <1>8

LEMMA AnswerSentFbInv == FbInv /\ answer_sent => FbInv'
<1> SUFFICES ASSUME FbInv, answer_sent PROVE FbInv'
  OBVIOUS
<1>1. /\ pc = "done" /\ call \in {"OKAY", "FAIL"} /\ pc' \in {"boot", "loop"}
      /\ UNCHANGED <<udcVars, fastboot_state, usb_online, txn_done, txn_status, actual, call, cmd,
                     asked, left, download_size, running, buffer, fresh, memory, dialog>>
  BY DEF answer_sent, Runs
<1>2. EndpointsInv' /\ HostWaits' /\ UdcTypeOK' /\ ~Arrived' /\ "out" \notin primed'
  BY <1>1, Between
<1>3. FastbootTypeOK'
  BY <1>1 DEF FbInv, TypesInv, FastbootTypeOK
<1>4. DownloadInv'
  BY <1>1, <1>2 DEF FbInv, DownloadInv, ReadIsFresh, DataBegins, ImageGrows, Xfer, ImageExpected,
                    NoPartialDownload, Failed, Calling
<1> QED BY <1>2, <1>3, <1>4 DEF FbInv, TypesInv

LEMMA BootFromFlashFbInv == FbInv /\ boot_from_flash => FbInv'
<1> SUFFICES ASSUME FbInv, boot_from_flash PROVE FbInv'
  OBVIOUS
<1>1. /\ pc = "boot" /\ running' \in BOOLEAN /\ cmd' = "none" /\ pc' \in {"booted", "loop"}
      /\ UNCHANGED <<udcVars, fastboot_state, usb_online, txn_done, txn_status, actual, call,
                     asked, left, download_size, buffer, fresh, memory, dialog>>
  BY DEF boot_from_flash, Runs
<1>2. EndpointsInv' /\ HostWaits' /\ UdcTypeOK' /\ ~Arrived' /\ "out" \notin primed'
  BY <1>1, Between
<1>3. FastbootTypeOK'
  BY <1>1 DEF FbInv, TypesInv, FastbootTypeOK
<1>4. DownloadInv'
  BY <1>1, <1>2 DEF FbInv, DownloadInv, ReadIsFresh, DataBegins, ImageGrows, Xfer, ImageExpected,
                    NoPartialDownload, Failed, Calling
<1> QED BY <1>2, <1>3, <1>4 DEF FbInv, TypesInv

LEMMA UsbQueueFbInv == FbInv /\ usb_queue => FbInv'
<1> SUFFICES ASSUME FbInv, usb_queue PROVE FbInv'
  OBVIOUS
<1> DEFINE q == EndpointOf(call)
<1>1. /\ pc = "queue" /\ pc' = "wait" /\ isr = "none"
      /\ ept_req' = [ept_req EXCEPT ![q] = "req"] /\ info' = [info EXCEPT !["req"] = "active"]
      /\ primed' = primed \cup {q}
      /\ UNCHANGED <<ep0_complete, config_value, isr, todo, usbsts, setupstat, endptcomplete,
                     bulk_enabled, stalled, stage, resets>>
      /\ UNCHANGED <<fastboot_state, usb_online, txn_done, txn_status, call, cmd, asked, left,
                     download_size, running, buffer, fresh, memory, dialog>>
      /\ actual' = 0 /\ q \in Bulk /\ (q = "out" <=> call \in {"command", "image"})
  BY DEF usb_queue, Runs, udc_request_queue, Queued, EndpointOf, ItemOf, Bulk, Reads, hostVars
<1>2. /\ \A e \in Bulk : ept_req[e] = "none" /\ e \notin primed \cup endptcomplete \cup todo
      /\ ~txn_done
  BY <1>1, NothingOnItsWay DEF FbInv
<1>3. /\ ept_req \in [Epts -> Requests \cup {"none"}]
      /\ info \in [Requests -> {"free", "active", "ok", "halted"}]
      /\ primed \subseteq Epts
  BY DEF FbInv, TypesInv, UdcTypeOK
<1>4. /\ ept_req' \in [Epts -> Requests \cup {"none"}]
      /\ info' \in [Requests -> {"free", "active", "ok", "halted"}]
      /\ primed' \subseteq Epts
  BY <1>1, <1>3 DEF Epts, Requests
<1>5. UdcTypeOK' /\ FastbootTypeOK'
  BY <1>1, <1>4, FastbootAssumption DEF FbInv, TypesInv, UdcTypeOK, FastbootTypeOK
<1>6. ept_req'[q] = "req" /\ \A e \in Epts \ {q} : ept_req'[e] = ept_req[e]
  BY <1>1, <1>3 DEF Epts
<1>7. EndpointOf(call)' = q
  BY <1>1 DEF EndpointOf
<1>8. EndpointsInv'
  BY <1>1, <1>2, <1>6, <1>7
     DEF FbInv, EndpointsInv, HandlerAtRest, RequestsApart, InOnePlace, CompletedEnded,
         BulkOwed, TxnMatches, WaitIsOwed, Epts, Bulk, ItemOf
<1>9. HostWaits'
  BY <1>1 DEF FbInv, HostWaits
<1>10. DownloadInv'
  BY <1>1, <1>2 DEF FbInv, DownloadInv, ReadIsFresh, DataBegins, ImageGrows, Xfer, ImageExpected,
                    NoPartialDownload, Failed, Calling, Arrived, Bulk
<1> QED BY <1>5, <1>8, <1>9, <1>10 DEF FbInv, TypesInv

LEMMA UsbWaitFbInv == FbInv /\ usb_wait => FbInv'
<1> SUFFICES ASSUME FbInv, usb_wait PROVE FbInv'
  OBVIOUS
<1>1. /\ pc = "wait" /\ txn_done' = FALSE
      /\ \/ txn_done /\ pc' = "done"
         \/ ~txn_done /\ pc' = "blocked_txn"
      /\ UNCHANGED <<udcVars, fastboot_state, usb_online, txn_status, actual, call, cmd, asked, left,
                     download_size, running, buffer, fresh, memory, dialog>>
  BY DEF usb_wait, Runs
<1>2. ~txn_done' /\ txn_done' \in BOOLEAN
  BY <1>1
<1>3. UdcTypeOK' /\ HostWaits'
  BY <1>1 DEF FbInv, TypesInv, UdcTypeOK, HostWaits, udcVars, driverVars, controllerVars, hostVars
<1>4. FastbootTypeOK'
  BY <1>1, <1>2 DEF FbInv, TypesInv, FastbootTypeOK
<1>5. EndpointOf(call)' = EndpointOf(call) /\ EndpointOf(call) \in Bulk
  BY <1>1 DEF EndpointOf, Bulk
<1>6. EndpointsInv'
  BY <1>1, <1>2, <1>5
     DEF FbInv, EndpointsInv, HandlerAtRest, RequestsApart, InOnePlace, CompletedEnded,
         BulkOwed, TxnMatches, WaitIsOwed, Bulk, udcVars, driverVars, controllerVars, hostVars
<1>7. DownloadInv'
  BY <1>1, <1>2
     DEF FbInv, DownloadInv, ReadIsFresh, DataBegins, ImageGrows, Xfer, ImageExpected, NoPartialDownload,
         Failed, Calling, Arrived, udcVars, driverVars, controllerVars, hostVars
<1> QED BY <1>3, <1>4, <1>6, <1>7 DEF FbInv, TypesInv

LEMMA ThreadStepFbInv == FbInv /\ ThreadStep => FbInv'
BY WaitOnlineFbInv, CommandLoopFbInv, UsbCheckFbInv, UsbQueueFbInv, UsbWaitFbInv,
   TransactionFailedFbInv, CommandReadFbInv, HandlerAcksFbInv, CmdDownloadFbInv, DataSentFbInv,
   EmptyDownloadFbInv, ImageReadFbInv, AnswerSentFbInv, BootFromFlashFbInv
   DEF ThreadStep

-----------------------------------------------------------------------------
(* The interrupt handler                                                   *)

\* What a completion does to the thread that waits for it, and which it finds in
\* none but the right place: its request is queued nowhere any more, or the
\* caller of the lemma says so.
LEMMA Completion ==
    ASSUME FbInv, NEW e \in Bulk, ept_req[e] = "req", NEW s \in {0, -1}, req_complete(s),
           \A f \in Bulk : ept_req'[f] = "none", UNCHANGED call
    PROVE  /\ txn_status' = s /\ actual' \in 0 .. BUF_SIZE
           /\ s = 0 => actual' = actual
           /\ \/ pc = "wait" /\ pc' = "wait" /\ txn_done' = TRUE
              \/ pc = "blocked_txn" /\ pc' = "done" /\ UNCHANGED txn_done
           /\ e = EndpointOf(call) /\ txn_done = FALSE
           /\ TxnMatches' /\ WaitIsOwed'
<1>1. /\ pc \in {"wait", "blocked_txn"} /\ e = EndpointOf(call) /\ ~txn_done
      /\ txn_done \in BOOLEAN /\ actual \in 0 .. BUF_SIZE /\ BUF_SIZE \in Nat
  BY FastbootAssumption DEF FbInv, EndpointsInv, TxnMatches, TypesInv, FastbootTypeOK
<1>2. /\ txn_status' = s /\ actual' \in 0 .. BUF_SIZE
      /\ s = 0 => actual' = actual
  BY <1>1 DEF req_complete
<1>3. CASE pc = "wait"
  <2>1. pc' = "wait" /\ txn_done' = TRUE
    BY <1>3 DEF req_complete
  <2> QED BY <1>1, <1>2, <1>3, <2>1 DEF TxnMatches, WaitIsOwed
<1>4. CASE pc = "blocked_txn"
  <2>1. pc' = "done" /\ UNCHANGED txn_done
    BY <1>4 DEF req_complete
  <2> QED BY <1>1, <1>2, <1>4, <2>1 DEF TxnMatches, WaitIsOwed
<1> QED BY <1>1, <1>3, <1>4

\* A bus reset: whatever was queued ends in error.
LEMMA StatusFbInv == FbInv /\ irq_status => FbInv'
<1> SUFFICES ASSUME FbInv, irq_status PROVE FbInv'
  OBVIOUS
<1>1. /\ isr = "none" /\ usbsts' = {} /\ isr' \in {"setup", "none"}
      /\ UNCHANGED <<ep0_complete, todo, stalled, stage, resets, usb_online, call, cmd, asked, left,
                     download_size, running, buffer, fresh, memory, dialog>>
  BY DEF irq_status, isr_status, hostVars, restVars
<1>2. CASE "URI" \notin usbsts
  <2>1. UNCHANGED <<endptcomplete, setupstat, primed, bulk_enabled, config_value, info, ept_req,
                    fastboot_state, txn_status, actual, pc, txn_done>>
    BY <1>2 DEF irq_status, isr_status, NoCompletion
  <2>2. UdcTypeOK' /\ FastbootTypeOK'
    BY <1>1, <2>1 DEF FbInv, TypesInv, UdcTypeOK, FastbootTypeOK
  <2>3. EndpointsInv'
    BY <1>1, <2>1
       DEF FbInv, EndpointsInv, HandlerAtRest, RequestsApart, InOnePlace, CompletedEnded,
           BulkOwed, TxnMatches, WaitIsOwed, EndpointOf
  <2>4. HostWaits'
    BY <1>1, <1>2, <2>1 DEF FbInv, HostWaits
  <2>5. DownloadInv'
    BY <1>1, <2>1 DEF FbInv, DownloadInv, ReadIsFresh, DataBegins, ImageGrows, Xfer, ImageExpected,
                      NoPartialDownload, Failed, Arrived
  <2> QED BY <2>2, <2>3, <2>4, <2>5 DEF FbInv, TypesInv
<1>3. CASE "URI" \in usbsts
  <2>1. /\ endptcomplete' = {} /\ setupstat' = "none" /\ primed' = {}
        /\ bulk_enabled' = {} /\ config_value' = 0
        /\ info' = [r \in Requests |-> IF \E e \in Epts : ept_req[e] = r
                                       THEN "halted" ELSE info[r]]
        /\ ept_req' = [e \in Epts |-> "none"]
        /\ fastboot_state' = "OFFLINE"
        /\ todo = {} /\ todo' = {}
    BY <1>1, <1>3 DEF irq_status, isr_status, isr_reset, FbInv, EndpointsInv, HandlerAtRest
  <2>2. dialog' = "command"
    BY <1>1, <1>3 DEF FbInv, HostWaits
  <2>3. UdcTypeOK'
    <3>1. bulk_enabled' \subseteq Bulk /\ config_value' # 1
      BY <2>1
    <3>2. config_value' \in 0 .. 1
      BY <2>1
    <3>3. /\ info' \in [Requests -> {"free", "active", "ok", "halted"}]
          /\ ept_req' \in [Epts -> Requests \cup {"none"}]
      BY <2>1 DEF FbInv, TypesInv, UdcTypeOK
    <3> QED BY <1>1, <2>1, <3>1, <3>2, <3>3 DEF FbInv, TypesInv, UdcTypeOK
  <2>4. HostWaits'
    BY <1>1, <2>1, <2>2 DEF HostWaits
  <2>5. \A e \in Bulk : ept_req'[e] = "none" /\ e \in Epts
    BY <2>1 DEF Epts
  <2>6. HandlerAtRest' /\ RequestsApart' /\ InOnePlace' /\ CompletedEnded' /\ BulkOwed'
    BY <2>1, <2>5 DEF HandlerAtRest, RequestsApart, InOnePlace, CompletedEnded, BulkOwed
  <2>7. CASE \E e \in Bulk : ept_req[e] = "req"
    <3>1. PICK e \in Bulk : ept_req[e] = "req"
      BY <2>7
    <3>2. req_complete(-1)
      BY <1>3, <2>7 DEF irq_status
    <3>3. /\ txn_status' = -1 /\ actual' \in 0 .. BUF_SIZE
          /\ \/ pc = "wait" /\ pc' = "wait" /\ txn_done' = TRUE
             \/ pc = "blocked_txn" /\ pc' = "done" /\ UNCHANGED txn_done
          /\ TxnMatches' /\ WaitIsOwed'
      BY <1>1, <2>5, <3>1, <3>2, Completion
    <3>4. FastbootTypeOK'
      <4>1. txn_done' \in BOOLEAN
        BY <3>3 DEF FbInv, TypesInv, FastbootTypeOK
      <4>2. pc' \in {"wait", "done"}
        BY <3>3
      <4> QED BY <1>1, <2>1, <3>3, <4>1, <4>2 DEF FbInv, TypesInv, FastbootTypeOK
    <3>5. /\ ~Arrived' /\ "out" \notin primed' /\ pc' \in {"wait", "done"}
          /\ pc \in Calling /\ pc # "check"
      BY <2>1, <3>3 DEF Arrived, Calling
    <3>6. DownloadInv'
      BY <1>1, <2>2, <3>5 DEF FbInv, DownloadInv, ReadIsFresh, DataBegins, ImageGrows, Xfer,
                              ImageExpected, NoPartialDownload
    <3> QED BY <2>3, <2>4, <2>6, <3>3, <3>4, <3>6 DEF FbInv, TypesInv, EndpointsInv
  <2>8. CASE ~ \E e \in Bulk : ept_req[e] = "req"
    <3>1. UNCHANGED <<txn_status, actual, pc, txn_done>>
      BY <1>3, <2>8 DEF irq_status, NoCompletion
    <3>2. FastbootTypeOK'
      BY <1>1, <2>1, <3>1 DEF FbInv, TypesInv, FastbootTypeOK
    <3>3. EndpointOf(call)' = EndpointOf(call) /\ EndpointOf(call) \in Bulk
      BY <1>1 DEF EndpointOf, Bulk
    <3>4. TxnMatches' /\ WaitIsOwed'
      BY <2>5, <2>8, <3>1, <3>3 DEF FbInv, EndpointsInv, TxnMatches, WaitIsOwed
    <3>5. (Arrived' => Arrived) /\ "out" \notin primed'
      BY <2>1, <3>1 DEF Arrived
    <3>6. DownloadInv'
      BY <1>1, <2>2, <3>1, <3>5 DEF FbInv, DownloadInv, ReadIsFresh, DataBegins, ImageGrows, Xfer,
                                    ImageExpected, NoPartialDownload
    <3> QED BY <2>3, <2>4, <2>6, <3>2, <3>4, <3>6 DEF FbInv, TypesInv, EndpointsInv
  <2> QED BY <2>7, <2>8
<1> QED BY <1>2, <1>3

\* Queueing the control request changes nothing of the bulk endpoints.
LEMMA ControlQueued ==
    ASSUME UdcTypeOK, NEW e \in Epts \ Bulk, Queued(e)
    PROVE  /\ ept_req' \in [Epts -> Requests \cup {"none"}]
           /\ info' \in [Requests -> {"free", "active", "ok", "halted"}]
           /\ primed' \subseteq Epts
           /\ \A f \in Bulk : ept_req'[f] = ept_req[f] /\ (f \in primed' <=> f \in primed)
           /\ info'["req"] = info["req"]
           /\ \A f \in Epts : ept_req'[f] \in {ept_req[f], ItemOf(f)}
BY DEF UdcTypeOK, Queued, ItemOf, Epts, Bulk, Requests

\* What the answer to a SETUP packet leaves.
LEMMA SetupAnswered ==
    ASSUME FbInv, handle_setup
    PROVE  /\ ept_req' \in [Epts -> Requests \cup {"none"}]
           /\ info' \in [Requests -> {"free", "active", "ok", "halted"}]
           /\ primed' \subseteq Epts
           /\ \A f \in Bulk : ept_req'[f] = ept_req[f] /\ (f \in primed' <=> f \in primed)
           /\ info'["req"] = info["req"]
           /\ \A f \in Epts : ept_req'[f] \in {ept_req[f], ItemOf(f)}
           /\ ep0_complete' \in {"none", "ep0in_complete"}
           /\ config_value' \in 0 .. 1 /\ bulk_enabled' \subseteq Bulk
           /\ config_value' = 1 => bulk_enabled' = Bulk
           /\ stalled' \in BOOLEAN
           /\ setupstat' = "none"
<1>1. UdcTypeOK
  BY DEF FbInv, TypesInv
<1>2. /\ ep0_complete \in {"none", "ep0in_complete"} /\ stalled \in BOOLEAN
      /\ config_value \in 0 .. 1 /\ bulk_enabled \subseteq Bulk
      /\ config_value = 1 => bulk_enabled = Bulk
  BY <1>1 DEF UdcTypeOK
<1>3. CASE setupstat = "stall"
  <2>1. /\ UNCHANGED <<ept_req, info, primed, ep0_complete, bulk_enabled, config_value>>
        /\ stalled' = TRUE /\ setupstat' = "none"
    BY <1>3 DEF handle_setup
  <2>2. /\ ept_req \in [Epts -> Requests \cup {"none"}]
        /\ info \in [Requests -> {"free", "active", "ok", "halted"}]
        /\ primed \subseteq Epts
    BY <1>1 DEF UdcTypeOK
  <2> QED BY <1>2, <2>1, <2>2
<1>4. CASE setupstat # "stall"
  <2>1. /\ Queued("ep0in") /\ UNCHANGED stalled /\ setupstat' = "none"
        /\ ep0_complete' \in {"none", "ep0in_complete"}
    BY <1>4 DEF handle_setup
  <2>2. "ep0in" \in Epts \ Bulk
    BY DEF Epts, Bulk
  <2>3. /\ config_value' \in 0 .. 1 /\ bulk_enabled' \subseteq Bulk
        /\ config_value' = 1 => bulk_enabled' = Bulk
    <3>1. \/ UNCHANGED <<config_value, bulk_enabled>>
          \/ bulk_enabled' = bulk_enabled \cup {Cleared} /\ UNCHANGED config_value
          \/ config_value' = 1 /\ bulk_enabled' = Bulk
          \/ config_value' = 0 /\ bulk_enabled' = {}
      BY <1>4 DEF handle_setup
    <3>2. Cleared \in Bulk
      BY DEF Cleared, Bulk
    <3> QED BY <1>2, <3>1, <3>2
  <2> QED BY <1>1, <1>2, <2>1, <2>2, <2>3, ControlQueued
<1> QED BY <1>3, <1>4

\* The SETUP packet: the device is configured anew, and told so, or goes offline.
LEMMA SetupFbInv == FbInv /\ irq_setup => FbInv'
<1> SUFFICES ASSUME FbInv, irq_setup PROVE FbInv'
  OBVIOUS
<1>1. /\ isr = "setup" /\ isr' = "collect"
      /\ UNCHANGED <<todo, usbsts, endptcomplete, stage, resets, txn_done, txn_status, actual,
                     call, cmd, asked, left, download_size, running, buffer, fresh, memory, dialog>>
  BY DEF irq_setup, isr_setup, hostVars, restVars
<1>2. /\ ept_req' \in [Epts -> Requests \cup {"none"}]
      /\ info' \in [Requests -> {"free", "active", "ok", "halted"}]
      /\ primed' \subseteq Epts
      /\ \A f \in Bulk : ept_req'[f] = ept_req[f] /\ (f \in primed' <=> f \in primed)
      /\ info'["req"] = info["req"]
      /\ \A f \in Epts : ept_req'[f] \in {ept_req[f], ItemOf(f)}
      /\ ep0_complete' \in {"none", "ep0in_complete"}
      /\ config_value' \in 0 .. 1 /\ bulk_enabled' \subseteq Bulk
      /\ config_value' = 1 => bulk_enabled' = Bulk
      /\ stalled' \in BOOLEAN
      /\ setupstat' = "none"
  <2>1. CASE setupstat # "none"
    BY <2>1, SetupAnswered DEF irq_setup, isr_setup
  <2>2. CASE setupstat = "none"
    <3>1. UNCHANGED <<ept_req, info, primed, ep0_complete, bulk_enabled, config_value, stalled,
                      setupstat>>
      BY <2>2 DEF irq_setup, isr_setup, handle_setup
    <3> QED BY <2>2, <3>1 DEF FbInv, TypesInv, UdcTypeOK
  <2> QED BY <2>1, <2>2
<1>3. /\ fastboot_state' \in {"OFFLINE", "COMPLETE", fastboot_state}
      /\ usb_online' \in {usb_online, TRUE}
      /\ \/ UNCHANGED pc
         \/ pc = "blocked_online" /\ pc' = "loop"
      /\ dialog = "image" => fastboot_state' = fastboot_state /\ UNCHANGED pc
  <2>1. dialog = "image" => setupstat \notin {"config", "unconfig"}
    BY DEF FbInv, HostWaits
  <2> QED BY <2>1 DEF irq_setup, notify_online
<1>4. UdcTypeOK'
  BY <1>1, <1>2 DEF FbInv, TypesInv, UdcTypeOK
<1>5. FastbootTypeOK'
  <2>1. usb_online' \in BOOLEAN
    BY <1>3 DEF FbInv, TypesInv, FastbootTypeOK
  <2> QED BY <1>1, <1>3, <2>1 DEF FbInv, TypesInv, FastbootTypeOK
<1>6. EndpointOf(call)' = EndpointOf(call) /\ EndpointOf(call) \in Bulk
  BY <1>1 DEF EndpointOf, Bulk
<1>7. EndpointsInv'
  <2>1. HandlerAtRest' /\ RequestsApart' /\ InOnePlace' /\ CompletedEnded' /\ BulkOwed'
    BY <1>1, <1>2 DEF FbInv, EndpointsInv, HandlerAtRest, RequestsApart, InOnePlace,
                      CompletedEnded, BulkOwed
  <2>2. TxnMatches' /\ WaitIsOwed'
    BY <1>1, <1>2, <1>3, <1>6 DEF FbInv, EndpointsInv, TxnMatches, WaitIsOwed
  <2> QED BY <2>1, <2>2 DEF EndpointsInv
<1>8. HostWaits'
  BY <1>1, <1>2 DEF FbInv, HostWaits
<1>9. DownloadInv'
  <2>1. /\ Arrived' => Arrived
        /\ "out" \in primed' => "out" \in primed
    BY <1>1, <1>2, <1>3 DEF Arrived, Bulk
  <2> QED BY <1>1, <1>3, <2>1 DEF FbInv, DownloadInv, ReadIsFresh, DataBegins, ImageGrows, Xfer,
                                 ImageExpected, NoPartialDownload, Failed, Calling
<1> QED BY <1>4, <1>5, <1>7, <1>8, <1>9 DEF FbInv, TypesInv

LEMMA OtherFbInv == FbInv /\ irq_other => FbInv'
<1> SUFFICES ASSUME FbInv, irq_other PROVE FbInv'
  OBVIOUS
<1>1. /\ UNCHANGED <<fbVars, ept_req, info, ep0_complete, config_value, usbsts, setupstat, primed,
                     bulk_enabled, stalled, stage, resets>>
      /\ \/ isr = "collect" /\ todo' = endptcomplete /\ endptcomplete' = {} /\ isr' = "complete"
         \/ todo = {} /\ todo' = todo /\ isr' = "none" /\ UNCHANGED endptcomplete
  BY DEF irq_other, isr_collect, isr_return, hostVars, controllerVars
<1>2. /\ todo = {}
      /\ \A e \in Epts : e \in endptcomplete' \cup todo' <=> e \in endptcomplete \cup todo
      /\ endptcomplete' \subseteq Epts /\ todo' \subseteq Epts
      /\ \A e \in Epts : e \in endptcomplete' => e \notin todo'
      /\ HandlerAtRest'
  BY <1>1 DEF FbInv, EndpointsInv, HandlerAtRest, TypesInv, UdcTypeOK
<1>3. UdcTypeOK' /\ FastbootTypeOK'
  BY <1>1, <1>2 DEF FbInv, TypesInv, UdcTypeOK, FastbootTypeOK, fbVars, threadVars
<1>4. EndpointsInv'
  BY <1>1, <1>2
     DEF FbInv, EndpointsInv, RequestsApart, InOnePlace, CompletedEnded, BulkOwed, TxnMatches,
         WaitIsOwed, EndpointOf, fbVars, threadVars, Epts, Bulk
<1>5. HostWaits'
  BY <1>1 DEF FbInv, HostWaits, fbVars
<1>6. DownloadInv'
  <2>1. Arrived' <=> Arrived
    BY <1>1, <1>2 DEF Arrived, fbVars, threadVars, Epts, Bulk
  <2> QED BY <1>1, <2>1
          DEF FbInv, DownloadInv, ReadIsFresh, DataBegins, ImageGrows, Xfer, ImageExpected,
              NoPartialDownload, Failed, fbVars, threadVars
<1> QED BY <1>3, <1>4, <1>5, <1>6 DEF FbInv, TypesInv

LEMMA NextEptInTodo == ASSUME todo \subseteq Epts, todo # {} PROVE NextEpt \in todo
BY DEF NextEpt, Epts, Bulk

\* The handler finishes an endpoint: what the thread gets is what the controller
\* wrote back.
LEMMA CompleteFbInv == FbInv /\ irq_complete => FbInv'
<1> SUFFICES ASSUME FbInv, irq_complete PROVE FbInv'
  OBVIOUS
<1> PICK e : e = NextEpt
  OBVIOUS
<1>1. /\ isr = "complete" /\ e \in todo /\ e \in Epts /\ todo' = todo \ {e}
      /\ UNCHANGED <<config_value, isr, usbsts, setupstat, endptcomplete, bulk_enabled, stalled,
                     stage, resets, fastboot_state, usb_online, call, cmd, asked, left, download_size,
                     running, buffer, fresh, memory, dialog>>
  <2>1. todo \subseteq Epts /\ todo # {}
    BY DEF irq_complete, isr_complete, FbInv, TypesInv, UdcTypeOK
  <2>2. e \in todo
    BY <2>1, NextEptInTodo
  <2> QED BY <2>1, <2>2 DEF irq_complete, isr_complete, handle_ept_complete, hostVars, restVars
<1>2. /\ ept_req \in [Epts -> Requests \cup {"none"}]
      /\ info \in [Requests -> {"free", "active", "ok", "halted"}]
      /\ primed \subseteq Epts /\ ep0_complete \in {"none", "ep0in_complete"}
  BY DEF FbInv, TypesInv, UdcTypeOK
<1>3. CASE e \in Bulk
  <2>1. ept_req[e] = "req" /\ e \notin primed \cup endptcomplete /\ info["req"] # "active"
    BY <1>1, <1>3 DEF FbInv, EndpointsInv, BulkOwed, InOnePlace, CompletedEnded
  <2>2. ept_req' = [ept_req EXCEPT ![e] = "none"] /\ UNCHANGED <<info, primed, ep0_complete>>
    BY <2>1 DEF irq_complete, isr_complete, handle_ept_complete
  <2> DEFINE s == IF info["req"] = "ok" THEN 0 ELSE -1
  <2>3. req_complete(s) /\ s \in {0, -1}
    BY <2>1 DEF irq_complete
  <2>4. /\ e = EndpointOf(call) /\ EndpointOf(call)' = EndpointOf(call)
        /\ \A f \in Bulk : f # e => ept_req[f] = "none" /\ f \notin todo
    BY <1>1, <1>3, <2>1
       DEF FbInv, EndpointsInv, TxnMatches, RequestsApart, BulkOwed, EndpointOf, Bulk, Epts, ItemOf
  <2>5. ept_req'[e] = "none" /\ \A f \in Epts \ {e} : ept_req'[f] = ept_req[f]
    BY <1>1, <1>2, <2>2
  <2>6. \A f \in Bulk : ept_req'[f] = "none"
    BY <2>4, <2>5 DEF Epts
  <2> HIDE DEF s
  <2>7. /\ txn_status' = s /\ actual' \in 0 .. BUF_SIZE
        /\ s = 0 => actual' = actual
        /\ \/ pc = "wait" /\ pc' = "wait" /\ txn_done' = TRUE
           \/ pc = "blocked_txn" /\ pc' = "done" /\ UNCHANGED txn_done
        /\ TxnMatches' /\ WaitIsOwed'
    BY <1>1, <1>3, <2>1, <2>3, <2>6, Completion
  <2>8. UdcTypeOK'
    BY <1>1, <1>2, <2>2 DEF FbInv, TypesInv, UdcTypeOK
  <2>9. FastbootTypeOK'
    <3>1. txn_done' \in BOOLEAN /\ pc' \in {"wait", "done"}
      BY <2>7 DEF FbInv, TypesInv, FastbootTypeOK
    <3> QED BY <1>1, <2>3, <2>7, <3>1 DEF FbInv, TypesInv, FastbootTypeOK
  <2>10. HandlerAtRest' /\ RequestsApart' /\ InOnePlace' /\ CompletedEnded' /\ BulkOwed'
    BY <1>1, <1>3, <2>1, <2>2, <2>4, <2>5, <2>6
       DEF FbInv, EndpointsInv, HandlerAtRest, RequestsApart, InOnePlace, CompletedEnded,
           BulkOwed
  <2>11. HostWaits'
    BY <1>1 DEF FbInv, HostWaits
  <2>12. DownloadInv'
    <3>1. "out" \notin primed' \cup endptcomplete' \cup todo' \/ call \notin {"command", "image"}
      BY <1>1, <2>1, <2>2, <2>4 DEF EndpointOf, Reads
    <3>2. Arrived' /\ call \in {"command", "image"} => Arrived /\ actual' = actual
      <4>1. CASE call \in {"command", "image"}
        <5>1. e = "out"
          BY <2>4, <4>1 DEF EndpointOf, Reads
        <5>2. Arrived' => s = 0
          BY <2>7, <3>1, <4>1 DEF Arrived
        <5>3. s = 0 => info["req"] = "ok"
          BY DEF s
        <5> QED BY <1>1, <2>7, <5>1, <5>2, <5>3 DEF Arrived
      <4> QED BY <4>1
    <3>3. pc \in Calling /\ pc' \notin {"check", "queue"} /\ pc' \in Calling
      BY <2>7 DEF Calling
    <3> QED BY <1>1, <2>2, <2>7, <3>2, <3>3
            DEF FbInv, DownloadInv, ReadIsFresh, DataBegins, ImageGrows, Xfer, ImageExpected,
                NoPartialDownload, Failed
  <2> QED BY <2>7, <2>8, <2>9, <2>10, <2>11, <2>12 DEF FbInv, TypesInv, EndpointsInv
<1>4. CASE e \notin Bulk
  <2>1. ept_req[e] # "req"
    BY <1>1, <1>4 DEF FbInv, EndpointsInv, RequestsApart, ItemOf
  <2>2. UNCHANGED <<txn_status, actual, pc, txn_done>>
    BY <2>1 DEF irq_complete, NoCompletion
  <2>3. /\ ept_req' \in [Epts -> Requests \cup {"none"}]
        /\ info' \in [Requests -> {"free", "active", "ok", "halted"}]
        /\ primed' \subseteq Epts /\ ep0_complete' \in {"none", "ep0in_complete"}
        /\ \A f \in Bulk : ept_req'[f] = ept_req[f] /\ (f \in primed' <=> f \in primed)
        /\ info'["req"] = info["req"]
        /\ \A f \in Epts : ept_req'[f] \in {"none", ept_req[f], ItemOf(f)}
    <3>1. \/ UNCHANGED <<ept_req, info, primed, ep0_complete>>
          \/ /\ ept_req' = [ept_req EXCEPT ![e] = "none", !["ep0out"] = "ep0req"]
             /\ info' = [info EXCEPT !["ep0req"] = "active"]
             /\ primed' = primed \cup {"ep0out"} /\ ep0_complete' = "none"
          \/ ept_req' = [ept_req EXCEPT ![e] = "none"] /\ UNCHANGED <<info, primed, ep0_complete>>
      BY <2>1 DEF irq_complete, isr_complete, handle_ept_complete
    <3>2. e \in {"ep0in", "ep0out"}
      BY <1>1, <1>4 DEF Epts
    <3>3. CASE UNCHANGED <<ept_req, info, primed, ep0_complete>>
      BY <1>2, <3>3
    <3>4. CASE /\ ept_req' = [ept_req EXCEPT ![e] = "none", !["ep0out"] = "ep0req"]
               /\ info' = [info EXCEPT !["ep0req"] = "active"]
               /\ primed' = primed \cup {"ep0out"} /\ ep0_complete' = "none"
      <4>1. \A f \in Epts : ept_req'[f] = IF f = "ep0out" THEN "ep0req"
                                          ELSE IF f = e THEN "none" ELSE ept_req[f]
        BY <1>2, <3>2, <3>4 DEF Epts
      <4>2. /\ ept_req' \in [Epts -> Requests \cup {"none"}] /\ primed' \subseteq Epts
            /\ info' \in [Requests -> {"free", "active", "ok", "halted"}]
            /\ info'["req"] = info["req"]
        BY <1>2, <3>4 DEF Epts, Requests
      <4> QED BY <3>2, <3>4, <4>1, <4>2 DEF Epts, Bulk, ItemOf
    <3>5. CASE ept_req' = [ept_req EXCEPT ![e] = "none"] /\ UNCHANGED <<info, primed, ep0_complete>>
      <4>1. \A f \in Epts : ept_req'[f] = IF f = e THEN "none" ELSE ept_req[f]
        BY <1>2, <3>5
      <4>2. ept_req' \in [Epts -> Requests \cup {"none"}]
        BY <1>2, <3>5
      <4> QED BY <1>2, <3>2, <3>5, <4>1, <4>2 DEF Epts, Bulk
    <3> QED BY <3>1, <3>3, <3>4, <3>5
  <2>4. UdcTypeOK' /\ FastbootTypeOK'
    BY <1>1, <2>2, <2>3 DEF FbInv, TypesInv, UdcTypeOK, FastbootTypeOK
  <2>5. \A f \in Bulk : f \in todo' <=> f \in todo
    BY <1>1, <1>4
  <2>6. EndpointOf(call)' = EndpointOf(call) /\ EndpointOf(call) \in Bulk
    BY <1>1 DEF EndpointOf, Bulk
  <2>7. HandlerAtRest' /\ RequestsApart' /\ InOnePlace' /\ CompletedEnded' /\ BulkOwed'
    BY <1>1, <2>3, <2>5 DEF FbInv, EndpointsInv, HandlerAtRest, RequestsApart, InOnePlace,
                            CompletedEnded, BulkOwed
  <2>8. TxnMatches' /\ WaitIsOwed'
    BY <1>1, <2>2, <2>3, <2>6 DEF FbInv, EndpointsInv, TxnMatches, WaitIsOwed
  <2>9. HostWaits'
    BY <1>1 DEF FbInv, HostWaits
  <2>10. DownloadInv'
    <3>1. (Arrived' <=> Arrived) /\ ("out" \in primed' <=> "out" \in primed)
      BY <1>1, <2>2, <2>3, <2>5 DEF Arrived, Bulk
    <3> QED BY <1>1, <2>2, <3>1 DEF FbInv, DownloadInv, ReadIsFresh, DataBegins, ImageGrows, Xfer,
                                   ImageExpected, NoPartialDownload, Failed
  <2> QED BY <2>4, <2>7, <2>8, <2>9, <2>10 DEF FbInv, TypesInv, EndpointsInv
<1> QED BY <1>3, <1>4

-----------------------------------------------------------------------------
(* The host and the controller                                             *)

LEMMA ResetFbInv == FbInv /\ reset => FbInv'
<1> SUFFICES ASSUME FbInv, reset PROVE FbInv'
  OBVIOUS
<1>1. /\ usbsts' = usbsts \cup {"URI"} /\ stage' = "idle" /\ dialog' = "command"
      /\ resets < MaxResets /\ resets' = resets + 1
      /\ UNCHANGED <<driverVars, setupstat, endptcomplete, primed, bulk_enabled, stalled>>
      /\ UNCHANGED <<fastboot_state, usb_online, txn_done, txn_status, actual, threadVars, buffer,
                     fresh, memory>>
  BY DEF reset, host_reset
<1> USE DEF driverVars, threadVars
<1>2. UdcTypeOK'
  <2>1. resets' \in 0 .. MaxResets
    BY <1>1, UdcAssumption DEF FbInv, TypesInv, UdcTypeOK
  <2> QED BY <1>1, <2>1 DEF FbInv, TypesInv, UdcTypeOK
<1>3. FastbootTypeOK'
  BY <1>1 DEF FbInv, TypesInv, FastbootTypeOK
<1>4. EndpointsInv'
  BY <1>1 DEF FbInv, EndpointsInv, HandlerAtRest, RequestsApart, InOnePlace, CompletedEnded,
              BulkOwed, TxnMatches, WaitIsOwed, EndpointOf
<1>5. HostWaits'
  BY <1>1 DEF FbInv, HostWaits
<1>6. DownloadInv'
  BY <1>1 DEF FbInv, DownloadInv, ReadIsFresh, DataBegins, ImageGrows, Xfer, ImageExpected,
              NoPartialDownload, Arrived
<1> QED BY <1>2, <1>3, <1>4, <1>5, <1>6 DEF FbInv, TypesInv

LEMMA ControlSetupFbInv ==
    ASSUME FbInv, NEW k \in Controls, control_setup(k) PROVE FbInv'
<1>1. /\ stage = "idle" /\ "URI" \notin usbsts /\ setupstat' = k /\ stalled' = FALSE
      /\ usbsts' = usbsts \cup {"UI"} /\ stage' \in {"data", "status_in"}
      /\ k \in {"config", "unconfig"} => dialog' = "command"
      /\ dialog' \in {dialog, "command"}
      /\ UNCHANGED <<driverVars, endptcomplete, primed, bulk_enabled, resets>>
      /\ UNCHANGED <<fastboot_state, usb_online, txn_done, txn_status, actual, threadVars, buffer,
                     fresh, memory>>
  BY DEF control_setup, host_setup
<1>2. k \in ControlKinds
  BY UdcAssumption
<1> USE DEF driverVars, threadVars
<1>3. UdcTypeOK'
  <2>1. stalled' \in BOOLEAN
    BY <1>1
  <2> QED BY <1>1, <1>2, <2>1 DEF FbInv, TypesInv, UdcTypeOK
<1>4. FastbootTypeOK'
  BY <1>1 DEF FbInv, TypesInv, FastbootTypeOK
<1>5. EndpointsInv'
  BY <1>1 DEF FbInv, EndpointsInv, HandlerAtRest, RequestsApart, InOnePlace, CompletedEnded,
              BulkOwed, TxnMatches, WaitIsOwed, EndpointOf
<1>6. HostWaits'
  <2>1. ~stalled' /\ stage' # "idle"
    BY <1>1
  <2>2. "URI" \notin usbsts'
    BY <1>1
  <2> QED BY <1>1, <2>1, <2>2 DEF HostWaits
<1>7. DownloadInv'
  BY <1>1 DEF FbInv, DownloadInv, ReadIsFresh, DataBegins, ImageGrows, Xfer, ImageExpected,
              NoPartialDownload, Arrived, Failed
<1> QED BY <1>3, <1>4, <1>5, <1>6, <1>7 DEF FbInv, TypesInv

\* What the controller changes when it carries out a transfer.
LEMMA TransferTypes ==
    ASSUME UdcTypeOK, NEW e \in Epts, NEW o \in {"ok", "halted"}, Transferred(e, o),
           stage' \in {"idle", "data", "status_in", "status_out"}
    PROVE  UdcTypeOK'
<1>1. info' \in [Requests -> {"free", "active", "ok", "halted"}]
  BY DEF Transferred, UdcTypeOK
<1>2. primed' \subseteq Epts /\ endptcomplete' \subseteq Epts /\ usbsts' \subseteq {"URI", "UI"}
  BY DEF Transferred, UdcTypeOK
<1> QED BY <1>1, <1>2 DEF Transferred, UdcTypeOK

LEMMA ControlGoesOnFbInv == FbInv /\ control_goes_on => FbInv'
<1> SUFFICES ASSUME FbInv, control_goes_on PROVE FbInv'
  OBVIOUS
<1>1. UNCHANGED fbVars
  BY DEF control_goes_on
<1>2. /\ UdcTypeOK' /\ HostWaits'
      /\ UNCHANGED <<ept_req, isr, todo>>
      /\ info' \in [Requests -> {"free", "active", "ok", "halted"}] /\ info'["req"] = info["req"]
      /\ \A f \in Bulk : /\ f \in primed' <=> f \in primed
                         /\ f \in endptcomplete' <=> f \in endptcomplete
  <2>1. CASE host_sees_stall
    <3>1. stage' = "idle" /\ stalled /\ UNCHANGED <<driverVars, controllerVars, resets>>
      BY <2>1 DEF host_sees_stall
    <3>2. setupstat = "none"
      BY <3>1 DEF FbInv, HostWaits, TypesInv, UdcTypeOK
    <3> QED BY <1>1, <3>1, <3>2 DEF FbInv, HostWaits, TypesInv, UdcTypeOK, driverVars,
                                   controllerVars, fbVars
  <2>2. CASE \E e \in Epts : control_transfer(e)
    <3>1. PICK e \in Epts : control_transfer(e)
      BY <2>2
    <3>2. /\ e \in Epts \ Bulk /\ setupstat = "none" /\ Transferred(e, "ok")
          /\ stage' \in {"idle", "status_out"}
      BY <3>1 DEF control_transfer, Bulk
    <3>3. UdcTypeOK'
      BY <3>2, TransferTypes DEF FbInv, TypesInv
    <3>4. HostWaits'
      BY <1>1, <3>2 DEF FbInv, HostWaits, Transferred, fbVars
    <3> QED BY <3>2, <3>3, <3>4
            DEF FbInv, TypesInv, UdcTypeOK, Transferred, ItemOf, Bulk, Requests
  <2> QED BY <2>1, <2>2 DEF control_goes_on
<1>3. FastbootTypeOK'
  BY <1>1 DEF FbInv, TypesInv, FastbootTypeOK, fbVars, threadVars
<1>4. EndpointsInv'
  BY <1>1, <1>2 DEF FbInv, EndpointsInv, HandlerAtRest, RequestsApart, InOnePlace, CompletedEnded,
                    BulkOwed, TxnMatches, WaitIsOwed, EndpointOf, fbVars, threadVars
<1>5. DownloadInv'
  <2>1. (Arrived' <=> Arrived) /\ ("out" \in primed' <=> "out" \in primed)
    BY <1>1, <1>2 DEF Arrived, Bulk, fbVars, threadVars
  <2> QED BY <1>1, <2>1 DEF FbInv, DownloadInv, ReadIsFresh, DataBegins, ImageGrows, Xfer, ImageExpected,
                           NoPartialDownload, Failed, fbVars, threadVars
<1> QED BY <1>2, <1>3, <1>4, <1>5 DEF FbInv, TypesInv

\* A bulk transfer, before what it carried is looked at.
LEMMA BulkFbInv ==
    ASSUME FbInv, NEW e \in Epts, NEW o \in {"ok", "halted"}, bulk_transfer(e, o),
           UNCHANGED <<txn_done, txn_status, threadVars>>
    PROVE  /\ UdcTypeOK' /\ EndpointsInv'
           /\ setupstat' # "none" => ~stalled' /\ (stage' # "idle" \/ "URI" \in usbsts')
           /\ "URI" \notin usbsts /\ "URI" \notin usbsts' /\ UNCHANGED <<setupstat, stage>>
           /\ pc \in {"wait", "blocked_txn"} /\ e = EndpointOf(call) /\ e \in Bulk /\ ~txn_done
           /\ e \in primed /\ e \notin primed' /\ info'["req"] = o
           /\ \A f \in Bulk : f # e => f \notin primed \cup endptcomplete' \cup todo'
<1>1. /\ e \in Bulk /\ UNCHANGED stage /\ Transferred(e, o) /\ ItemOf(e) = "req"
  BY DEF bulk_transfer, ItemOf, FbInv, TypesInv, UdcTypeOK
<1>2. /\ e \in primed /\ "URI" \notin usbsts /\ primed' = primed \ {e}
      /\ info' = [info EXCEPT !["req"] = o] /\ endptcomplete' = endptcomplete \cup {e}
      /\ usbsts' = usbsts \cup {"UI"}
      /\ UNCHANGED <<ept_req, ep0_complete, config_value, isr, todo, setupstat, bulk_enabled,
                     stalled, resets>>
  BY <1>1 DEF Transferred
<1>3. info'["req"] = o
  BY <1>2 DEF FbInv, TypesInv, UdcTypeOK, Requests
<1>4. UdcTypeOK'
  BY <1>1, TransferTypes DEF FbInv, TypesInv, UdcTypeOK
<1>5. /\ ept_req[e] = "req" /\ pc \in {"wait", "blocked_txn"} /\ e = EndpointOf(call) /\ ~txn_done
      /\ e \notin endptcomplete \cup todo
  BY <1>1, <1>2 DEF FbInv, EndpointsInv, BulkOwed, TxnMatches, InOnePlace
<1>6. \A f \in Bulk : f # e => f \notin primed \cup endptcomplete \cup todo
  BY <1>5 DEF FbInv, EndpointsInv, BulkOwed, TxnMatches
<1>7. EndpointsInv'
  <2>1. HandlerAtRest' /\ RequestsApart' /\ InOnePlace' /\ CompletedEnded' /\ BulkOwed'
    BY <1>1, <1>2, <1>3, <1>5, <1>6
       DEF FbInv, EndpointsInv, HandlerAtRest, RequestsApart, InOnePlace, CompletedEnded, BulkOwed
  <2>2. TxnMatches' /\ WaitIsOwed'
    BY <1>2 DEF FbInv, EndpointsInv, TxnMatches, WaitIsOwed, EndpointOf, threadVars
  <2> QED BY <2>1, <2>2 DEF EndpointsInv
<1> QED BY <1>1, <1>2, <1>3, <1>4, <1>5, <1>6, <1>7 DEF FbInv, HostWaits

LEMMA SendCommandFbInv ==
    ASSUME FbInv, NEW c \in Commands, NEW n \in CommandLengths, send_command(c, n) PROVE FbInv'
<1> DEFINE o == IF call = "image" /\ n > Xfer THEN "halted" ELSE "ok"
<1>1. /\ bulk_transfer("out", o) /\ stage = "idle" /\ dialog' = "response" /\ actual' = n
      /\ \/ call = "command" /\ buffer' = c /\ fresh' = TRUE
         \/ call # "command" /\ UNCHANGED <<buffer, fresh>>
      /\ UNCHANGED <<fastboot_state, usb_online, txn_done, txn_status, threadVars, memory>>
      /\ o \in {"ok", "halted"}
  BY DEF send_command
<1> HIDE DEF o
<1>2. /\ UdcTypeOK' /\ EndpointsInv'
      /\ setupstat' # "none" => ~stalled' /\ (stage' # "idle" \/ "URI" \in usbsts')
      /\ "URI" \notin usbsts' /\ UNCHANGED <<setupstat, stage>>
      /\ "out" \in primed /\ "out" \notin primed' /\ pc \in {"wait", "blocked_txn"}
      /\ info'["req"] = o /\ ~txn_done
  BY <1>1, BulkFbInv DEF Epts, Bulk
<1> USE DEF threadVars
<1>3. FastbootTypeOK'
  <2>1. fresh' \in BOOLEAN /\ buffer' \in Commands \cup {"none"}
    BY <1>1 DEF FbInv, TypesInv, FastbootTypeOK
  <2>2. actual' \in 0 .. BUF_SIZE
    BY <1>1, FastbootAssumption
  <2> QED BY <1>1, <2>1, <2>2 DEF FbInv, TypesInv, FastbootTypeOK
<1>4. HostWaits'
  <2>1. setupstat' = "none"
    BY <1>1, <1>2
  <2> QED BY <1>2, <2>1 DEF HostWaits
<1>5. call = "command" => fresh'
  BY <1>1
<1>6. DownloadInv'
  <2>1. call = "image" => memory = asked - left
    BY <1>2 DEF FbInv, DownloadInv, ImageGrows, Calling
  <2>2. call = "image" /\ Arrived' => n <= left
    <3>1. Arrived' => o = "ok"
      BY <1>1, <1>2 DEF Arrived
    <3>2. left \in Nat /\ Xfer \in Nat /\ n \in Nat
      BY XferBounds, FastbootAssumption DEF FbInv, TypesInv, FastbootTypeOK
    <3>3. call = "image" /\ o = "ok" => n <= Xfer
      BY <3>2 DEF o
    <3>4. Xfer <= left
      BY <3>2, XferBounds
    <3> QED BY <3>1, <3>2, <3>3, <3>4
  <2>3. CASE call # "image"
    BY <1>1, <1>2, <1>5, <2>3
       DEF FbInv, DownloadInv, ReadIsFresh, DataBegins, ImageGrows, ImageExpected,
           NoPartialDownload, Calling
  <2>4. CASE call = "image"
    BY <1>1, <1>2, <1>5, <2>1, <2>2, <2>4
       DEF FbInv, DownloadInv, ReadIsFresh, DataBegins, ImageGrows, ImageExpected,
           NoPartialDownload, Calling
  <2> QED BY <2>3, <2>4
<1> QED BY <1>2, <1>3, <1>4, <1>6 DEF FbInv, TypesInv

\* The host sends an image only into reads of the image.
LEMMA SendImageFbInv == FbInv /\ send_image => FbInv'
<1> SUFFICES ASSUME FbInv, send_image PROVE FbInv'
  OBVIOUS
<1>1. /\ bulk_transfer("out", "ok") /\ dialog = "image" /\ actual' = Xfer
      /\ memory' = memory + Xfer
      /\ dialog' = IF memory' = asked THEN "response" ELSE "image"
      /\ UNCHANGED <<fastboot_state, usb_online, txn_done, txn_status, threadVars, buffer, fresh>>
  BY DEF send_image
<1>2. /\ UdcTypeOK' /\ EndpointsInv'
      /\ setupstat' # "none" => ~stalled' /\ (stage' # "idle" \/ "URI" \in usbsts')
      /\ "URI" \notin usbsts' /\ UNCHANGED <<setupstat, stage>>
      /\ "out" \in primed /\ "out" \notin primed'
      /\ pc \in {"wait", "blocked_txn"} /\ EndpointOf(call) = "out"
  BY <1>1, BulkFbInv DEF Epts, Bulk
<1> USE DEF threadVars
<1>3. /\ call = "image" /\ download_size = 0 /\ memory < asked /\ memory = asked - left
      /\ left <= asked /\ WholeBuffers(asked - left) /\ left >= 1
  <2>1. call = "image" /\ download_size = 0 /\ memory < asked
    BY <1>1, <1>2 DEF FbInv, DownloadInv, ImageExpected, EndpointOf, Reads
  <2> QED BY <1>2, <2>1 DEF FbInv, DownloadInv, ImageGrows, Calling
<1>4. /\ asked \in Nat /\ memory \in Nat /\ left \in Nat
      /\ Xfer \in 0 .. BUF_SIZE /\ Xfer <= left /\ BUF_SIZE \in Nat
  BY FastbootAssumption, XferBounds DEF FbInv, TypesInv, FastbootTypeOK
<1>5. FastbootTypeOK'
  <2>1. memory' \in Nat /\ actual' \in 0 .. BUF_SIZE
    BY <1>1, <1>3, <1>4
  <2> QED BY <1>1, <2>1 DEF FbInv, TypesInv, FastbootTypeOK
<1>6. HostWaits'
  <2>1. setupstat' \notin {"config", "unconfig"}
    BY <1>1, <1>2 DEF FbInv, HostWaits
  <2> QED BY <1>2, <2>1 DEF HostWaits
<1>7. Xfer' = Xfer
  BY <1>1 DEF Xfer
<1>8. /\ memory' = (asked - left) + actual' /\ actual' = Xfer
      /\ dialog' = "image" => memory' < asked
  BY <1>1, <1>3, <1>4
<1>9. DownloadInv'
  BY <1>1, <1>2, <1>3, <1>7, <1>8
     DEF DownloadInv, ReadIsFresh, DataBegins, ImageGrows, ImageExpected, NoPartialDownload, Calling
<1> QED BY <1>2, <1>5, <1>6, <1>9 DEF FbInv, TypesInv

LEMMA ReadAnswerFbInv == FbInv /\ read_answer => FbInv'
<1> SUFFICES ASSUME FbInv, read_answer PROVE FbInv'
  OBVIOUS
<1>1. /\ bulk_transfer("in", "ok") /\ dialog = "response"
      /\ \/ call = "DATA" /\ asked > 0 /\ dialog' = "image"
         \/ dialog' \in {"command", "response"}
      /\ UNCHANGED <<fastboot_state, usb_online, txn_done, txn_status, actual, threadVars, buffer,
                     fresh, memory>>
  <2>1. asked \in Nat
    BY DEF FbInv, TypesInv, FastbootTypeOK
  <2> QED BY <2>1 DEF read_answer
<1>2. /\ UdcTypeOK' /\ EndpointsInv'
      /\ setupstat' # "none" => ~stalled' /\ (stage' # "idle" \/ "URI" \in usbsts')
      /\ "URI" \notin usbsts' /\ UNCHANGED <<setupstat, stage>>
      /\ pc \in {"wait", "blocked_txn"} /\ EndpointOf(call) = "in"
  BY <1>1, BulkFbInv DEF Epts, Bulk
<1> USE DEF threadVars
<1>3. FastbootTypeOK'
  BY <1>1 DEF FbInv, TypesInv, FastbootTypeOK
<1>4. HostWaits'
  <2>1. setupstat' \notin {"config", "unconfig"}
    BY <1>1, <1>2 DEF FbInv, HostWaits
  <2> QED BY <1>2, <2>1 DEF HostWaits
<1>5. call \notin {"command", "image"}
  BY <1>2 DEF EndpointOf, Reads
<1>6. DownloadInv'
  BY <1>1, <1>2, <1>5, FastbootAssumption
     DEF FbInv, DownloadInv, ReadIsFresh, DataBegins, ImageGrows, Xfer, ImageExpected,
         NoPartialDownload, Calling
<1> QED BY <1>2, <1>3, <1>4, <1>6 DEF FbInv, TypesInv

LEMMA TransferErrorFbInv ==
    ASSUME FbInv, NEW e \in Bulk, transfer_error(e) PROVE FbInv'
<1>1. bulk_transfer(e, "halted") /\ UNCHANGED fbVars
  BY DEF transfer_error
<1> USE DEF threadVars, fbVars
<1>2. /\ UdcTypeOK' /\ EndpointsInv'
      /\ setupstat' # "none" => ~stalled' /\ (stage' # "idle" \/ "URI" \in usbsts')
      /\ "URI" \notin usbsts' /\ UNCHANGED <<setupstat, stage>>
      /\ e = EndpointOf(call) /\ pc \in {"wait", "blocked_txn"} /\ ~txn_done
      /\ info'["req"] = "halted"
      /\ "out" \in primed' => "out" \in primed
  <2>1. e \in Epts
    BY DEF Epts
  <2> QED BY <1>1, <2>1, BulkFbInv DEF bulk_transfer, Transferred
<1>3. FastbootTypeOK'
  BY <1>1 DEF FbInv, TypesInv, FastbootTypeOK
<1>4. HostWaits'
  BY <1>1, <1>2 DEF FbInv, HostWaits
<1>5. ~Arrived'
  BY <1>1, <1>2 DEF Arrived
<1>6. DownloadInv'
  BY <1>1, <1>2, <1>5 DEF FbInv, DownloadInv, ReadIsFresh, DataBegins, ImageGrows, Xfer, ImageExpected,
                          NoPartialDownload, Failed
<1> QED BY <1>2, <1>3, <1>4, <1>6 DEF FbInv, TypesInv

-----------------------------------------------------------------------------
(* The theorems                                                            *)

LEMMA StutterFbInv == FbInv /\ UNCHANGED allVars => FbInv'
<1> SUFFICES ASSUME FbInv, UNCHANGED allVars PROVE FbInv'
  OBVIOUS
<1> USE DEF allVars, fbVars, threadVars, udcVars, driverVars, controllerVars, hostVars
<1>1. UdcTypeOK' /\ FastbootTypeOK'
  BY DEF FbInv, TypesInv, UdcTypeOK, FastbootTypeOK
<1>2. EndpointsInv'
  BY DEF FbInv, EndpointsInv, HandlerAtRest, RequestsApart, InOnePlace, CompletedEnded,
         BulkOwed, TxnMatches, WaitIsOwed, EndpointOf
<1>3. HostWaits'
  BY DEF FbInv, HostWaits
<1>4. DownloadInv'
  BY DEF FbInv, DownloadInv, ReadIsFresh, DataBegins, ImageGrows, Xfer, ImageExpected,
         NoPartialDownload, Failed, Arrived
<1> QED BY <1>1, <1>2, <1>3, <1>4 DEF FbInv, TypesInv

LEMMA NextFbInv == FbInv /\ [Next]_allVars => FbInv'
<1> SUFFICES ASSUME FbInv, [Next]_allVars PROVE FbInv'
  OBVIOUS
<1>1. CASE ThreadStep
  BY <1>1, ThreadStepFbInv
<1>2. CASE FastbootIsr
  BY <1>2, StatusFbInv, SetupFbInv, CompleteFbInv, OtherFbInv DEF FastbootIsr
<1>3. CASE HostStep
  BY <1>3, SendCommandFbInv, SendImageFbInv, ReadAnswerFbInv DEF HostStep
<1>4. CASE \E k \in Controls : control_setup(k)
  BY <1>4, ControlSetupFbInv
<1>5. CASE control_goes_on \/ reset
  BY <1>5, ControlGoesOnFbInv, ResetFbInv
<1>6. CASE \E e \in Bulk : transfer_error(e)
  BY <1>6, TransferErrorFbInv
<1>7. CASE UNCHANGED allVars
  BY <1>7, StutterFbInv
<1> QED BY <1>1, <1>2, <1>3, <1>4, <1>5, <1>6, <1>7 DEF Next

\* The invariant of fastboot on the USB driver: types, endpoints, what the host
\* waits for, and the download.
THEOREM FastbootInvariant == Spec => []FbInv
BY InitFbInv, NextFbInv, PTL DEF Spec

\* Whatever the host sends, resets and configures, and whatever transfer fails:
\* the request that the thread queued is with the controller, on its way to the
\* handler or with it, in one place, until the thread hears of it; the handler
\* waits for no bulk transfer; and the event is not signalled for an older one.
THEOREM UsbCorrect == Spec => []UsbInv
BY FastbootInvariant, FbInvUsbInv, PTL

\* For a download of any length and commands of any length below BUF_SIZE: it is
\* taken for complete only when every whole buffer of it came from the host that
\* was told to send it, and the remainder too, unless a command as long as the
\* remainder took its place.
THEOREM DownloadsWhole == Spec => []NoPartialDownload
<1>1. FbInv => NoPartialDownload
  BY DEF FbInv, DownloadInv
<1> QED BY <1>1, FastbootInvariant, PTL

\* A step after which a handler runs is the look-up of a command that was read
\* since the last one.
LEMMA LookedUpFresh ==
    ASSUME FbInv, [Next]_allVars, pc = "done", pc' = "handler" PROVE fresh
<1>1. CASE command_read
  <2>1. call = "command" /\ txn_status >= 0
    BY <1>1 DEF command_read
  <2>2. txn_status = 0
    BY <2>1 DEF FbInv, TypesInv, FastbootTypeOK
  <2> QED BY <2>1, <2>2 DEF FbInv, DownloadInv, ReadIsFresh, Arrived
<1>2. ThreadStep => command_read
  BY DEF ThreadStep, wait_online, command_loop, usb_check, usb_queue, usb_wait,
         transaction_failed, handler_acks, cmd_download, data_sent, empty_download, image_read,
         answer_sent,
         boot_from_flash, Runs, AfterError, Ack
<1>3. ~FastbootIsr
  BY DEF FastbootIsr, irq_status, irq_setup, irq_complete, irq_other, notify_online,
         req_complete, NoCompletion, fbVars, threadVars
<1>4. ~HostStep /\ ~reset /\ ~control_goes_on /\ ~UNCHANGED allVars
  BY DEF HostStep, send_command, send_image, read_answer, reset, control_goes_on, threadVars,
         fbVars, allVars
<1>5. /\ ~ \E k \in Controls : control_setup(k)
      /\ ~ \E e \in Bulk : transfer_error(e)
  BY DEF control_setup, transfer_error, threadVars, fbVars
<1> QED BY <1>1, <1>2, <1>3, <1>4, <1>5 DEF Next

\* Each command the host sent is carried out at most once, and none that it did
\* not send.
THEOREM CommandsOnce == Spec => CommandOnce
<1>1. FbInv /\ [Next]_allVars => [pc = "done" /\ pc' = "handler" => fresh]_allVars
  BY LookedUpFresh
<1> QED BY <1>1, FastbootInvariant, PTL DEF Spec, CommandOnce

-----------------------------------------------------------------------------
(* The boot decisions and the recovery message                             *)

\* How often the keys are looked at matters only to the type of the count.
BootTypesInv ==
    /\ misc \in Messages \cup {Torn} /\ fota \in {"old", "new", "torn"}
    /\ cache \in {"update", "invalid"} /\ image \in [Parts -> {"good", "foreign", "torn"}]
    /\ marker \in {"none", "fastboot", "recovery"} /\ msg \in Messages
    /\ boot_into_recovery \in BOOLEAN /\ resetting \in BOOLEAN
    /\ machine \in {"off", "lk", "boot", "recovery", "fastboot"}
    /\ faults \in Nat

\* The command stays in the partition while it is followed, until the message
\* that takes its place is written.
MessageStands ==
    /\ machine = "lk" /\ boot_pc \in {"command", "header", "update", "updating"} => misc = msg
    /\ machine = "lk" /\ boot_pc \in {"header", "update", "updating", "report"} =>
           misc.command = "update-radio"
    /\ LK("clear") => misc.command = "boot-recovery" /\ msg.command = "none"
    /\ LK("clearing") => misc = Torn /\ msg.command = "none"

\* What is about to be reported is a failure, or the update is whole.
ReportTrue ==
    machine = "lk" /\ boot_pc \in {"report", "reporting"} =>
        msg.status \in {"failed-update", "invalid-update"} \/ fota = "new"

\* While the reset line takes effect the loader only loads what it would boot.
ResetSoon ==
    resetting => machine # "off" /\ (machine = "lk" => boot_pc \in {"load", "fastboot"})

\* Whatever is loaded now, the message has been followed.
LoadFollowed == LK("load") /\ ~resetting => misc.command # "boot-recovery" \/ faults > 0

BInv == /\ BootTypesInv /\ FotaCovered
        /\ MessageStands /\ ReportTrue /\ ResetSoon /\ LoadFollowed

-----------------------------------------------------------------------------
(* One step                                                                *)

LEMMA RecordFields ==
    /\ NoMessage \in Messages /\ NoMessage.command = "none" /\ NoMessage.status = "none"
    /\ Torn.command = "torn"
    /\ \A m \in Messages : m.command \in MessageCommands /\ m.status \in Statuses
BY DEF NoMessage, Messages, MessageCommands, Statuses, Torn

LEMMA InitBInv == BInit => BInv
<1> SUFFICES ASSUME BInit PROVE BInv
  OBVIOUS
<1>1. BootTypesInv
  <2>1. boot_into_recovery \in BOOLEAN /\ resetting \in BOOLEAN /\ faults \in Nat
    BY DEF BInit
  <2> QED BY <2>1, RecordFields DEF BInit, BootTypesInv
<1>2. FotaCovered /\ MessageStands /\ ReportTrue /\ ResetSoon /\ LoadFollowed
  BY DEF BInit, FotaCovered, MessageStands, ReportTrue, ResetSoon, LoadFollowed, LK
<1> QED BY <1>1, <1>2 DEF BInv

LEMMA PowerOnBInv == BInv /\ power_on => BInv'
<1> SUFFICES ASSUME BInv, power_on PROVE BInv'
  OBVIOUS
<1> USE DEF power_on, storage, history
<1>1. BootTypesInv'
  <2>1. boot_into_recovery' \in BOOLEAN
    BY DEF BInv, BootTypesInv
  <2> QED BY <2>1, RecordFields DEF BInv, BootTypesInv
<1>2. FotaCovered' /\ MessageStands' /\ ReportTrue' /\ ResetSoon' /\ LoadFollowed'
  BY RecordFields
     DEF BInv, BootTypesInv, FotaCovered, MessageStands, ReportTrue, ResetSoon, LoadFollowed, LK
<1> QED BY <1>1, <1>2 DEF BInv

LEMMA ReasonBInv == BInv /\ get_boot_reason => BInv'
<1> SUFFICES ASSUME BInv, get_boot_reason PROVE BInv'
  OBVIOUS
<1> USE DEF get_boot_reason, storage, history, LK, Goto
<1>1. BootTypesInv'
  <2>1. boot_into_recovery' \in BOOLEAN
    BY DEF BInv, BootTypesInv
  <2> QED BY <2>1, RecordFields DEF BInv, BootTypesInv
<1>2. FotaCovered' /\ MessageStands' /\ ReportTrue' /\ ResetSoon' /\ LoadFollowed'
  BY RecordFields
     DEF BInv, BootTypesInv, FotaCovered, MessageStands, ReportTrue, ResetSoon, LoadFollowed, LK
<1> QED BY <1>1, <1>2 DEF BInv

LEMMA KeysBInv == BInv /\ poll_keys => BInv'
<1> SUFFICES ASSUME BInv, poll_keys PROVE BInv'
  OBVIOUS
<1> USE DEF poll_keys, storage, history, LK, Goto
<1>1. BootTypesInv'
  <2>1. boot_into_recovery' \in BOOLEAN
    BY DEF BInv, BootTypesInv
  <2> QED BY <2>1, RecordFields DEF BInv, BootTypesInv
<1>2. FotaCovered' /\ MessageStands' /\ ReportTrue' /\ ResetSoon' /\ LoadFollowed'
  BY RecordFields
     DEF BInv, BootTypesInv, FotaCovered, MessageStands, ReportTrue, ResetSoon, LoadFollowed, LK
<1> QED BY <1>1, <1>2 DEF BInv

LEMMA MessageBInv == BInv /\ get_recovery_message => BInv'
<1> SUFFICES ASSUME BInv, get_recovery_message PROVE BInv'
  OBVIOUS
<1> USE DEF get_recovery_message, storage, history, LK, Goto, Spend
<1>1. BootTypesInv'
  BY RecordFields DEF BInv, BootTypesInv
<1>2. FotaCovered' /\ MessageStands' /\ ReportTrue' /\ ResetSoon' /\ LoadFollowed'
  BY RecordFields
     DEF BInv, BootTypesInv, FotaCovered, MessageStands, ReportTrue, ResetSoon, LoadFollowed, LK
<1> QED BY <1>1, <1>2 DEF BInv

LEMMA CommandBInv == BInv /\ recovery_command => BInv'
<1> SUFFICES ASSUME BInv, recovery_command PROVE BInv'
  OBVIOUS
<1> USE DEF recovery_command, storage, history, LK, Goto
<1>1. BootTypesInv'
  <2>1. msg' \in Messages
    <3>1. msg' = msg \/ msg' = [command |-> "none", status |-> "OKAY"]
      OBVIOUS
    <3> QED BY <3>1 DEF BInv, BootTypesInv, Messages, MessageCommands, Statuses
  <2>2. UNCHANGED <<misc, fota, cache, image, marker, boot_into_recovery, resetting, machine,
                    faults>>
    OBVIOUS
  <2> QED BY <2>1, <2>2, RecordFields DEF BInv, BootTypesInv
<1>2. FotaCovered' /\ MessageStands' /\ ReportTrue' /\ ResetSoon' /\ LoadFollowed'
  BY RecordFields
     DEF BInv, BootTypesInv, FotaCovered, MessageStands, ReportTrue, ResetSoon, LoadFollowed, LK
<1> QED BY <1>1, <1>2 DEF BInv

LEMMA HeaderBInv == BInv /\ read_update_header_for_bootloader => BInv'
<1> SUFFICES ASSUME BInv, read_update_header_for_bootloader PROVE BInv'
  OBVIOUS
<1> USE DEF read_update_header_for_bootloader, storage, history, LK, Goto, Spend, Report
<1>1. BootTypesInv'
  <2>1. msg' \in Messages /\ faults' \in Nat
    <3>1. /\ msg' = msg \/ msg' = [command |-> "boot-recovery", status |-> "invalid-update"]
          /\ faults' \in {faults, faults + 1}
      OBVIOUS
    <3> QED BY <3>1 DEF BInv, BootTypesInv, Messages, MessageCommands, Statuses
  <2>2. UNCHANGED <<misc, fota, cache, image, marker, boot_into_recovery, resetting, machine>>
    OBVIOUS
  <2> QED BY <2>1, <2>2, RecordFields DEF BInv, BootTypesInv
<1>2. FotaCovered' /\ MessageStands' /\ ReportTrue' /\ ResetSoon' /\ LoadFollowed'
  BY RecordFields
     DEF BInv, BootTypesInv, FotaCovered, MessageStands, ReportTrue, ResetSoon, LoadFollowed, LK
<1> QED BY <1>1, <1>2 DEF BInv

LEMMA UpdateBInv == BInv /\ update_firmware_image => BInv'
<1> SUFFICES ASSUME BInv, update_firmware_image PROVE BInv'
  OBVIOUS
<1> USE DEF update_firmware_image, history, LK, Goto, Spend, Report
<1>1. BootTypesInv'
  <2>1. msg' \in Messages /\ faults' \in Nat /\ fota' \in {"old", "new", "torn"}
    <3>1. /\ \/ msg' = msg
             \/ msg' = [command |-> "boot-recovery", status |-> "OKAY"]
             \/ msg' = [command |-> "boot-recovery", status |-> "failed-update"]
          /\ faults' \in {faults, faults + 1} /\ fota' \in {fota, "new", "torn"}
      OBVIOUS
    <3> QED BY <3>1 DEF BInv, BootTypesInv, Messages, MessageCommands, Statuses
  <2>2. UNCHANGED <<misc, cache, image, marker, boot_into_recovery, resetting, machine>>
    OBVIOUS
  <2> QED BY <2>1, <2>2, RecordFields DEF BInv, BootTypesInv
<1>2. FotaCovered' /\ MessageStands' /\ ReportTrue' /\ ResetSoon' /\ LoadFollowed'
  BY RecordFields
     DEF BInv, BootTypesInv, FotaCovered, MessageStands, ReportTrue, ResetSoon, LoadFollowed, LK
<1> QED BY <1>1, <1>2 DEF BInv

LEMMA ClearBInv == BInv /\ clear_command => BInv'
<1> SUFFICES ASSUME BInv, clear_command PROVE BInv'
  OBVIOUS
<1>1. /\ machine = "lk" /\ UNCHANGED <<fota, cache, image, msg, marker, resetting, machine>>
      /\ \/ /\ boot_pc = "clear" /\ misc' = Torn /\ boot_pc' = "clearing" /\ faults' = faults
         \/ /\ boot_pc = "clear" /\ misc' = misc /\ boot_pc' = "load" /\ faults' = faults + 1
         \/ /\ boot_pc = "clearing" /\ misc' = msg /\ boot_pc' = "load" /\ faults' = faults
         \/ /\ boot_pc = "clearing" /\ misc' = misc /\ boot_pc' = "load" /\ faults' = faults + 1
  BY DEF clear_command, set_recovery_message, LK, Goto, Spend, history
<1>2. boot_into_recovery' \in BOOLEAN
  BY DEF clear_command, set_recovery_message, history, BInv, BootTypesInv
<1>3. told \/ unset => told' \/ unset'
  <2>1. /\ told' = told \/ told' = (told \/ msg.status \in {"failed-update", "invalid-update"})
        /\ unset' = unset \/ unset' = TRUE
    BY DEF clear_command, set_recovery_message, history
  <2> QED BY <2>1, Zenon
<1>4. BootTypesInv'
  BY <1>1, <1>2 DEF BInv, BootTypesInv
<1>5. fota = "torn" => told \/ unset
  BY <1>1, RecordFields DEF BInv, FotaCovered, MessageStands, LK
<1>6. FotaCovered' /\ ReportTrue' /\ ResetSoon'
  BY <1>1, <1>3, <1>5, RecordFields DEF BInv, FotaCovered, MessageStands, ReportTrue, ResetSoon, LK
<1>7. MessageStands' /\ LoadFollowed'
  BY <1>1, RecordFields DEF BInv, BootTypesInv, MessageStands, LoadFollowed, LK
<1> QED BY <1>4, <1>6, <1>7 DEF BInv

LEMMA ReportBInv == BInv /\ report_update => BInv'
<1> SUFFICES ASSUME BInv, report_update PROVE BInv'
  OBVIOUS
<1> USE DEF report_update, set_recovery_message, history, LK, Goto, Spend
<1>1. BootTypesInv'
  <2>1. boot_into_recovery' \in BOOLEAN
    BY DEF BInv, BootTypesInv
  <2> QED BY <2>1, RecordFields DEF BInv, BootTypesInv
<1>2. FotaCovered' /\ MessageStands' /\ ReportTrue' /\ ResetSoon' /\ LoadFollowed'
  BY RecordFields
     DEF BInv, BootTypesInv, FotaCovered, MessageStands, ReportTrue, ResetSoon, LoadFollowed, LK
<1> QED BY <1>1, <1>2 DEF BInv

LEMMA RecoveryRebootBInv == BInv /\ recovery_reboot => BInv'
<1> SUFFICES ASSUME BInv, recovery_reboot PROVE BInv'
  OBVIOUS
<1> USE DEF recovery_reboot, Reboot, storage, history, LK, Goto
<1>1. BootTypesInv'
  <2>1. resetting' \in BOOLEAN
    BY DEF BInv, BootTypesInv
  <2> QED BY <2>1, RecordFields DEF BInv, BootTypesInv
<1>2. FotaCovered' /\ MessageStands' /\ ReportTrue' /\ ResetSoon' /\ LoadFollowed'
  BY RecordFields
     DEF BInv, BootTypesInv, FotaCovered, MessageStands, ReportTrue, ResetSoon, LoadFollowed, LK
<1> QED BY <1>1, <1>2 DEF BInv

LEMMA ResetBInv == BInv /\ machine_reset => BInv'
<1> SUFFICES ASSUME BInv, machine_reset PROVE BInv'
  OBVIOUS
<1> USE DEF machine_reset, storage, history
<1>1. BootTypesInv'
  <2>1. boot_into_recovery' \in BOOLEAN /\ resetting' \in BOOLEAN
    BY DEF BInv, BootTypesInv
  <2> QED BY <2>1, RecordFields DEF BInv, BootTypesInv
<1>2. FotaCovered' /\ MessageStands' /\ ReportTrue' /\ ResetSoon' /\ LoadFollowed'
  BY RecordFields
     DEF BInv, BootTypesInv, FotaCovered, MessageStands, ReportTrue, ResetSoon, LoadFollowed, LK
<1> QED BY <1>1, <1>2 DEF BInv

LEMMA LoadBInv == BInv /\ boot_linux_from_flash => BInv'
<1> SUFFICES ASSUME BInv, boot_linux_from_flash PROVE BInv'
  OBVIOUS
<1> USE DEF boot_linux_from_flash, boot_linux, Chosen, storage, history, LK, Goto
<1>1. BootTypesInv'
  BY RecordFields DEF BInv, BootTypesInv
<1>2. FotaCovered' /\ MessageStands' /\ ReportTrue' /\ ResetSoon' /\ LoadFollowed'
  BY RecordFields
     DEF BInv, BootTypesInv, FotaCovered, MessageStands, ReportTrue, ResetSoon, LoadFollowed, LK
<1> QED BY <1>1, <1>2 DEF BInv

LEMMA EnterFastbootBInv == BInv /\ enter_fastboot => BInv'
<1> SUFFICES ASSUME BInv, enter_fastboot PROVE BInv'
  OBVIOUS
<1> USE DEF enter_fastboot, storage, history, LK, Goto
<1>1. BootTypesInv'
  BY RecordFields DEF BInv, BootTypesInv
<1>2. FotaCovered' /\ MessageStands' /\ ReportTrue' /\ ResetSoon' /\ LoadFollowed'
  BY RecordFields
     DEF BInv, BootTypesInv, FotaCovered, MessageStands, ReportTrue, ResetSoon, LoadFollowed, LK
<1> QED BY <1>1, <1>2 DEF BInv

LEMMA FlashBInv == ASSUME BInv, NEW p \in Parts, cmd_flash(p) PROVE BInv'
<1> USE DEF cmd_flash, Listening, ram, history, Spend
<1>1. BootTypesInv'
  BY RecordFields DEF BInv, BootTypesInv
<1>2. FotaCovered' /\ MessageStands' /\ ReportTrue' /\ ResetSoon' /\ LoadFollowed'
  BY RecordFields
     DEF BInv, BootTypesInv, FotaCovered, MessageStands, ReportTrue, ResetSoon, LoadFollowed, LK
<1> QED BY <1>1, <1>2 DEF BInv

LEMMA EraseBInv == ASSUME BInv, NEW p \in Parts, cmd_erase(p) PROVE BInv'
<1> USE DEF cmd_erase, Listening, ram, history, Spend
<1>1. BootTypesInv'
  BY RecordFields DEF BInv, BootTypesInv
<1>2. FotaCovered' /\ MessageStands' /\ ReportTrue' /\ ResetSoon' /\ LoadFollowed'
  BY RecordFields
     DEF BInv, BootTypesInv, FotaCovered, MessageStands, ReportTrue, ResetSoon, LoadFollowed, LK
<1> QED BY <1>1, <1>2 DEF BInv

LEMMA BootCommandBInv == BInv /\ cmd_boot => BInv'
<1> SUFFICES ASSUME BInv, cmd_boot PROVE BInv'
  OBVIOUS
<1> USE DEF cmd_boot, boot_linux, Listening, storage, history, Goto
<1>1. BootTypesInv'
  BY RecordFields DEF BInv, BootTypesInv
<1>2. FotaCovered' /\ MessageStands' /\ ReportTrue' /\ ResetSoon' /\ LoadFollowed'
  BY RecordFields
     DEF BInv, BootTypesInv, FotaCovered, MessageStands, ReportTrue, ResetSoon, LoadFollowed, LK
<1> QED BY <1>1, <1>2 DEF BInv

LEMMA ContinueBInv == BInv /\ cmd_continue => BInv'
<1> SUFFICES ASSUME BInv, cmd_continue PROVE BInv'
  OBVIOUS
<1> USE DEF cmd_continue, Listening, storage, history, Goto
<1>1. BootTypesInv'
  BY RecordFields DEF BInv, BootTypesInv
<1>2. FotaCovered' /\ MessageStands' /\ ReportTrue' /\ ResetSoon' /\ LoadFollowed'
  BY RecordFields
     DEF BInv, BootTypesInv, FotaCovered, MessageStands, ReportTrue, ResetSoon, LoadFollowed, LK
<1> QED BY <1>1, <1>2 DEF BInv

LEMMA RebootCommandBInv == BInv /\ cmd_reboot => BInv'
<1> SUFFICES ASSUME BInv, cmd_reboot PROVE BInv'
  OBVIOUS
<1> USE DEF cmd_reboot, Reboot, Listening, storage, history, Goto
<1>1. BootTypesInv'
  <2>1. resetting' \in BOOLEAN
    BY DEF BInv, BootTypesInv
  <2> QED BY <2>1, RecordFields DEF BInv, BootTypesInv
<1>2. FotaCovered' /\ MessageStands' /\ ReportTrue' /\ ResetSoon' /\ LoadFollowed'
  BY RecordFields
     DEF BInv, BootTypesInv, FotaCovered, MessageStands, ReportTrue, ResetSoon, LoadFollowed, LK
<1> QED BY <1>1, <1>2 DEF BInv

LEMMA AsksBInv == ASSUME BInv, NEW c \in MessageCommands, os_asks(c) PROVE BInv'
<1> USE DEF os_asks, ram, Messages, Statuses
<1>1. BootTypesInv'
  BY RecordFields DEF BInv, BootTypesInv
<1>2. FotaCovered' /\ MessageStands' /\ ReportTrue' /\ ResetSoon' /\ LoadFollowed'
  BY RecordFields
     DEF BInv, BootTypesInv, FotaCovered, MessageStands, ReportTrue, ResetSoon, LoadFollowed, LK
<1> QED BY <1>1, <1>2 DEF BInv

LEMMA RebootsBInv == ASSUME BInv, NEW m \in {"none", "fastboot", "recovery"}, os_reboots(m) PROVE BInv'
<1> USE DEF os_reboots, storage, ram, history
<1>1. BootTypesInv'
  <2>1. resetting' \in BOOLEAN
    BY DEF BInv, BootTypesInv
  <2> QED BY <2>1, RecordFields DEF BInv, BootTypesInv
<1>2. FotaCovered' /\ MessageStands' /\ ReportTrue' /\ ResetSoon' /\ LoadFollowed'
  BY RecordFields
     DEF BInv, BootTypesInv, FotaCovered, MessageStands, ReportTrue, ResetSoon, LoadFollowed, LK
<1> QED BY <1>1, <1>2 DEF BInv

LEMMA CutBInv == BInv /\ cut => BInv'
<1> SUFFICES ASSUME BInv, cut PROVE BInv'
  OBVIOUS
<1> USE DEF cut, storage, ram, LK
<1>1. BootTypesInv'
  <2>1. resetting' \in BOOLEAN
    BY DEF BInv, BootTypesInv
  <2> QED BY <2>1, RecordFields DEF BInv, BootTypesInv
<1>2. FotaCovered' /\ MessageStands' /\ ReportTrue' /\ ResetSoon' /\ LoadFollowed'
  BY RecordFields
     DEF BInv, BootTypesInv, FotaCovered, MessageStands, ReportTrue, ResetSoon, LoadFollowed, LK
<1> QED BY <1>1, <1>2 DEF BInv

LEMMA StutterBInv == BInv /\ UNCHANGED bvars => BInv'
<1> SUFFICES ASSUME BInv, UNCHANGED bvars PROVE BInv'
  OBVIOUS
<1> USE DEF bvars, storage, ram, history
<1>1. BootTypesInv'
  BY RecordFields DEF BInv, BootTypesInv
<1>2. FotaCovered' /\ MessageStands' /\ ReportTrue' /\ ResetSoon' /\ LoadFollowed'
  BY RecordFields
     DEF BInv, BootTypesInv, FotaCovered, MessageStands, ReportTrue, ResetSoon, LoadFollowed, LK
<1> QED BY <1>1, <1>2 DEF BInv

-----------------------------------------------------------------------------
(* The theorems                                                            *)

LEMMA NextBInv == BInv /\ [BNext]_bvars => BInv'
<1> SUFFICES ASSUME BInv, [BNext]_bvars PROVE BInv'
  OBVIOUS
<1>1. CASE Loader
  BY <1>1, PowerOnBInv, ReasonBInv, KeysBInv, MessageBInv, CommandBInv, HeaderBInv, UpdateBInv,
     ClearBInv, ReportBInv, RecoveryRebootBInv, LoadBInv, EnterFastbootBInv
     DEF Loader
<1>2. CASE machine_reset \/ cut
  BY <1>2, ResetBInv, CutBInv
<1>3. CASE \E p \in Parts : cmd_flash(p) \/ cmd_erase(p)
  BY <1>3, FlashBInv, EraseBInv
<1>4. CASE cmd_boot \/ cmd_continue \/ cmd_reboot
  BY <1>4, BootCommandBInv, ContinueBInv, RebootCommandBInv
<1>5. CASE \E c \in MessageCommands : os_asks(c)
  BY <1>5, AsksBInv
<1>6. CASE \E m \in {"none", "fastboot", "recovery"} : os_reboots(m)
  BY <1>6, RebootsBInv
<1>7. CASE UNCHANGED bvars
  BY <1>7, StutterBInv
<1> QED BY <1>1, <1>2, <1>3, <1>4, <1>5, <1>6, <1>7 DEF BNext

\* The invariant of the boot: what is followed stands in the message, what is
\* reported is so, and the update is covered.
THEOREM BootInvariant == BootSpec => []BInv
BY InitBInv, NextBInv, PTL DEF BootSpec

\* Half of a radio's firmware never stays behind unnoticed: the message still
\* asks for the update, or a failure was reported, unless a power cut or the chip
\* spoiled the message too.
THEOREM UpdatesCovered == BootSpec => []FotaCovered
<1>1. BInv => FotaCovered
  BY DEF BInv
<1> QED BY <1>1, BootInvariant, PTL

\* The loader starts recovery only from what it loaded, and by then the message
\* was followed.
LEMMA RecoveryStarts ==
    ASSUME BInv, [BNext]_bvars, machine' = "recovery", machine = "lk", ~resetting
    PROVE  misc.command # "boot-recovery" \/ faults > 0
<1>1. CASE boot_linux_from_flash
  <2>1. LK("load")
    BY <1>1 DEF boot_linux_from_flash
  <2> QED BY <2>1 DEF BInv, LoadFollowed
<1>2. Loader => boot_linux_from_flash
  BY DEF Loader, power_on, get_boot_reason, poll_keys, get_recovery_message, recovery_command,
         read_update_header_for_bootloader, update_firmware_image, clear_command, report_update,
         set_recovery_message, recovery_reboot, enter_fastboot
<1>3. ~machine_reset /\ ~cut /\ ~cmd_boot /\ ~cmd_continue /\ ~cmd_reboot
  BY DEF machine_reset, cut, cmd_boot, cmd_continue, cmd_reboot, Listening
<1>4. /\ ~ \E p \in Parts : cmd_flash(p) \/ cmd_erase(p)
      /\ ~ \E c \in MessageCommands : os_asks(c)
      /\ ~ \E m \in {"none", "fastboot", "recovery"} : os_reboots(m)
  BY DEF cmd_flash, cmd_erase, Listening, os_asks, os_reboots
<1>5. ~ UNCHANGED bvars
  BY DEF bvars
<1> QED BY <1>1, <1>2, <1>3, <1>4, <1>5 DEF BNext

\* The message asks for recovery once: when recovery is started it no longer
\* does, unless the chip failed.
THEOREM RecoveryStartsOnce == BootSpec => RecoveryOnce
<1>1. BInv /\ [BNext]_bvars =>
         [machine' = "recovery" /\ machine = "lk" /\ ~resetting =>
             misc.command # "boot-recovery" \/ faults > 0]_bvars
  BY RecoveryStarts
<1> QED BY <1>1, BootInvariant, PTL DEF BootSpec, RecoveryOnce

PollsCounted == polls \in 0 .. Polls

\* What the run checks of the boot: its types, with the count of the looks at
\* the keys, and the update covered.
THEOREM BootCorrect == ASSUME Polls \in Nat PROVE BootSpec => []BootInv
<1>1. BInit => PollsCounted
  BY DEF BInit, PollsCounted
<1>2. PollsCounted /\ [BNext]_bvars => PollsCounted'
  <2> SUFFICES ASSUME PollsCounted, [BNext]_bvars PROVE PollsCounted'
    OBVIOUS
  <2>1. polls' \in {0, polls} \/ (polls < Polls /\ polls' = polls + 1)
    BY DEF BNext, Loader, power_on, get_boot_reason, poll_keys, get_recovery_message,
           recovery_command, read_update_header_for_bootloader, update_firmware_image,
           clear_command, report_update, set_recovery_message, recovery_reboot,
           boot_linux_from_flash, enter_fastboot, machine_reset, cut, cmd_flash, cmd_erase, cmd_boot,
           cmd_continue, cmd_reboot, os_asks, os_reboots, bvars, ram, PollsCounted
  <2> QED BY <2>1 DEF PollsCounted
<1>3. BInv /\ PollsCounted => BootInv
  BY DEF BInv, BootTypesInv, BootInv, BootTypeOK, PollsCounted
<1> QED BY <1>1, <1>2, <1>3, BootInvariant, PTL DEF BootSpec

===============================================================================
