-------------------------------- MODULE Optical --------------------------------
(***************************************************************************)
(* The optical receiver of src/core/src/optical.rs: the Decoder, which     *)
(* finds frames in a stream of bytes and refuses late, replayed and too    *)
(* frequent ones, and OpticalSession::service, which applies time frames   *)
(* and queues acknowledgements.  The light carries bytes of one sender     *)
(* (external), loses or garbles any of them and adds noise; the sender     *)
(* numbers its frames and repeats recent ones.                             *)
(*                                                                         *)
(* A frame is two preamble bytes, a head with its number and length, and a *)
(* tail that closes the CRC; the CRC tells every other sequence of bytes   *)
(* from a frame.  An option is a set of at most one value.                 *)
(***************************************************************************)
EXTENDS Integers, Sequences

CONSTANTS
  SequenceModulus,   \* 2^32, of the sequence numbers
  Lag,               \* how far back the sender repeats
  MaxSent,           \* bound on the frames sent
  RxTimeout,         \* RX_TIMEOUT_MS
  DutyWindow,        \* DUTY_WINDOW_MS
  MaxInWindow,       \* MAX_FRAMES_PER_WINDOW
  AuthorizationTime, \* DEFAULT_AUTHORIZATION_MS
  MaxFrameLen        \* MAX_FRAME_LEN

ASSUME OpticalAssumption ==
  /\ {SequenceModulus, MaxSent, MaxInWindow, AuthorizationTime} \subseteq Nat \ {0}
  /\ {Lag, RxTimeout, DutyWindow} \subseteq Nat
  /\ 2 * Lag < SequenceModulus
  /\ MaxFrameLen \in Nat /\ MaxFrameLen >= 4

VARIABLES
  buffer,            \* Decoder: the bytes of the frame so far,
  byteAge,           \*   the option of the time since last_byte_ms,
  windowAge,         \*   the time since window_start_ms,
  framesInWindow,    \*   the frames accepted since,
  lastSequence,      \*   and the option of the last one's sequence
  opticalState,      \* OpticalSession: its state,
  deadline,          \*   the option of the time left of its authorization,
  ack,               \*   and the option of a queued acknowledgement
  provisioned,       \* a policy and keys that allow time frames; else receive_only
  newest,            \* the sender: its newest frame,
  sending, sentBytes,\*   the one it sends, and how much of it is sent
  accepted,          \* history: the frame accepted last, 0 for none
  rtcSetBy,          \* history: the frame that set the RTC last
  authorizedFor      \* history: the option of the time since authorize_until

decoderVars == <<buffer, byteAge, windowAge, framesInWindow, lastSequence, accepted>>
sessionStateVars == <<opticalState, deadline, ack, rtcSetBy, authorizedFor>>
senderVars == <<newest, sending, sentBytes>>
opticalVars == <<decoderVars, sessionStateVars, provisioned, senderVars>>

Sync1 == <<"sync", 1>>
Sync2 == <<"sync", 2>>
BytesOf(k) == <<Sync1, Sync2, <<"head", k>>, <<"tail", k>> >>

(* Noise, alone or in place of a lost byte; taken for a head it announces  *)
(* a frame of that length.                                                 *)
Garbage == {<<"noise", length>> : length \in {4, 5, MaxFrameLen + 1}} \cup {Sync1}

HeaderLen == 3
Expected(header) == IF header[1] = "noise" THEN header[2] ELSE 4

(* Odd frames are TimeSync frames.                                         *)
TimeSync(k) == k % 2 = 1

-----------------------------------------------------------------------------
OpticalInit ==
  /\ buffer = <<>> /\ byteAge = {} /\ windowAge = 0 /\ framesInWindow = 0
  /\ lastSequence = {} /\ accepted = 0
  /\ opticalState = "Idle" /\ deadline = {} /\ ack = {}
  /\ rtcSetBy = 0 /\ authorizedFor = {}
  /\ provisioned \in BOOLEAN
  /\ newest = 1 /\ sending = 1 /\ sentBytes = 0

(* expire, with which every poll begins.                                   *)
OverDue == 0 \in deadline
Polled == [state |-> IF OverDue THEN "Expired" ELSE opticalState,
           ack |-> IF OverDue THEN {} ELSE ack]

(* A byte that completes no frame.                                         *)
OnlyReceiving ==
  /\ opticalState' = IF Polled.state = "Idle" THEN "Receiving" ELSE Polled.state
  /\ ack' = Polled.ack
  /\ UNCHANGED <<deadline, rtcSetBy, authorizedFor>>

(* Wrong on purpose: only the very last frame counts as a repetition.      *)
ReplayOfLast(sequence) == sequence \in lastSequence

(* The sequence is the last one's, or more than half the range ahead of    *)
(* it, which is behind.                                                    *)
Replay(sequence) ==
  \E last \in lastSequence :
    \/ sequence = last
    \/ 2 * ((sequence + SequenceModulus - last) % SequenceModulus) > SequenceModulus

(* service, with a frame the decoder accepted: a time frame sets the RTC   *)
(* if its payload is well-formed and fresh and the session is authorized;  *)
(* the adapter may fail.                                                   *)
Serve(k) ==
  /\ UNCHANGED <<deadline, authorizedFor>>
  /\ \/ /\ TimeSync(k)
        /\ \/ opticalState' = "Authenticated"
           \/ deadline \in {{}, {0}} /\ opticalState' = "Expired"
           \/ deadline \notin {{}, {0}} /\ opticalState' = "Authorized"
        /\ ack' = Polled.ack /\ UNCHANGED rtcSetBy
     \/ /\ TimeSync(k) => deadline \notin {{}, {0}}
        /\ opticalState' = "AckQueued" /\ ack' = {k % SequenceModulus}
        /\ rtcSetBy' = IF TimeSync(k) THEN k ELSE rtcSetBy

(* decode of a whole frame's bytes, accept_sequence, and the service of    *)
(* what it lets through.  Without keys decode refuses time frames.         *)
Complete(bytes) ==
  LET intact == bytes = BytesOf(bytes[HeaderLen][2])
      k == bytes[HeaderLen][2]
      decoded == intact /\ (TimeSync(k) => provisioned)
      newWindow == windowAge >= DutyWindow
      frames == IF newWindow THEN 0 ELSE framesInWindow
      refused == frames >= MaxInWindow \/ Replay(k % SequenceModulus)
  IN \/ /\ ~decoded
        /\ OnlyReceiving
        /\ UNCHANGED <<windowAge, framesInWindow, lastSequence, accepted>>
     \/ /\ decoded
        /\ windowAge' = IF newWindow THEN 0 ELSE windowAge
        /\ IF refused
             THEN /\ OnlyReceiving
                  /\ framesInWindow' = frames /\ UNCHANGED <<lastSequence, accepted>>
             ELSE /\ Serve(k)
                  /\ framesInWindow' = frames + 1
                  /\ lastSequence' = {k % SequenceModulus} /\ accepted' = k

(* Decoder::push: the first byte after a gap is dropped with the frame it  *)
(* would have belonged to, or would have begun.                            *)
Push(byte) ==
  LET late == \E age \in byteAge : age > RxTimeout
      grown == Append(buffer, byte)
      collects == Len(grown) < HeaderLen \/ Len(grown) < Expected(grown[HeaderLen])
      tooLong == Len(grown) >= HeaderLen /\ Expected(grown[HeaderLen]) > MaxFrameLen
      completes == ~late /\ Len(buffer) >= 2 /\ ~collects
  IN /\ byteAge' = {0}
     /\ buffer' = CASE late -> <<>>
                    [] ~late /\ (buffer = <<>> \/ (Len(buffer) = 1 /\ byte # Sync2)) ->
                         IF byte = Sync1 THEN <<byte>> ELSE <<>>
                    [] OTHER -> IF tooLong \/ completes THEN <<>> ELSE grown
     /\ \/ completes /\ Complete(grown)
        \/ /\ ~completes
           /\ OnlyReceiving
           /\ UNCHANGED <<windowAge, framesInWindow, lastSequence, accepted>>
     /\ UNCHANGED provisioned

-----------------------------------------------------------------------------
(* The sender begins its next frame, or one of its last again.             *)
BeginFrame ==
  /\ sentBytes = 4
  /\ sending' \in {k \in newest - Lag .. newest + 1 : k >= 1 /\ k <= MaxSent}
  /\ newest' = IF sending' > newest THEN sending' ELSE newest
  /\ sentBytes' = 0
  /\ UNCHANGED <<decoderVars, sessionStateVars, provisioned>>

SendByte ==
  sentBytes < 4 /\ sentBytes' = sentBytes + 1 /\ UNCHANGED <<newest, sending>>

ByteArrives == SendByte /\ Push(BytesOf(sending)[sentBytes + 1])

ByteLost ==
  SendByte /\ UNCHANGED <<decoderVars, sessionStateVars, provisioned>>

Noise ==
  (\E byte \in Garbage : Push(byte)) /\ UNCHANGED senderVars

(* now_ms advances; the ages stop where they make no difference any more.  *)
OpticalTimePasses ==
  /\ byteAge' = {IF age <= RxTimeout THEN age + 1 ELSE age : age \in byteAge}
  /\ windowAge' = IF windowAge < DutyWindow THEN windowAge + 1 ELSE windowAge
  /\ deadline' = {IF left > 0 THEN left - 1 ELSE left : left \in deadline}
  /\ authorizedFor' = {IF age < AuthorizationTime THEN age + 1 ELSE age : age \in authorizedFor}
  /\ UNCHANGED <<buffer, framesInWindow, lastSequence, accepted, opticalState, ack, rtcSetBy,
                 provisioned, senderVars>>

(* The firmware's now_ms is made of 16 bits of fast ticks: when they wrap, *)
(* both differences are huge.  The firmware authorizes nothing.            *)
TickCountWraps ==
  /\ deadline = {} /\ ~provisioned
  /\ byteAge' = {RxTimeout + 1 : age \in byteAge} /\ windowAge' = DutyWindow
  /\ UNCHANGED <<buffer, framesInWindow, lastSequence, accepted, sessionStateVars,
                 provisioned, senderVars>>

(* authorize_until, a moment ahead, and clear_authorization.               *)
AuthorizeUntil ==
  /\ provisioned
  /\ deadline' = {AuthorizationTime} /\ authorizedFor' = {0}
  /\ UNCHANGED <<decoderVars, opticalState, ack, rtcSetBy, provisioned, senderVars>>

ClearAuthorization ==
  /\ deadline' = {} /\ authorizedFor' = {}
  /\ opticalState' = IF opticalState = "Authorized" THEN "Expired" ELSE opticalState
  /\ UNCHANGED <<decoderVars, ack, rtcSetBy, provisioned, senderVars>>

(* OpticalSession::reset, for another association.                         *)
OpticalReset ==
  /\ buffer' = <<>> /\ byteAge' = {} /\ windowAge' \in {0, DutyWindow}
  /\ framesInWindow' = 0 /\ lastSequence' = {} /\ accepted' = 0 /\ rtcSetBy' = 0
  /\ opticalState' = "Idle" /\ deadline' = {} /\ ack' = {} /\ authorizedFor' = {}
  /\ UNCHANGED <<provisioned, senderVars>>

OpticalNext ==
  \/ BeginFrame \/ ByteArrives \/ ByteLost \/ Noise
  \/ OpticalTimePasses \/ TickCountWraps
  \/ AuthorizeUntil \/ ClearAuthorization \/ OpticalReset

OpticalSpec == OpticalInit /\ [][OpticalNext]_opticalVars

-----------------------------------------------------------------------------
(* The decoder holds less than a frame that begins with the preamble, and  *)
(* never more frames than its window allows.                               *)
OpticalTypeOK ==
  /\ Len(buffer) < MaxFrameLen
  /\ \A i \in 1 .. Len(buffer) : i < 3 => buffer[i] = BytesOf(1)[i]
  /\ byteAge \subseteq 0 .. RxTimeout + 1 /\ windowAge \in 0 .. DutyWindow
  /\ framesInWindow \in 0 .. MaxInWindow
  /\ lastSequence \subseteq 0 .. SequenceModulus - 1
  /\ opticalState \in {"Idle", "Receiving", "Authenticated", "Authorized", "AckQueued", "Expired"}
  /\ deadline \subseteq 0 .. AuthorizationTime /\ ack \subseteq 0 .. SequenceModulus - 1
  /\ newest \in 1 .. MaxSent /\ sending \in 1 .. newest /\ sentBytes \in 0 .. 4
  /\ accepted \in 0 .. newest /\ rtcSetBy \in 0 .. accepted

(* Whatever is lost, garbled, repeated or late, and although the numbers   *)
(* wrap, a frame is accepted at most once and never after a newer one; the *)
(* RTC is set by the frame just accepted, while the authorization lasts.   *)
FramesAdvance ==
  [][/\ accepted' \notin {0, accepted} => accepted' > accepted
     /\ rtcSetBy' \notin {0, rtcSetBy} =>
          rtcSetBy' = accepted' /\ rtcSetBy' > accepted
          /\ \E age \in authorizedFor : age < AuthorizationTime]_opticalVars
=============================================================================
