------------------------------ MODULE ImxVideo ------------------------------
(***************************************************************************)
(* video/imx.c and video/imx_vpu.c: on i.MX boards the decoder writes into *)
(* the buffers of the display.  The thread of the video stream sends the   *)
(* number of a decoded buffer through a pipe; the main thread queues it    *)
(* for the display and sends those that are shown, or were skipped, back   *)
(* through a second pipe.  The units are copied, entry by entry, to a ring *)
(* of bytes that the decoder reads; a byte is the place it has in the      *)
(* stream.                                                                 *)
(***************************************************************************)
EXTENDS Integers, Sequences, FiniteSets

CONSTANTS
    Buffers,            \* the display's buffers, 0 .. 17 in the code
    THRESHOLD,          \* the buffers the display keeps: two
    STREAM_BUF_SIZE,    \* the size of the ring
    Units,              \* the units: sequences of the lengths of their entries
    MaxBytes            \* bound: no unit is begun after so many bytes

ASSUME ImxAssumption ==
    /\ Buffers \subseteq Nat /\ THRESHOLD \in Nat
    /\ STREAM_BUF_SIZE \in Nat \ {0, 1} /\ MaxBytes \in Nat
    /\ Units \subseteq Seq(1..STREAM_BUF_SIZE)

VARIABLES
    free,           \* the buffers the decoder may write
    pipefd, clearpipefd,
    queued,         \* the display's queue
    submitting,     \* the stream's thread: "idle", "clear", "take", "copy", "write"
    currentFrame,
    handling,       \* frame_handle: where it is, frame and prevframe
    ring, read_ptr, write_ptr,
    byte,           \* the bytes the decoder was told of
    copying,        \* the entries that are left, target_addr, the next byte
    overfull,       \* history: a unit did not fit, which is only printed
    imxExited       \* exit(EXIT_FAILURE)

bufferVars == <<free, pipefd, clearpipefd, queued, currentFrame, handling>>
streamVars == <<ring, read_ptr, write_ptr, byte, copying, overfull>>
imxVars == <<bufferVars, streamVars, submitting, imxExited>>

Addresses == 0..(STREAM_BUF_SIZE - 1)
NoCopy == [entries |-> <<>>, target |-> 0, byte |-> 0]
AtRest == [pc |-> "idle", frame |-> -1, prevframe |-> -1]

ImxInit ==
    /\ free = Buffers /\ pipefd = <<>> /\ clearpipefd = <<>> /\ queued = <<>>
    /\ submitting = "idle" /\ currentFrame = -1 /\ handling = AtRest
    /\ ring = [a \in Addresses |-> 0] /\ read_ptr = 0 /\ write_ptr = 0 /\ byte = 0
    /\ copying = NoCopy /\ overfull = FALSE /\ imxExited = FALSE

-----------------------------------------------------------------------------
(* Copied from the address on, without looking at the end of the ring. *)
memcpy(memory, address, first, length) ==
    [a \in DOMAIN memory |->
        IF a \in address..(address + length - 1) THEN first + a - address
        ELSE memory[a]]

(* Faulty: an entry that wraps leaves the address where it would be had it *)
(* begun at the start of the ring.                                         *)
AfterWrap_whole(length, room) == length
AfterWrap(length, room) == length - room

Unread == (write_ptr - read_ptr) % STREAM_BUF_SIZE

submitUnchanged == <<pipefd, queued, handling>>

(* decoder_renderer_submit_decode_unit: first the buffers that came back   *)
(* are given to the decoder.                                               *)
BeginUnit ==
    /\ submitting = "idle"
    /\ submitting' = "clear"
    /\ UNCHANGED <<bufferVars, streamVars, imxExited>>

vpu_clear ==
    /\ submitting = "clear"
    /\ IF clearpipefd = <<>>
       THEN submitting' = "take" /\ UNCHANGED <<free, clearpipefd>>
       ELSE /\ free' = free \union {Head(clearpipefd)}
            /\ clearpipefd' = Tail(clearpipefd)
            /\ UNCHANGED submitting
    /\ UNCHANGED <<submitUnchanged, currentFrame, streamVars, imxExited>>

(* vpu_decode, up to its loop. *)
TakeUnit ==
    /\ submitting = "take" /\ byte < MaxBytes
    /\ \E unit \in Units :
          copying' = [entries |-> unit, target |-> write_ptr, byte |-> byte]
    /\ submitting' = "copy"
    /\ UNCHANGED <<bufferVars, ring, read_ptr, write_ptr, byte, overfull, imxExited>>

(* The loop over the entries: one that passes the end of the ring is       *)
(* copied in two pieces.                                                   *)
CopyEntry ==
    /\ submitting = "copy" /\ copying.entries # <<>>
    /\ LET length == Head(copying.entries)
           target == copying.target
           room == STREAM_BUF_SIZE - target
       IN  /\ IF target + length > STREAM_BUF_SIZE
              THEN /\ ring' = memcpy(memcpy(ring, target, copying.byte, room),
                                     0, copying.byte + room, length - room)
                   /\ copying' = [entries |-> Tail(copying.entries),
                                  target |-> AfterWrap(length, room),
                                  byte |-> copying.byte + length]
              ELSE /\ ring' = memcpy(ring, target, copying.byte, length)
                   /\ copying' = [entries |-> Tail(copying.entries),
                                  target |-> target + length,
                                  byte |-> copying.byte + length]
           /\ overfull' = (overfull \/ copying.byte + length - byte
                                         >= STREAM_BUF_SIZE - Unread)
    /\ UNCHANGED <<bufferVars, read_ptr, write_ptr, byte, submitting, imxExited>>

(* The rest of vpu_decode.  The decoder takes a buffer that is free, or    *)
(* none when the unit holds no whole picture; without a free one it fails, *)
(* and the program ends.                                                   *)
vpu_decode ==
    /\ submitting = "copy" /\ copying.entries = <<>>
    /\ byte' = copying.byte
    /\ write_ptr' = (write_ptr + copying.byte - byte) % STREAM_BUF_SIZE
    /\ read_ptr' \in {read_ptr, write_ptr'}
    /\ copying' = NoCopy
    /\ \/ /\ submitting' = "idle"
          /\ UNCHANGED <<free, currentFrame, imxExited>>
       \/ /\ free # {}
          /\ currentFrame' \in free
          /\ free' = free \ {currentFrame'}
          /\ submitting' = "write"
          /\ UNCHANGED imxExited
       \/ /\ free = {} /\ imxExited' = TRUE
          /\ submitting' = "idle"
          /\ UNCHANGED <<free, currentFrame>>
    /\ UNCHANGED <<submitUnchanged, clearpipefd, ring, overfull>>

WriteFrame ==
    /\ submitting = "write"
    /\ pipefd' = Append(pipefd, currentFrame)
    /\ submitting' = "idle"
    /\ UNCHANGED <<free, clearpipefd, queued, currentFrame, handling, streamVars,
                   imxExited>>

-----------------------------------------------------------------------------
handleUnchanged == <<free, currentFrame, submitting, streamVars, imxExited>>

(* Faulty: a frame that was skipped is not sent back. *)
Skipped_kept(prev) == <<>>
Skipped(prev) == IF prev >= 0 THEN <<prev>> ELSE <<>>

(* frame_handle, when poll has seen the pipe: frames that a later one has  *)
(* overtaken go back at once.                                              *)
ReadFrame ==
    /\ handling.pc \in {"idle", "read"} /\ pipefd # <<>>
    /\ handling' = [pc |-> "read", frame |-> Head(pipefd), prevframe |-> Head(pipefd)]
    /\ pipefd' = Tail(pipefd)
    /\ clearpipefd' = clearpipefd \o Skipped(handling.prevframe)
    /\ UNCHANGED <<handleUnchanged, queued>>

QueueFrame ==
    /\ handling.pc = "read" /\ pipefd = <<>>
    /\ queued' = Append(queued, handling.frame)
    /\ handling' = IF Len(queued') > THRESHOLD THEN [AtRest EXCEPT !.pc = "dequeue"]
                                               ELSE AtRest
    /\ UNCHANGED <<handleUnchanged, pipefd, clearpipefd>>

(* VIDIOC_DQBUF waits until the display has done with its first buffer. *)
DequeueFrame ==
    /\ handling.pc = "dequeue"
    /\ clearpipefd' = Append(clearpipefd, Head(queued))
    /\ queued' = Tail(queued)
    /\ handling' = AtRest
    /\ UNCHANGED <<handleUnchanged, pipefd>>

imxNext ==
    /\ ~imxExited
    /\ \/ BeginUnit \/ vpu_clear \/ TakeUnit \/ CopyEntry \/ vpu_decode
       \/ WriteFrame
       \/ ReadFrame \/ QueueFrame \/ DequeueFrame

-----------------------------------------------------------------------------
Count(seq, b) == Cardinality({i \in DOMAIN seq : seq[i] = b})

(* imx.c:66, imx.c:113: every buffer is in one place at any time, with the *)
(* decoder, in a pipe, in the hands of a thread or with the display, so    *)
(* that none is lost and none is written while it is shown; the display    *)
(* keeps no more than THRESHOLD of them between two frames.                *)
BuffersKept ==
    /\ \A b \in Buffers :
         Count(pipefd, b) + Count(clearpipefd, b) + Count(queued, b)
           + (IF b \in free THEN 1 ELSE 0)
           + (IF submitting = "write" /\ currentFrame = b THEN 1 ELSE 0)
           + (IF handling.pc = "read" /\ handling.frame = b THEN 1 ELSE 0) = 1
    /\ handling.pc # "dequeue" => Len(queued) <= THRESHOLD

(* imx_vpu.c:177: what the decoder has not read yet is the stream, byte by *)
(* byte, also while more is copied, as long as no unit was too long for    *)
(* the ring.                                                               *)
StreamWhole ==
    ~overfull =>
        \A k \in 0..(Unread - 1) :
            ring[(read_ptr + k) % STREAM_BUF_SIZE] = byte - Unread + k
=============================================================================
