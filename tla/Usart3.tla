------------------------------- MODULE Usart3 -------------------------------
(***************************************************************************)
(* The receiver of the service port, driver/usart/uart3.c.  The receive    *)
(* interrupt stores a byte where the receiver was armed last and arms it   *)
(* again; the 1 ms tick of pollint closes a packet after RXTIMEOUT ticks   *)
(* without a byte (USART3_RxReaddy) and takes it (USART3_CheckSerial).     *)
(* The interrupt comes between any two steps of the main loop.             *)
(*                                                                         *)
(* The other side is external: it sends frames of FRAME bytes and leaves   *)
(* more than the timeout between two of them.                              *)
(***************************************************************************)
EXTENDS Naturals, Sequences

CONSTANTS
    FRAME,                  \* the bytes of a frame, PRO_STX first
    usart3_rx_buf_Number,   \* the size of the buffer (512)
    RXTIMEOUT,              \* ticks of silence that close a packet (10)
    OLD,                    \* what the buffer holds before anything was received
    NONE                    \* the receiver is not armed

VARIABLES
    usart3_rx_buf,
    armed,          \* the index HAL_UART_Receive_IT was given, or NONE
    rxcount, timeout, busy,
    pc,             \* what the main loop does next: "tick" or "check"
    sent,           \* bytes of the current frame that were sent
    silence,        \* ticks since then, up to one more than the receiver waits
    missed,         \* history: a byte of the current frame found no receiver
    packet          \* what CheckSerial took last

portVars == <<usart3_rx_buf, armed, rxcount, timeout, busy, pc, sent, silence, missed, packet>>

\* RBUF_NEXT_PT with an offset of 1
NextPt(i) == (i + 1) % usart3_rx_buf_Number

\* MX_USART3_UART_Init: armed at 0, and then counted.
Init ==
    /\ usart3_rx_buf = [i \in 0 .. usart3_rx_buf_Number - 1 |-> OLD]
    /\ armed = 0
    /\ rxcount = 1
    /\ timeout = 0 /\ busy = FALSE
    /\ pc = "tick"
    /\ sent = 0 /\ silence = 0 /\ missed = FALSE
    /\ packet = <<>>

\* The other side sends the next byte of its frame without a pause, or the first
\* one after a long one.
Sends ==
    \/ /\ sent \in 1 .. Len(FRAME) - 1 /\ silence < RXTIMEOUT
       /\ sent' = sent + 1
    \/ /\ sent \in {0, Len(FRAME)} /\ silence > RXTIMEOUT + 1
       /\ sent' = 1

\* HAL_UART_RxCpltCallback for USART3.
HAL_UART_RxCpltCallback ==
    /\ Sends
    /\ silence' = 0
    /\ missed' = ((sent' # 1 /\ missed) \/ armed = NONE)
    /\ usart3_rx_buf' = IF armed = NONE THEN usart3_rx_buf
                        ELSE [usart3_rx_buf EXCEPT ![armed] = FRAME[sent']]
    /\ \/ /\ armed # NONE /\ ~busy
          /\ timeout' = 0
          /\ armed' = rxcount
          /\ rxcount' = NextPt(rxcount)
       \/ /\ armed = NONE \/ busy
          /\ armed' = NONE
          /\ UNCHANGED <<timeout, rxcount>>
    /\ UNCHANGED <<busy, pc, packet>>

\* USART3_RxReaddy
USART3_RxReaddy ==
    /\ pc = "tick" /\ pc' = "check"
    /\ silence' = IF silence <= RXTIMEOUT + 1 THEN silence + 1 ELSE silence
    /\ IF ~busy /\ rxcount # 0
       THEN timeout' = timeout + 1 /\ busy' = (timeout' > RXTIMEOUT)
       ELSE UNCHANGED <<timeout, busy>>
    /\ UNCHANGED <<usart3_rx_buf, armed, rxcount, sent, missed, packet>>

\* USART3_CheckSerial as far as USART3_GetRxBufDat: the receiver stays armed where
\* it is.
USART3_CheckSerial ==
    /\ pc = "check" /\ pc' = "tick"
    /\ IF busy
       THEN /\ packet' = [i \in 1 .. rxcount |-> usart3_rx_buf[i - 1]]
            /\ rxcount' = 0
            /\ timeout' = 0
            /\ busy' = FALSE
       ELSE UNCHANGED <<packet, rxcount, timeout, busy>>
    /\ UNCHANGED <<usart3_rx_buf, armed, sent, silence, missed>>

Next == HAL_UART_RxCpltCallback \/ USART3_RxReaddy \/ USART3_CheckSerial

Spec == Init /\ [][Next]_portVars

-----------------------------------------------------------------------------
\* uart3.c:14: "if no data is received within 10 ms, take it as one packet".  The
\* packet taken in the silence after a frame is that frame.
PacketWhole ==
    [][ packet' # packet /\ sent = Len(FRAME) /\ ~missed => packet' = FRAME ]_portVars
=============================================================================
