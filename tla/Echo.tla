-------------------------------- MODULE Echo --------------------------------
(***************************************************************************)
(* The echo client str_cli (lib/str_cli.c) and the echo server str_echo    *)
(* (lib/str_echo.c) at the two ends of a TCP connection, with the buffered *)
(* readline of lib/readline.c.  my_read keeps what it has read in a static *)
(* buffer that belongs to no descriptor: what a call of readline leaves    *)
(* there goes to the next call, whatever it reads from.                    *)
(*                                                                         *)
(* A byte of the text is its position in the file fp.  The server may end  *)
(* at any time, and write and read may move any part of what is asked.     *)
(***************************************************************************)
EXTENDS Integers, Sequences, SequencesExt

CONSTANTS
    MAXLINE,   \* size of every buffer
    Texts      \* contents of fp: sequences of the three kinds of characters

Letter == "letter"
Newline == "newline"
Nul == "nul"

ASSUME MaxlineAssumption == MAXLINE \in Nat /\ MAXLINE >= 2
ASSUME TextsAssumption == Texts \subseteq Seq({Letter, Newline, Nul})

VARIABLES
    fp,         \* the text
    taken,      \* how much of it Fgets has taken
    began,      \* where the line it took last begins
    cli,        \* where str_cli is
    sendline,   \* what Writen has still to write
    recvline,   \* what readline has put together
    read_buf,   \* what my_read has left
    shown,      \* what Fputs has written
    toServer,   \* bytes on their way
    toClient,
    srv,        \* where str_echo is
    buf,        \* what it has still to write
    written     \* history: everything Writen was given

echoVars == <<fp, taken, began, cli, sendline, recvline, read_buf, shown,
              toServer, toClient, srv, buf, written>>

EchoTypeOK ==
    /\ fp \in Texts \union {<<>>} /\ taken \in 0 .. Len(fp) /\ began \in 0 .. taken
    /\ cli \in {"start", "Fgets", "Writen", "Readline", "return", "err_quit", "err_sys"}
    /\ \A s \in {sendline, recvline, read_buf, shown, toServer, toClient, buf, written} :
          Range(s) \subseteq 1 .. Len(fp)
    /\ Len(recvline) < MAXLINE /\ Len(read_buf) <= MAXLINE /\ Len(buf) <= MAXLINE
    /\ srv \in {"read", "Writen", "closed"}

EchoInit ==
    /\ fp = <<>> /\ taken = 0 /\ began = 0 /\ cli = "start"
    /\ sendline = <<>> /\ recvline = <<>> /\ read_buf = <<>> /\ shown = <<>>
    /\ toServer = <<>> /\ toClient = <<>> /\ srv = "read" /\ buf = <<>>
    /\ written = <<>>

(* str_cli is called for some file.                                        *)
str_cli ==
    /\ cli = "start"
    /\ fp' \in Texts
    /\ cli' = "Fgets"
    /\ UNCHANGED <<taken, began, sendline, recvline, read_buf, shown,
                   toServer, toClient, srv, buf, written>>

-----------------------------------------------------------------------------
(* The client.                                                             *)

Positions(a, b) == [k \in 1 .. b - a |-> a + k]

(* Where Fgets stops when it begins behind position a: after a newline, at *)
(* MAXLINE - 1 bytes, or at the end of the file.                           *)
LineEnd(a) ==
    CHOOSE b \in a + 1 .. Len(fp) :
        /\ \A k \in a + 1 .. b - 1 : fp[k] # Newline
        /\ b - a < MAXLINE
        /\ fp[b] = Newline \/ b - a = MAXLINE - 1 \/ b = Len(fp)

(* Variant: the terminating NUL is sent too (it stands for some letter).   *)
StringWithNul(a, b) == Positions(a, b) \o <<b>>

(* The string of the line from a to b: strlen stops at a NUL in the text.  *)
String(a, b) ==
    Positions(a, CHOOSE c \in a .. b :
                    /\ \A k \in a + 1 .. c : fp[k] # Nul
                    /\ c < b => fp[c + 1] = Nul)

(* Fgets has a line.                                                       *)
Fgets ==
    /\ cli = "Fgets" /\ taken < Len(fp)
    /\ began' = taken /\ taken' = LineEnd(taken)
    /\ sendline' = String(began', taken')
    /\ written' = written \o sendline'
    /\ cli' = "Writen"
    /\ UNCHANGED <<fp, recvline, read_buf, shown, toServer, toClient, srv, buf>>

(* End of file on fp.  The caller ends the process.                        *)
Fgets_eof ==
    /\ cli = "Fgets" /\ taken = Len(fp)
    /\ cli' = "return"
    /\ UNCHANGED <<fp, taken, began, sendline, recvline, read_buf, shown,
                   toServer, toClient, srv, buf, written>>

(* One round of writen.  What is written to a closed connection is lost.   *)
cli_write ==
    /\ cli = "Writen"
    /\ \E n \in 1 .. Len(sendline) :
        /\ toServer' = IF srv = "closed" THEN <<>> ELSE toServer \o SubSeq(sendline, 1, n)
        /\ sendline' = SubSeq(sendline, n + 1, Len(sendline))
    /\ UNCHANGED <<fp, taken, began, cli, recvline, read_buf, shown, toClient, srv, buf, written>>

cli_written ==
    /\ cli = "Writen" /\ sendline = <<>>
    /\ cli' = "Readline"
    /\ UNCHANGED <<fp, taken, began, sendline, recvline, read_buf, shown,
                   toServer, toClient, srv, buf, written>>

(* my_read finds its buffer empty and reads what is there.                 *)
my_read ==
    /\ cli = "Readline" /\ read_buf = <<>>
    /\ \E n \in 1 .. Len(toClient) :
        /\ n <= MAXLINE
        /\ read_buf' = SubSeq(toClient, 1, n)
        /\ toClient' = SubSeq(toClient, n + 1, Len(toClient))
    /\ UNCHANGED <<fp, taken, began, cli, sendline, recvline, shown, toServer, srv, buf, written>>

(* Fputs of what readline returns.                                         *)
Fputs(line) ==
    /\ shown' = shown \o line
    /\ recvline' = <<>>
    /\ cli' = "Fgets"

(* readline takes one byte from the buffer, and returns on a newline or    *)
(* when there is room for no more.                                         *)
readline ==
    /\ cli = "Readline" /\ read_buf # <<>>
    /\ LET c == Head(read_buf)
           line == Append(recvline, c)
       IN  /\ read_buf' = Tail(read_buf)
           /\ IF fp[c] = Newline \/ Len(line) = MAXLINE - 1
              THEN Fputs(line)
              ELSE recvline' = line /\ UNCHANGED <<shown, cli>>
    /\ UNCHANGED <<fp, taken, began, sendline, toServer, toClient, srv, buf, written>>

(* End of file from the server: what has been read so far is returned as a *)
(* line, and nothing at all makes str_cli quit.                            *)
readline_eof ==
    /\ cli = "Readline" /\ read_buf = <<>> /\ toClient = <<>> /\ srv = "closed"
    /\ IF recvline # <<>> THEN Fputs(recvline)
                          ELSE cli' = "err_quit" /\ UNCHANGED <<recvline, shown>>
    /\ UNCHANGED <<fp, taken, began, sendline, read_buf, toServer, toClient, srv, buf, written>>

(* write or read fails on a connection whose other end has gone.           *)
cli_err_sys ==
    /\ cli \in {"Writen", "Readline"} /\ srv = "closed"
    /\ cli' = "err_sys"
    /\ UNCHANGED <<fp, taken, began, sendline, recvline, read_buf, shown,
                   toServer, toClient, srv, buf, written>>

-----------------------------------------------------------------------------
(* The server.                                                             *)

CliEnded == cli \in {"return", "err_quit", "err_sys"}

srv_read ==
    /\ srv = "read"
    /\ \E n \in 1 .. Len(toServer) :
        /\ n <= MAXLINE
        /\ buf' = SubSeq(toServer, 1, n)
        /\ toServer' = SubSeq(toServer, n + 1, Len(toServer))
    /\ srv' = "Writen"
    /\ UNCHANGED <<fp, taken, began, cli, sendline, recvline, read_buf, shown, toClient, written>>

(* Variant: what write did not take is dropped.                            *)
srv_write_once ==
    /\ srv = "Writen"
    /\ \E n \in 1 .. Len(buf) : toClient' = toClient \o SubSeq(buf, 1, n)
    /\ buf' = <<>> /\ srv' = "read"
    /\ UNCHANGED <<fp, taken, began, cli, sendline, recvline, read_buf, shown, toServer, written>>

(* One round of its writen.                                                *)
srv_write ==
    /\ srv = "Writen"
    /\ \E n \in 1 .. Len(buf) :
        /\ toClient' = toClient \o SubSeq(buf, 1, n)
        /\ buf' = SubSeq(buf, n + 1, Len(buf))
        /\ srv' = IF n = Len(buf) THEN "read" ELSE "Writen"
    /\ UNCHANGED <<fp, taken, began, cli, sendline, recvline, read_buf, shown, toServer, written>>

(* End of file from the client: str_echo returns and the server closes.    *)
srv_eof ==
    /\ srv = "read" /\ toServer = <<>> /\ CliEnded
    /\ srv' = "closed"
    /\ UNCHANGED <<fp, taken, began, cli, sendline, recvline, read_buf, shown,
                   toServer, toClient, buf, written>>

(* read or write fails, or the server is ended; what it has not written    *)
(* and what it has not read is lost.                                       *)
srv_end ==
    /\ srv # "closed" /\ cli # "start"
    /\ srv' = "closed" /\ buf' = <<>> /\ toServer' = <<>>
    /\ UNCHANGED <<fp, taken, began, cli, sendline, recvline, read_buf, shown, toClient, written>>

Client ==
    \/ Fgets \/ Fgets_eof \/ cli_write \/ cli_written
    \/ my_read \/ readline \/ readline_eof \/ cli_err_sys

Server == srv_read \/ srv_write \/ srv_eof

EchoNext == str_cli \/ Client \/ Server \/ srv_end

EchoSpec == EchoInit /\ [][EchoNext]_echoVars

-----------------------------------------------------------------------------
(* The user sees what was sent, in order and cut nowhere but at the end;   *)
(* while the server is there, all of it before the next line is asked for. *)
(* Nothing stays in the static buffer of my_read between two lines, so a   *)
(* call of readline on another descriptor would not get a byte of this one.*)
EchoedInOrder ==
    /\ IsPrefix(shown, written)
    /\ cli = "Fgets" /\ srv # "closed" => shown = written
    /\ cli \in {"Fgets", "return"} => read_buf = <<>>

(* The line that Fgets took last reaches the server with its end: it has a *)
(* newline, with no NUL before it, or fills recvline.                      *)
Terminated ==
    /\ Len(String(began, taken)) = taken - began
    /\ fp[taken] = Newline \/ taken - began = MAXLINE - 1

(* str_cli does not wait for an echo for ever, unless the last line has no *)
(* newline or a NUL hides it: then client and server both wait in read.    *)
LineAnswered == (cli = "Writen" /\ Terminated) ~> cli \notin {"Writen", "Readline"}
=============================================================================
