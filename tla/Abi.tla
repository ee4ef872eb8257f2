-------------------------------- MODULE Abi --------------------------------
(***************************************************************************)
(* How a C program enters the POSIX layer. A program linked with musl traps *)
(* with a number and six words, and ruxmusl picks the handler that number   *)
(* has on this architecture in a build with these features. A program       *)
(* linked with ruxlibc calls C functions that call the handlers themselves. *)
(* Either way a refusal starts as an AxError somewhere in the kernel, and   *)
(* ends as -1 and a code in errno, which the threads share in a build       *)
(* without thread-local storage.                                           *)
(*                                                                         *)
(* A row of a table of ids is <<id, number, feature>>, "core" where the id  *)
(* needs no feature. A row of a table of arms is <<id, handler, parameters>>:*)
(* the words args[0], args[1], ... in order, each cast to a c_int ("i"), to *)
(* an unsigned int ("u") or passed whole ("w"), and "c" for a constant of   *)
(* the arm that takes no word. EXIT has one arm without and one (EXIT_MT)   *)
(* with the feature "multitask".                                           *)
(***************************************************************************)
EXTENDS Integers, Sequences, FiniteSets

CONSTANTS
  ABI_INT_MOD,     \* the values of a c_int (2^32 in the code)
  AbiThreads,      \* the threads of the program
  AbiFeatures,     \* the sets of features of the builds
  AbiTables,       \* the architectures of the musl builds
  AbiErrors,       \* the refusals the kernel may come up with
  AbiValues,       \* the results it may come up with, below ABI_INT_MOD \div 2
  AbiCalls         \* bound on the calls of a behaviour

ASSUME AbiAssumption ==
  /\ ABI_INT_MOD \in Nat /\ ABI_INT_MOD > 8192
  /\ AbiValues \subseteq 0 .. (ABI_INT_MOD \div 2 - 1)

VARIABLES
  build,           \* what the image was built as: library, architecture, features
  errno,           \* the errno of each thread, or of all of them
  seen,            \* what the last call of a thread returned to the program
  meant,           \* what the kernel answered: the same result, and the code of the last refusal
  abi_calls

abi_vars == <<build, errno, seen, meant, abi_calls>>

\* riscv64: the enum SyscallId, and the match of syscall().
RiscvIds == {
  <<"INVALID", 999, "core">>, <<"GETCWD", 17, "fs">>, <<"EPOLL_CREATE1", 20, "epoll">>,
  <<"EPOLL_CTL", 21, "epoll">>, <<"EPOLL_PWAIT", 22, "epoll">>, <<"DUP", 23, "fd">>, <<"DUP3", 24, "fd">>,
  <<"FCNTL", 25, "fd">>, <<"IOCTL", 29, "fd">>, <<"MKDIRAT", 34, "fs">>, <<"UNLINKAT", 35, "fs">>,
  <<"RENAMEAT", 38, "fs">>, <<"FCHOWNAT", 54, "fs">>, <<"OPENAT", 56, "fs">>, <<"CLOSE", 57, "fd">>,
  <<"PIPE2", 59, "pipe">>, <<"GETDENTS64", 61, "fs">>, <<"LSEEK", 62, "fs">>, <<"READ", 63, "core">>,
  <<"WRITE", 64, "core">>, <<"READV", 65, "fd">>, <<"WRITEV", 66, "fd">>, <<"PSELECT6", 72, "select">>,
  <<"PPOLL", 73, "poll">>, <<"READLINKAT", 78, "fs">>, <<"NEWFSTATAT", 79, "fs">>, <<"FSTAT", 80, "fs">>,
  <<"FSYNC", 82, "fs">>, <<"FDATASYNC", 83, "fs">>, <<"EXIT", 93, "core">>,
  <<"SET_TID_ADDRESS", 96, "multitask">>, <<"FUTEX", 98, "multitask">>, <<"NANO_SLEEP", 101, "core">>,
  <<"CLOCK_SETTIME", 112, "core">>, <<"CLOCK_GETTIME", 113, "core">>, <<"SCHED_YIELD", 124, "core">>,
  <<"SIGALTSTACK", 132, "signal">>, <<"RT_SIGACTION", 134, "signal">>, <<"RT_SIGPROCMASK", 135, "signal">>,
  <<"UNAME", 160, "core">>, <<"GETRLIMIT", 163, "core">>, <<"SETRLIMIT", 164, "core">>,
  <<"UMASK", 166, "core">>, <<"GETPID", 172, "multitask">>, <<"GETEUID", 175, "core">>,
  <<"GETEGID", 177, "core">>, <<"SYSINFO", 179, "core">>, <<"SOCKET", 198, "net">>, <<"BIND", 200, "net">>,
  <<"LISTEN", 201, "net">>, <<"ACCEPT", 202, "net">>, <<"CONNECT", 203, "net">>,
  <<"GETSOCKNAME", 204, "net">>, <<"GETPEERNAME", 205, "net">>, <<"SENDTO", 206, "net">>,
  <<"RECVFROM", 207, "net">>, <<"SETSOCKOPT", 208, "net">>, <<"SHUTDOWN", 210, "net">>,
  <<"SENDMSG", 211, "net">>, <<"MUNMAP", 215, "alloc">>, <<"MREMAP", 216, "alloc">>,
  <<"CLONE", 220, "multitask">>, <<"MMAP", 222, "alloc">>, <<"MADVISE", 233, "alloc">>,
  <<"MPROTECT", 226, "alloc">>, <<"PRLIMIT64", 261, "core">>}
RiscvArms1 == {
  <<"INVALID", "sys_invalid", <<"c">>>>, <<"GETCWD", "sys_getcwd", <<"w", "w">>>>,
  <<"EPOLL_CREATE1", "sys_epoll_create", <<"i">>>>, <<"EPOLL_CTL", "sys_epoll_ctl", <<"i", "i", "i", "w">>>>,
  <<"EPOLL_PWAIT", "sys_epoll_pwait", <<"i", "w", "i", "i", "w", "w">>>>, <<"DUP", "sys_dup", <<"i">>>>,
  <<"DUP3", "sys_dup3", <<"i", "i", "i">>>>, <<"FCNTL", "sys_fcntl", <<"i", "i", "w">>>>,
  <<"IOCTL", "sys_ioctl", <<"i", "w", "w">>>>, <<"MKDIRAT", "sys_mkdirat", <<"i", "w", "u">>>>,
  <<"UNLINKAT", "sys_unlinkat", <<"i", "w", "i">>>>,
  <<"FCHOWNAT", "sys_fchownat", <<"i", "w", "u", "u", "i">>>>,
  <<"RENAMEAT", "sys_renameat", <<"i", "w", "i", "w">>>>, <<"OPENAT", "sys_openat", <<"w", "w", "i", "u">>>>,
  <<"CLOSE", "sys_close", <<"i">>>>, <<"PIPE2", "sys_pipe2", <<"w", "i">>>>,
  <<"GETDENTS64", "sys_getdents64", <<"i", "w", "w">>>>, <<"LSEEK", "sys_lseek", <<"i", "w", "i">>>>,
  <<"READ", "sys_read", <<"i", "w", "w">>>>, <<"WRITE", "sys_write", <<"i", "w", "w">>>>,
  <<"READV", "sys_readv", <<"i", "w", "i">>>>, <<"WRITEV", "sys_writev", <<"i", "w", "i">>>>,
  <<"PSELECT6", "sys_pselect6", <<"i", "w", "w", "w", "w", "w">>>>,
  <<"PPOLL", "sys_ppoll", <<"w", "w", "w", "w", "w">>>>,
  <<"READLINKAT", "sys_readlinkat", <<"i", "w", "w", "w">>>>,
  <<"NEWFSTATAT", "sys_newfstatat", <<"i", "w", "w", "i">>>>, <<"FSTAT", "sys_fstat", <<"i", "w">>>>,
  <<"FSYNC", "sys_fsync", <<"i">>>>, <<"GETEUID", "sys_geteuid", <<>>>>, <<"GETEGID", "sys_getegid", <<>>>>}
RiscvArms2 == {
  <<"FDATASYNC", "sys_fdatasync", <<"i">>>>, <<"EXIT", "sys_exit", <<"i">>>>,
  <<"EXIT_MT", "sys_pthread_exit", <<"w">>>>, <<"SET_TID_ADDRESS", "sys_set_tid_address", <<"w">>>>,
  <<"FUTEX", "sys_futex", <<"w", "u", "i", "w", "i", "i">>>>, <<"NANO_SLEEP", "sys_nanosleep", <<"w", "w">>>>,
  <<"CLOCK_SETTIME", "sys_clock_settime", <<"i", "w">>>>,
  <<"CLOCK_GETTIME", "sys_clock_gettime", <<"i", "w">>>>, <<"SCHED_YIELD", "sys_sched_yield", <<>>>>,
  <<"SIGALTSTACK", "sys_sigaltstack", <<"w", "w">>>>,
  <<"RT_SIGACTION", "sys_rt_sigaction", <<"i", "w", "w", "w">>>>,
  <<"RT_SIGPROCMASK", "sys_rt_sigprocmask", <<"i", "w", "w", "w">>>>, <<"UNAME", "sys_uname", <<"w">>>>,
  <<"GETRLIMIT", "sys_getrlimit", <<"i", "w">>>>, <<"SETRLIMIT", "sys_setrlimit", <<"i", "w">>>>,
  <<"UMASK", "sys_umask", <<"u">>>>, <<"GETPID", "sys_getpid", <<>>>>, <<"SYSINFO", "sys_sysinfo", <<"w">>>>,
  <<"SOCKET", "sys_socket", <<"i", "i", "i">>>>, <<"BIND", "sys_bind", <<"i", "w", "u">>>>,
  <<"LISTEN", "sys_listen", <<"i", "i">>>>, <<"ACCEPT", "sys_accept", <<"i", "w", "w">>>>,
  <<"CONNECT", "sys_connect", <<"i", "w", "u">>>>, <<"GETSOCKNAME", "sys_getsockname", <<"i", "w", "w">>>>,
  <<"GETPEERNAME", "sys_getpeername", <<"i", "w", "w">>>>,
  <<"SENDTO", "sys_sendto", <<"i", "w", "w", "i", "w", "u">>>>,
  <<"RECVFROM", "sys_recvfrom", <<"i", "w", "w", "i", "w", "w">>>>,
  <<"SETSOCKOPT", "sys_setsockopt", <<"i", "i", "i", "w", "u">>>>,
  <<"SHUTDOWN", "sys_shutdown", <<"i", "i">>>>, <<"SENDMSG", "sys_sendmsg", <<"i", "w", "i">>>>,
  <<"MUNMAP", "sys_munmap", <<"w", "w">>>>}
RiscvArms3 == {
  <<"MREMAP", "sys_mremap", <<"w", "w", "w", "i", "w">>>>,
  <<"CLONE", "sys_clone", <<"i", "w", "w", "w", "w">>>>,
  <<"MMAP", "sys_mmap", <<"w", "w", "i", "i", "i", "w">>>>, <<"MADVISE", "sys_madvise", <<"w", "w", "i">>>>,
  <<"MPROTECT", "sys_mprotect", <<"w", "w", "i">>>>, <<"PRLIMIT64", "sys_prlimit64", <<"i", "i", "w", "w">>>>}
\* aarch64.
AarchIds == {
  <<"INVALID", 999, "core">>, <<"GETCWD", 17, "fs">>, <<"EPOLL_CREATE1", 20, "epoll">>,
  <<"EPOLL_CTL", 21, "epoll">>, <<"EPOLL_PWAIT", 22, "epoll">>, <<"DUP", 23, "fd">>, <<"DUP3", 24, "fd">>,
  <<"FCNTL", 25, "fd">>, <<"IOCTL", 29, "fd">>, <<"MKDIRAT", 34, "fs">>, <<"UNLINKAT", 35, "fs">>,
  <<"RENAMEAT", 38, "fs">>, <<"FACCESSAT", 48, "fs">>, <<"CHDIR", 49, "fs">>, <<"FCHOWNAT", 54, "fs">>,
  <<"OPENAT", 56, "fs">>, <<"CLOSE", 57, "fd">>, <<"PIPE2", 59, "pipe">>, <<"GETDENTS64", 61, "fs">>,
  <<"LSEEK", 62, "fs">>, <<"READ", 63, "core">>, <<"WRITE", 64, "core">>, <<"READV", 65, "fd">>,
  <<"WRITEV", 66, "fd">>, <<"PREAD64", 67, "fs">>, <<"PWRITE64", 68, "fs">>, <<"PREADV", 69, "fs">>,
  <<"PSELECT6", 72, "select">>, <<"PPOLL", 73, "poll">>, <<"READLINKAT", 78, "fs">>,
  <<"NEWFSTATAT", 79, "fs">>, <<"FSTAT", 80, "fs">>, <<"FSYNC", 82, "fs">>, <<"FDATASYNC", 83, "fs">>,
  <<"CAP_GET", 90, "core">>, <<"EXIT", 93, "core">>, <<"SET_TID_ADDRESS", 96, "multitask">>,
  <<"FUTEX", 98, "multitask">>, <<"NANO_SLEEP", 101, "core">>, <<"CLOCK_SETTIME", 112, "core">>,
  <<"CLOCK_GETTIME", 113, "core">>, <<"SCHED_YIELD", 124, "core">>, <<"KILL", 129, "signal">>,
  <<"SIGALTSTACK", 132, "signal">>, <<"RT_SIGACTION", 134, "signal">>, <<"RT_SIGPROCMASK", 135, "signal">>,
  <<"SETGID", 144, "core">>, <<"SETUID", 146, "core">>, <<"TIMES", 153, "core">>, <<"SETPGID", 154, "core">>,
  <<"GETPGID", 155, "core">>, <<"UNAME", 160, "core">>, <<"GETRLIMIT", 163, "core">>,
  <<"SETRLIMIT", 164, "core">>, <<"UMASK", 166, "core">>, <<"GETPID", 172, "multitask">>,
  <<"GETPPID", 173, "core">>, <<"GETUID", 174, "core">>, <<"GETEUID", 175, "core">>,
  <<"GETGID", 176, "core">>, <<"GETEGID", 177, "core">>, <<"GETTID", 178, "core">>,
  <<"SYSINFO", 179, "core">>, <<"SOCKET", 198, "net">>, <<"BIND", 200, "net">>, <<"LISTEN", 201, "net">>,
  <<"ACCEPT", 202, "net">>, <<"CONNECT", 203, "net">>, <<"GETSOCKNAME", 204, "net">>,
  <<"GETPEERNAME", 205, "net">>, <<"SENDTO", 206, "net">>, <<"RECVFROM", 207, "net">>,
  <<"SETSOCKOPT", 208, "net">>, <<"SHUTDOWN", 210, "net">>, <<"SENDMSG", 211, "net">>,
  <<"MUNMAP", 215, "alloc">>, <<"MREMAP", 216, "alloc">>, <<"CLONE", 220, "multitask">>,
  <<"EXECVE", 221, "fs">>, <<"MMAP", 222, "alloc">>, <<"MPROTECT", 226, "alloc">>, <<"MSYNC", 227, "alloc">>,
  <<"MADVISE", 233, "alloc">>, <<"PRLIMIT64", 261, "core">>, <<"GETRANDOM", 278, "core">>}
AarchArms1 == {
  <<"INVALID", "sys_invalid", <<"c">>>>, <<"GETCWD", "sys_getcwd", <<"w", "w">>>>,
  <<"EPOLL_CREATE1", "sys_epoll_create", <<"i">>>>, <<"EPOLL_CTL", "sys_epoll_ctl", <<"i", "i", "i", "w">>>>,
  <<"EPOLL_PWAIT", "sys_epoll_pwait", <<"i", "w", "i", "i", "w", "w">>>>, <<"DUP", "sys_dup", <<"i">>>>,
  <<"DUP3", "sys_dup3", <<"i", "i", "i">>>>, <<"FCNTL", "sys_fcntl", <<"i", "i", "w">>>>,
  <<"IOCTL", "sys_ioctl", <<"i", "w", "w">>>>, <<"MKDIRAT", "sys_mkdirat", <<"i", "w", "u">>>>,
  <<"UNLINKAT", "sys_unlinkat", <<"i", "w", "i">>>>,
  <<"FCHOWNAT", "sys_fchownat", <<"i", "w", "u", "u", "i">>>>,
  <<"RENAMEAT", "sys_renameat", <<"i", "w", "i", "w">>>>,
  <<"FACCESSAT", "sys_faccessat", <<"i", "w", "i", "i">>>>, <<"CHDIR", "sys_chdir", <<"w">>>>,
  <<"OPENAT", "sys_openat", <<"w", "w", "i", "u">>>>, <<"CLOSE", "sys_close", <<"i">>>>,
  <<"PIPE2", "sys_pipe2", <<"w", "i">>>>, <<"GETDENTS64", "sys_getdents64", <<"i", "w", "w">>>>,
  <<"LSEEK", "sys_lseek", <<"i", "w", "i">>>>, <<"READ", "sys_read", <<"i", "w", "w">>>>,
  <<"WRITE", "sys_write", <<"i", "w", "w">>>>, <<"READV", "sys_readv", <<"i", "w", "i">>>>,
  <<"WRITEV", "sys_writev", <<"i", "w", "i">>>>, <<"PREAD64", "sys_pread64", <<"i", "w", "w", "w">>>>,
  <<"PWRITE64", "sys_pwrite64", <<"i", "w", "w", "w">>>>, <<"PREADV", "sys_preadv", <<"i", "w", "i", "w">>>>,
  <<"PSELECT6", "sys_pselect6", <<"i", "w", "w", "w", "w", "w">>>>}
AarchArms2 == {
  <<"PPOLL", "sys_ppoll", <<"w", "w", "w", "w", "w">>>>,
  <<"READLINKAT", "sys_readlinkat", <<"i", "w", "w", "w">>>>,
  <<"NEWFSTATAT", "sys_newfstatat", <<"i", "w", "w", "i">>>>, <<"FSTAT", "sys_fstat", <<"i", "w">>>>,
  <<"FSYNC", "sys_fsync", <<"i">>>>, <<"GETEUID", "sys_geteuid", <<>>>>, <<"GETEGID", "sys_getegid", <<>>>>,
  <<"GETGID", "sys_getgid", <<>>>>, <<"GETTID", "sys_gettid", <<>>>>,
  <<"FDATASYNC", "sys_fdatasync", <<"i">>>>, <<"CAP_GET", "sys_cap_get", <<"w", "w">>>>,
  <<"EXIT", "sys_exit", <<"i">>>>, <<"EXIT_MT", "sys_pthread_exit", <<"w">>>>,
  <<"SET_TID_ADDRESS", "sys_set_tid_address", <<"w">>>>,
  <<"FUTEX", "sys_futex", <<"w", "u", "i", "w", "i", "i">>>>, <<"NANO_SLEEP", "sys_nanosleep", <<"w", "w">>>>,
  <<"CLOCK_SETTIME", "sys_clock_settime", <<"i", "w">>>>,
  <<"CLOCK_GETTIME", "sys_clock_gettime", <<"i", "w">>>>, <<"SCHED_YIELD", "sys_sched_yield", <<>>>>,
  <<"KILL", "sys_kill", <<"i", "i">>>>, <<"SIGALTSTACK", "sys_sigaltstack", <<"w", "w">>>>,
  <<"RT_SIGACTION", "sys_rt_sigaction", <<"i", "w", "w", "w">>>>,
  <<"RT_SIGPROCMASK", "sys_rt_sigprocmask", <<"i", "w", "w", "w">>>>, <<"SETGID", "sys_setgid", <<"u">>>>,
  <<"SETUID", "sys_setuid", <<"u">>>>, <<"TIMES", "sys_times", <<"w">>>>,
  <<"SETPGID", "sys_setpgid", <<"i", "i">>>>, <<"GETPGID", "sys_getpgid", <<"i">>>>,
  <<"UNAME", "sys_uname", <<"w">>>>, <<"GETRLIMIT", "sys_getrlimit", <<"i", "w">>>>,
  <<"SETRLIMIT", "sys_setrlimit", <<"i", "w">>>>, <<"UMASK", "sys_umask", <<"u">>>>,
  <<"GETPID", "sys_getpid", <<>>>>, <<"GETPPID", "sys_getppid", <<>>>>, <<"GETUID", "sys_getuid", <<>>>>,
  <<"SYSINFO", "sys_sysinfo", <<"w">>>>, <<"SOCKET", "sys_socket", <<"i", "i", "i">>>>,
  <<"BIND", "sys_bind", <<"i", "w", "u">>>>, <<"LISTEN", "sys_listen", <<"i", "i">>>>,
  <<"ACCEPT", "sys_accept", <<"i", "w", "w">>>>, <<"CONNECT", "sys_connect", <<"i", "w", "u">>>>,
  <<"GETSOCKNAME", "sys_getsockname", <<"i", "w", "w">>>>}
AarchArms3 == {
  <<"GETPEERNAME", "sys_getpeername", <<"i", "w", "w">>>>,
  <<"SENDTO", "sys_sendto", <<"i", "w", "w", "i", "w", "u">>>>,
  <<"RECVFROM", "sys_recvfrom", <<"i", "w", "w", "i", "w", "w">>>>,
  <<"SETSOCKOPT", "sys_setsockopt", <<"i", "i", "i", "w", "u">>>>,
  <<"SHUTDOWN", "sys_shutdown", <<"i", "i">>>>, <<"SENDMSG", "sys_sendmsg", <<"i", "w", "i">>>>,
  <<"MUNMAP", "sys_munmap", <<"w", "w">>>>, <<"MREMAP", "sys_mremap", <<"w", "w", "w", "i", "w">>>>,
  <<"CLONE", "sys_clone", <<"i", "w", "w", "w", "w">>>>, <<"EXECVE", "sys_execve", <<"w", "w", "w">>>>,
  <<"MMAP", "sys_mmap", <<"w", "w", "i", "i", "i", "w">>>>, <<"MADVISE", "sys_madvise", <<"w", "w", "i">>>>,
  <<"MPROTECT", "sys_mprotect", <<"w", "w", "i">>>>, <<"MSYNC", "sys_msync", <<"w", "w", "i">>>>,
  <<"PRLIMIT64", "sys_prlimit64", <<"i", "i", "w", "w">>>>,
  <<"GETRANDOM", "sys_getrandom", <<"w", "w", "i">>>>}
\* x86_64.
X86Ids1 == {
  <<"INVALID", 999, "core">>, <<"READ", 0, "core">>, <<"WRITE", 1, "core">>, <<"OPEN", 2, "fs">>,
  <<"CLOSE", 3, "fd">>, <<"STAT", 4, "fs">>, <<"FSTAT", 5, "fs">>, <<"LSTAT", 6, "fs">>,
  <<"POLL", 7, "poll">>, <<"LSEEK", 8, "fs">>, <<"MMAP", 9, "alloc">>, <<"MPROTECT", 10, "alloc">>,
  <<"MUNMAP", 11, "alloc">>, <<"RT_SIGACTION", 13, "signal">>, <<"RT_SIGPROCMASK", 14, "signal">>,
  <<"IOCTL", 16, "fd">>, <<"PREAD64", 17, "fs">>, <<"PWRITE64", 18, "fs">>, <<"READV", 19, "fd">>,
  <<"WRITEV", 20, "fd">>, <<"PIPE", 22, "pipe">>, <<"SELECT", 23, "select">>, <<"SCHED_YIELD", 24, "core">>,
  <<"MREMAP", 25, "alloc">>, <<"MSYNC", 26, "alloc">>, <<"MADVISE", 28, "alloc">>, <<"DUP", 32, "fd">>,
  <<"DUP2", 33, "fd">>, <<"NANO_SLEEP", 35, "core">>, <<"GETPID", 39, "multitask">>, <<"SOCKET", 41, "net">>,
  <<"CONNECT", 42, "net">>, <<"ACCEPT", 43, "net">>, <<"SENDTO", 44, "net">>, <<"RECVFROM", 45, "net">>,
  <<"SENDMSG", 46, "net">>, <<"SHUTDOWN", 48, "net">>, <<"BIND", 49, "net">>, <<"LISTEN", 50, "net">>,
  <<"GETSOCKNAME", 51, "net">>, <<"GETPEERNAME", 52, "net">>, <<"SETSOCKOPT", 54, "net">>,
  <<"CLONE", 56, "multitask">>, <<"EXECVE", 59, "fs">>, <<"EXIT", 60, "core">>, <<"KILL", 62, "signal">>,
  <<"UNAME", 63, "core">>, <<"FCNTL", 72, "fd">>, <<"FSYNC", 74, "fs">>, <<"FDATASYNC", 75, "fs">>,
  <<"GETDENTS", 78, "fs">>, <<"GETCWD", 79, "fs">>}
X86Ids2 == {
  <<"CHDIR", 80, "fs">>, <<"RENAME", 82, "fs">>, <<"MKDIR", 83, "fs">>, <<"RMDIR", 84, "fs">>,
  <<"UNLINK", 87, "fs">>, <<"READLINK", 89, "fs">>, <<"UMASK", 95, "core">>, <<"GETTIMEOFDAY", 96, "core">>,
  <<"GETRLIMIT", 97, "core">>, <<"SYSINFO", 99, "core">>, <<"TIMES", 100, "core">>, <<"GETUID", 102, "core">>,
  <<"GETGID", 104, "core">>, <<"SETUID", 105, "core">>, <<"SETGID", 106, "core">>, <<"GETPPID", 110, "core">>,
  <<"GETPGID", 121, "core">>, <<"CAPGET", 125, "core">>, <<"SIGALTSTACK", 131, "signal">>,
  <<"PRCTL", 157, "core">>, <<"ARCH_PRCTL", 158, "core">>, <<"GETTID", 186, "multitask">>,
  <<"FUTEX", 202, "multitask">>, <<"EPOLL_CREATE", 213, "epoll">>, <<"GETDENTS64", 217, "fs">>,
  <<"SET_TID_ADDRESS", 218, "multitask">>, <<"CLOCK_SETTIME", 227, "core">>, <<"CLOCK_GETTIME", 228, "core">>,
  <<"EPOLL_WAIT", 232, "epoll">>, <<"EPOLL_CTL", 233, "epoll">>, <<"OPENAT", 257, "fs">>,
  <<"MKDIRAT", 258, "fs">>, <<"NEWFSTATAT", 262, "fs">>, <<"UNLINKAT", 263, "fs">>, <<"RENAMEAT", 264, "fs">>,
  <<"READLINKAT", 267, "fs">>, <<"FACCESSAT", 269, "fs">>, <<"PSELECT6", 270, "select">>,
  <<"PPOLL", 271, "poll">>, <<"EPOLL_PWAIT", 281, "epoll">>, <<"EPOLL_CREATE1", 291, "epoll">>,
  <<"DUP3", 292, "fd">>, <<"PIPE2", 293, "pipe">>, <<"PREADV", 295, "fs">>, <<"PRLIMIT64", 302, "core">>,
  <<"GETRANDOM", 318, "core">>}
X86Arms1 == {
  <<"INVALID", "sys_invalid", <<"c">>>>, <<"READ", "sys_read", <<"i", "w", "w">>>>,
  <<"WRITE", "sys_write", <<"i", "w", "w">>>>, <<"OPEN", "sys_open", <<"w", "i", "u">>>>,
  <<"CLOSE", "sys_close", <<"i">>>>, <<"STAT", "sys_stat", <<"w", "w">>>>,
  <<"FSTAT", "sys_fstat", <<"i", "w">>>>, <<"LSTAT", "sys_stat", <<"w", "w">>>>,
  <<"POLL", "sys_poll", <<"w", "w", "i">>>>, <<"LSEEK", "sys_lseek", <<"i", "w", "i">>>>,
  <<"MMAP", "sys_mmap", <<"w", "w", "i", "i", "i", "w">>>>, <<"MPROTECT", "sys_mprotect", <<"w", "w", "i">>>>,
  <<"MUNMAP", "sys_munmap", <<"w", "w">>>>, <<"RT_SIGACTION", "sys_rt_sigaction", <<"i", "w", "w", "w">>>>,
  <<"RT_SIGPROCMASK", "sys_rt_sigprocmask", <<"i", "w", "w", "w">>>>,
  <<"IOCTL", "sys_ioctl", <<"i", "w", "w">>>>, <<"PREAD64", "sys_pread64", <<"i", "w", "w", "w">>>>,
  <<"PWRITE64", "sys_pwrite64", <<"i", "w", "w", "w">>>>, <<"READV", "sys_readv", <<"i", "w", "i">>>>,
  <<"WRITEV", "sys_writev", <<"i", "w", "i">>>>, <<"PIPE", "sys_pipe", <<"w">>>>,
  <<"SELECT", "sys_select", <<"i", "w", "w", "w", "w">>>>, <<"SCHED_YIELD", "sys_sched_yield", <<>>>>,
  <<"MREMAP", "sys_mremap", <<"w", "w", "w", "i", "w">>>>}
X86Arms2 == {
  <<"MSYNC", "sys_msync", <<"w", "w", "i">>>>, <<"MADVISE", "sys_madvise", <<"w", "w", "i">>>>,
  <<"DUP", "sys_dup", <<"i">>>>, <<"DUP2", "sys_dup2", <<"i", "i">>>>,
  <<"NANO_SLEEP", "sys_nanosleep", <<"w", "w">>>>, <<"GETPID", "sys_getpid", <<>>>>,
  <<"SOCKET", "sys_socket", <<"i", "i", "i">>>>, <<"CONNECT", "sys_connect", <<"i", "w", "u">>>>,
  <<"ACCEPT", "sys_accept", <<"i", "w", "w">>>>, <<"SENDTO", "sys_sendto", <<"i", "w", "w", "i", "w", "u">>>>,
  <<"RECVFROM", "sys_recvfrom", <<"i", "w", "w", "i", "w", "w">>>>,
  <<"SENDMSG", "sys_sendmsg", <<"i", "w", "i">>>>, <<"SHUTDOWN", "sys_shutdown", <<"i", "i">>>>,
  <<"BIND", "sys_bind", <<"i", "w", "u">>>>, <<"LISTEN", "sys_listen", <<"i", "i">>>>,
  <<"GETSOCKNAME", "sys_getsockname", <<"i", "w", "w">>>>,
  <<"GETPEERNAME", "sys_getpeername", <<"i", "w", "w">>>>,
  <<"SETSOCKOPT", "sys_setsockopt", <<"i", "i", "i", "w", "u">>>>,
  <<"CLONE", "sys_clone", <<"i", "w", "w", "w", "w", "w">>>>, <<"EXECVE", "sys_execve", <<"w", "w", "w">>>>,
  <<"EXIT", "sys_exit", <<"i">>>>, <<"EXIT_MT", "sys_pthread_exit", <<"w">>>>,
  <<"KILL", "sys_kill", <<"i", "i">>>>, <<"UNAME", "sys_uname", <<"w">>>>,
  <<"FCNTL", "sys_fcntl", <<"i", "i", "w">>>>, <<"FSYNC", "sys_fsync", <<"i">>>>}
X86Arms3 == {
  <<"FDATASYNC", "sys_fdatasync", <<"i">>>>, <<"GETDENTS", "sys_getdents64", <<"i", "w", "w">>>>,
  <<"GETCWD", "sys_getcwd", <<"w", "w">>>>, <<"CHDIR", "sys_chdir", <<"w">>>>,
  <<"RENAME", "sys_rename", <<"w", "w">>>>, <<"MKDIR", "sys_mkdir", <<"w", "u">>>>,
  <<"RMDIR", "sys_rmdir", <<"w">>>>, <<"UNLINK", "sys_unlink", <<"w">>>>,
  <<"READLINK", "sys_readlinkat", <<"c", "w", "w", "w">>>>, <<"UMASK", "sys_umask", <<"u">>>>,
  <<"GETTIMEOFDAY", "sys_gettimeofday", <<"w", "i">>>>, <<"GETRLIMIT", "sys_getrlimit", <<"i", "w">>>>,
  <<"SYSINFO", "sys_sysinfo", <<"w">>>>, <<"TIMES", "sys_times", <<"w">>>>, <<"GETUID", "sys_getuid", <<>>>>,
  <<"GETGID", "sys_getgid", <<>>>>, <<"SETUID", "sys_setuid", <<"u">>>>, <<"SETGID", "sys_setgid", <<"u">>>>,
  <<"GETPPID", "sys_getppid", <<>>>>, <<"GETPGID", "sys_getpgid", <<"i">>>>,
  <<"CAPGET", "sys_cap_get", <<"w", "w">>>>, <<"SIGALTSTACK", "sys_sigaltstack", <<"w", "w">>>>,
  <<"PRCTL", "sys_prctl", <<"i", "w", "w", "w", "w">>>>, <<"ARCH_PRCTL", "sys_arch_prctl", <<"i", "w">>>>,
  <<"GETTID", "sys_gettid", <<>>>>, <<"FUTEX", "sys_futex", <<"w", "u", "i", "w", "i", "i">>>>,
  <<"EPOLL_CREATE", "sys_epoll_create", <<"i">>>>, <<"GETDENTS64", "sys_getdents64", <<"i", "w", "w">>>>,
  <<"SET_TID_ADDRESS", "sys_set_tid_address", <<"w">>>>,
  <<"CLOCK_SETTIME", "sys_clock_settime", <<"i", "w">>>>,
  <<"CLOCK_GETTIME", "sys_clock_gettime", <<"i", "w">>>>,
  <<"EPOLL_WAIT", "sys_epoll_wait", <<"i", "w", "i", "i">>>>,
  <<"EPOLL_CTL", "sys_epoll_ctl", <<"i", "i", "i", "w">>>>}
X86Arms4 == {
  <<"OPENAT", "sys_openat", <<"w", "w", "i", "u">>>>, <<"MKDIRAT", "sys_mkdirat", <<"i", "w", "u">>>>,
  <<"NEWFSTATAT", "sys_newfstatat", <<"i", "w", "w", "i">>>>,
  <<"UNLINKAT", "sys_unlinkat", <<"i", "w", "i">>>>, <<"RENAMEAT", "sys_renameat", <<"i", "w", "i", "w">>>>,
  <<"READLINKAT", "sys_readlinkat", <<"i", "w", "w", "w">>>>,
  <<"FACCESSAT", "sys_faccessat", <<"i", "w", "i", "i">>>>,
  <<"PSELECT6", "sys_pselect6", <<"i", "w", "w", "w", "w", "w">>>>,
  <<"PPOLL", "sys_ppoll", <<"w", "w", "w", "w", "w">>>>,
  <<"EPOLL_PWAIT", "sys_epoll_pwait", <<"i", "w", "i", "i", "w", "w">>>>,
  <<"EPOLL_CREATE1", "sys_epoll_create", <<"i">>>>, <<"DUP3", "sys_dup3", <<"i", "i", "i">>>>,
  <<"PIPE2", "sys_pipe2", <<"w", "i">>>>, <<"PREADV", "sys_preadv", <<"i", "w", "i", "w">>>>,
  <<"PRLIMIT64", "sys_prlimit64", <<"i", "i", "w", "w">>>>,
  <<"GETRANDOM", "sys_getrandom", <<"w", "w", "i">>>>}

\* The tables of an architecture.
IdsOf ==
  [riscv64 |-> RiscvIds,
   aarch64 |-> AarchIds,
   x86_64  |-> X86Ids1 \cup X86Ids2]
ArmsOf ==
  [riscv64 |-> RiscvArms1 \cup RiscvArms2 \cup RiscvArms3,
   aarch64 |-> AarchArms1 \cup AarchArms2 \cup AarchArms3,
   x86_64  |-> X86Arms1 \cup X86Arms2 \cup X86Arms3 \cup X86Arms4]

\* The ids that exist in a build, and SyscallId::try_from(n).unwrap_or(INVALID).
IdsIn(arch, features) == {r \in IdsOf[arch] : r[3] \in features \cup {"core"}}
try_from(arch, features, n) ==
  IF \E r \in IdsIn(arch, features) : r[2] = n
  THEN (CHOOSE r \in IdsIn(arch, features) : r[2] = n)[1]
  ELSE "INVALID"

\* The arm of an id.
ArmName(id, features) == IF id = "EXIT" /\ "multitask" \in features THEN "EXIT_MT" ELSE id
Arm(arch, features, id) == CHOOSE a \in ArmsOf[arch] : a[1] = ArmName(id, features)

\* AxError, in the order of its codes from 1, and the LinuxError each becomes.
AxErrors ==
  <<"AddrInUse", "AlreadyExists", "BadAddress", "BadState", "ConnectionRefused", "ConnectionReset",
    "DirectoryNotEmpty", "InvalidData", "InvalidInput", "Io", "IsADirectory", "NoMemory",
    "NotADirectory", "NotConnected", "NotFound", "PermissionDenied", "ResourceBusy", "StorageFull",
    "UnexpectedEof", "Unsupported", "WouldBlock", "WriteZero", "InProgress">>
linux_from ==
  [AddrInUse |-> "EADDRINUSE", AlreadyExists |-> "EEXIST", BadAddress |-> "EFAULT", BadState |-> "EFAULT",
   ConnectionRefused |-> "ECONNREFUSED", ConnectionReset |-> "ECONNRESET",
   DirectoryNotEmpty |-> "ENOTEMPTY", InvalidInput |-> "EINVAL", InvalidData |-> "EINVAL", Io |-> "EIO",
   IsADirectory |-> "EISDIR", NoMemory |-> "ENOMEM", NotADirectory |-> "ENOTDIR",
   NotConnected |-> "ENOTCONN", NotFound |-> "ENOENT", PermissionDenied |-> "EACCES",
   ResourceBusy |-> "EBUSY", StorageFull |-> "ENOSPC", Unsupported |-> "ENOSYS",
   UnexpectedEof |-> "EIO", WriteZero |-> "EIO", WouldBlock |-> "EAGAIN", InProgress |-> "EINPROGRESS"]
LinuxErrors ==
  [ENOENT |-> 2, EIO |-> 5, EAGAIN |-> 11, ENOMEM |-> 12, EACCES |-> 13, EFAULT |-> 14, EBUSY |-> 16,
   EEXIST |-> 17, ENOTDIR |-> 20, EISDIR |-> 21, EINVAL |-> 22, ENOSPC |-> 28, ENOSYS |-> 38,
   ENOTEMPTY |-> 39, EADDRINUSE |-> 98, ECONNRESET |-> 104, ENOTCONN |-> 107, ECONNREFUSED |-> 111,
   EINPROGRESS |-> 115]
code(e) == LinuxErrors[linux_from[e]]

\* Ok(v), and the Err(AxError) that ax_err! makes.
Ok(v) == [ok |-> TRUE, v |-> v, code |-> 0]
ax_err(e) == [ok |-> FALSE, v |-> 0, code |-> code(e)]
Answers == {Ok(v) : v \in AbiValues} \cup {ax_err(e) : e \in AbiErrors}

\* What a handler returns: syscall_body! takes Ok(v) as v and Err(e) as -e.code().
syscall_body(o) == IF o.ok THEN o.v ELSE -o.code

\* Handlers that do not return, that cannot fail, and that return an unsigned int.
NoReturn == {"sys_exit", "sys_pthread_exit", "sys_execve"}
AsUnsigned == {"sys_geteuid", "sys_getegid", "sys_umask"}
NoRefusal == AsUnsigned \cup {"sys_getpid", "sys_gettid", "sys_getppid", "sys_getuid", "sys_getgid", "sys_sched_yield"}
AnswersOf(h) ==
  IF h = "sys_invalid" THEN {ax_err("Unsupported")}
  ELSE {o \in Answers : h \in NoRefusal => o.ok}

\* A cast of a word to a c_int.
as_c_int(v) == ((v + ABI_INT_MOD \div 2) % ABI_INT_MOD) - ABI_INT_MOD \div 2

\* What a call gives the program: a result, and a code for errno (0: left alone).
Gives(r, c) == [ret |-> r, code |-> c]

\* The wrapper of ruxlibc around a result.
set_errno(c) == Gives(-1, c)
\* Mutant: the code keeps the sign it had as a result.
mut_libc_e(r) == IF r < 0 THEN set_errno(r) ELSE Gives(r, 0)
libc_e(r) == IF r < 0 THEN set_errno(-r) ELSE Gives(r, 0)
\* musl's own: the last 4095 values of a word are codes.
syscall_ret(r) == IF r \in -4095 .. -1 THEN Gives(-1, -r) ELSE Gives(r, 0)

\* The C functions of ruxlibc that hand their parameters to one handler: how they
\* take its result, through e() or as it is ("raw").
FdFns == {<<"close", "sys_close", "e">>, <<"dup", "sys_dup", "e">>, <<"dup2", "sys_dup2", "e">>,
          <<"ax_fcntl", "sys_fcntl", "e">>}
FsFns == {<<"ax_open", "sys_open", "e">>, <<"lseek", "sys_lseek", "e">>, <<"stat", "sys_stat", "e">>,
          <<"fstat", "sys_fstat", "e">>, <<"lstat", "sys_lstat", "e">>, <<"rename", "sys_rename", "e">>,
          <<"rmdir", "sys_rmdir", "e">>, <<"unlink", "sys_unlink", "e">>, <<"mkdir", "sys_mkdir", "e">>}
IoFns == {<<"read", "sys_read", "e">>, <<"write", "sys_write", "e">>, <<"writev", "sys_writev", "e">>,
          <<"rux_ioctl", "sys_ioctl", "e">>}
MpxFns == {<<"epoll_create", "sys_epoll_create", "e">>, <<"epoll_ctl", "sys_epoll_ctl", "e">>,
           <<"epoll_wait", "sys_epoll_wait", "e">>, <<"select", "sys_select", "e">>, <<"poll", "sys_poll", "e">>}
MmapFns == {<<"mmap", "sys_mmap", "raw">>, <<"munmap", "sys_munmap", "raw">>, <<"msync", "sys_msync", "raw">>,
            <<"mremap", "sys_mremap", "raw">>, <<"mprotect", "sys_mprotect", "raw">>,
            <<"madvise", "sys_madvise", "raw">>}
NetFns == {<<"socket", "sys_socket", "e">>, <<"bind", "sys_bind", "e">>, <<"connect", "sys_connect", "e">>,
           <<"send", "sys_send", "e">>, <<"recv", "sys_recv", "e">>, <<"listen", "sys_listen", "e">>,
           <<"accept", "sys_accept", "e">>, <<"shutdown", "sys_shutdown", "e">>}
NameFns == {<<"getsockname", "sys_getsockname", "e">>, <<"getpeername", "sys_getpeername", "e">>,
            <<"ax_sendmsg", "sys_sendmsg", "e">>}
ThreadFns ==
  {<<"pthread_" \o f, "sys_pthread_" \o f, "e">> : f \in
     {"create", "join", "mutex_init", "mutex_destroy", "mutex_lock", "mutex_trylock", "mutex_unlock",
      "cond_init", "cond_destroy", "cond_timedwait", "cond_wait", "cond_signal", "cond_broadcast",
      "key_create", "key_delete", "setspecific"}}
  \cup {<<"pthread_self", "sys_pthread_self", "raw">>, <<"pthread_getspecific", "sys_pthread_getspecific", "raw">>}
TimeFns == {<<"clock_gettime", "sys_clock_gettime", "e">>, <<"clock_settime", "sys_clock_settime", "e">>,
            <<"nanosleep", "sys_nanosleep", "e">>}
LimitFns == {<<"getrlimit", "sys_getrlimit", "e">>, <<"setrlimit", "sys_setrlimit", "e">>}
RandFns == {<<"rand", "sys_rand", "e">>, <<"random", "sys_random", "e">>, <<"getrandom", "sys_getrandom", "e">>}
IdFns == {<<"getpid", "sys_getpid", "raw">>, <<"gettid", "sys_gettid", "raw">>}
PipeFns == {<<"pipe", "sys_pipe", "e">>}
LibcFns ==
  UNION {FdFns, FsFns, IoFns, MpxFns, MmapFns, NetFns, NameFns, ThreadFns, TimeFns, LimitFns, RandFns, IdFns, PipeFns}

\* Those that do more. dup3 is sys_dup2 and, asked for O_CLOEXEC, sys_fcntl, whose
\* refusal is seen in errno alone.
dup3(same, cloexec, o, f) ==
  LET r == libc_e(syscall_body(o))
  IN IF same THEN libc_e(-LinuxErrors.EINVAL)
     ELSE IF r.ret < 0 \/ ~cloexec THEN r
     ELSE Gives(r.ret, libc_e(syscall_body(f)).code)
\* getcwd returns its buffer (1 here) or NULL, and tells errno only what it found itself.
getcwd(null, o) ==
  IF null THEN Gives(0, LinuxErrors.EINVAL)
  ELSE IF syscall_body(o) < 0 THEN Gives(0, 0)
  ELSE IF syscall_body(o) = 0 THEN Gives(0, LinuxErrors.ENOENT)
  ELSE Gives(1, 0)
\* sendto and recvfrom without an address are send and recv.
sendto(null, o) == <<IF null THEN "sys_send" ELSE "sys_sendto", libc_e(as_c_int(syscall_body(o)))>>
recvfrom(null, o) == <<IF null THEN "sys_recv" ELSE "sys_recvfrom", libc_e(as_c_int(syscall_body(o)))>>
\* getaddrinfo: EAI_FAIL (-4), EAI_NONAME (-2) when no address was found, or 0.
getaddrinfo(o) ==
  LET r == libc_e(syscall_body(o))
  IN Gives(CASE r.ret < 0 -> -4 [] r.ret = 0 -> -2 [] OTHER -> 0, r.code)
\* The interval timers are there with the feature "signal" only; setitimer reads the
\* old one first when it is asked to return it, and stops there if that is refused.
getitimer(signal, o) == IF signal THEN libc_e(syscall_body(o)) ELSE libc_e(0)
setitimer(signal, old, o, s) ==
  LET g == libc_e(syscall_body(o))
  IN IF ~signal THEN libc_e(0)
     ELSE IF old /\ g.ret # 0 THEN g
     ELSE libc_e(syscall_body(s))
\* alarm sets the timer if none is set, and reports the time left otherwise.
alarm(o, left) == IF getitimer(TRUE, o).ret < 0 THEN Gives(0, getitimer(TRUE, o).code) ELSE Gives(left, 0)

\* Whose errno a thread has.
Slots == AbiThreads \cup {"all"}
slot(t) == IF "tls" \in build.features THEN t ELSE "all"

AbiInit ==
  /\ build = [libc |-> "none", arch |-> "any", features |-> {}]
  /\ errno = [s \in Slots |-> 0]
  /\ seen = [t \in AbiThreads |-> 0]
  /\ meant = [t \in AbiThreads |-> Gives(0, 0)]
  /\ abi_calls = 0

\* The features a program is built with: with musl, which needs thread-local storage,
\* or with ruxlibc.
configure ==
  /\ build.libc = "none"
  /\ build' \in [libc : {"musl"}, arch : AbiTables, features : {F \in AbiFeatures : "tls" \in F}]
                \cup [libc : {"ruxlibc"}, arch : {"any"}, features : AbiFeatures]
  /\ UNCHANGED <<errno, seen, meant, abi_calls>>

\* A call ends: the program has g, and the kernel meant m.
Returns(t, g, m) ==
  /\ abi_calls < AbiCalls
  /\ abi_calls' = abi_calls + 1
  /\ seen' = [seen EXCEPT ![t] = g.ret]
  /\ errno' = IF g.code = 0 THEN errno ELSE [errno EXCEPT ![slot(t)] = g.code]
  /\ meant' = [meant EXCEPT ![t] = Gives(m.ret, IF m.code = 0 THEN @.code ELSE m.code)]
  /\ UNCHANGED build

\* What POSIX makes of an answer.
Told(o) == IF o.ok THEN Gives(o.v, 0) ELSE Gives(-1, o.code)

\* The numbers a program may trap with: any of the architectures', and one of none.
Numbers == {r[2] : r \in UNION {IdsOf[a] : a \in AbiTables}} \cup {1000}
\* The handler each of them reaches.
Reached == [a \in AbiTables, F \in AbiFeatures |-> [n \in Numbers |-> Arm(a, F, try_from(a, F, n))[2]]]

\* A trap with number n: handle_syscall and the arm it reaches.
handle_syscall(t, n) ==
  /\ build.libc = "musl"
  /\ LET h == Reached[build.arch, build.features][n]
     IN /\ h \notin NoReturn
        /\ \E o \in AnswersOf(h) : Returns(t, syscall_ret(syscall_body(o)), Told(o))

\* A call of a function of ruxlibc that takes one handler's result.
LibcCall(t) ==
  /\ build.libc = "ruxlibc"
  /\ \E f \in LibcFns : \E o \in AnswersOf(f[2]) :
       IF f[3] = "e" THEN Returns(t, libc_e(as_c_int(syscall_body(o))), Told(o))
       ELSE Returns(t, Gives(syscall_body(o), 0), Gives(syscall_body(o), 0))

\* A call of one that does more.
Dup3Call(t) ==
  /\ build.libc = "ruxlibc" /\ "fd" \in build.features
  /\ \E same, cloexec \in BOOLEAN, o, f \in Answers :
       Returns(t, dup3(same, cloexec, o, f),
              IF same THEN Gives(-1, LinuxErrors.EINVAL)
              ELSE IF o.ok /\ cloexec /\ ~f.ok THEN Gives(o.v, f.code)
              ELSE Told(o))
SendCall(t) ==
  /\ build.libc = "ruxlibc" /\ "net" \in build.features
  /\ \E null \in BOOLEAN, o \in Answers : Returns(t, sendto(null, o)[2], Told(o)) \/ Returns(t, recvfrom(null, o)[2], Told(o))
NameCall(t) ==
  /\ build.libc = "ruxlibc" /\ "net" \in build.features
  /\ \E o \in Answers :
       Returns(t, getaddrinfo(o), Gives(IF ~o.ok THEN -4 ELSE IF o.v = 0 THEN -2 ELSE 0, o.code))
CwdCall(t) ==
  /\ build.libc = "ruxlibc" /\ "fs" \in build.features
  /\ \E null \in BOOLEAN, o \in Answers :
       Returns(t, getcwd(null, o), getcwd(null, o))
TimerCall(t) ==
  /\ build.libc = "ruxlibc"
  /\ LET signal == "signal" \in build.features
     IN \E old \in BOOLEAN, o \in {Ok(0), ax_err("InvalidInput")} :
          \/ Returns(t, setitimer(signal, old, o, Ok(0)), IF signal /\ old THEN Told(o) ELSE Gives(0, 0))
          \/ Returns(t, getitimer(signal, o), IF signal THEN Told(o) ELSE Gives(0, 0))
          \/ signal /\ \E left \in AbiValues : Returns(t, alarm(o, left), Gives(IF o.ok THEN left ELSE 0, o.code))

AbiNext ==
  \/ configure
  \/ \E t \in AbiThreads :
       \/ \E n \in Numbers : handle_syscall(t, n)
       \/ LibcCall(t)
       \/ Dup3Call(t)
       \/ SendCall(t)
       \/ NameCall(t)
       \/ CwdCall(t)
       \/ TimerCall(t)

\* The program is told what the kernel answered: a call returns the handler's
\* result or -1, and a thread's errno is the code of the last refusal it met,
\* whatever it called since. In a build without thread-local storage errno is the
\* code of the last refusal of some thread.
ResultsReported ==
  /\ \A t \in AbiThreads : seen[t] = meant[t].ret
  /\ IF "tls" \in build.features THEN \A t \in AbiThreads : errno[t] = meant[t].code
     ELSE \E t \in AbiThreads : errno["all"] = meant[t].code

\* The tables of the architectures say the same: an id reaches, in every build that
\* has it, one arm, and on every architecture the same handler with the same
\* parameters (clone alone has an order of its own on x86_64), and the two
\* architectures with Linux's generic numbers agree on the numbers.
TablesAgree ==
  /\ \A a \in AbiTables, F \in AbiFeatures : \A r \in IdsIn(a, F) :
       /\ {s \in IdsOf[a] : s[1] = r[1] \/ s[2] = r[2]} = {r}
       /\ Cardinality({m \in ArmsOf[a] : m[1] = ArmName(r[1], F)}) = 1
       /\ \A b \in AbiTables : \A s \in IdsIn(b, F) :
            r[1] = s[1] /\ r[1] # "CLONE" => Arm(a, F, r[1]) = Arm(b, F, r[1])
  /\ \A r \in AarchIds, s \in RiscvIds : r[1] = s[1] <=> r[2] = s[2]

AbiReports == ResultsReported /\ TablesAgree
=============================================================================
