------------------------------- MODULE Vectors -------------------------------
(***************************************************************************)
(* The vector table of each image (its startup.c): the interrupts that have *)
(* a handler in it.  Every other entry is null or Default_Handler, and the  *)
(* image is lost if it is taken.  The tables are kept by hand, away from    *)
(* the drivers that enable the interrupts (Requests).                       *)
(***************************************************************************)
EXTENDS Integers

SysTick  == -1          \* exception 15
FlashIrq == 5
Exti     == 7 .. 22
Lpdma    == 23 .. 30
Fdcan    == {34, 35}
Usarts   == 51 .. 55
UsbIrq   == 62
RngIrq   == 64
HashIrq  == 69

AesTable            == Exti
CrcTable            == Exti
GpioTable           == Exti
EcdsaTable          == Exti
RsaTable            == Exti
DmaTable            == Exti \cup Lpdma
FdcanTable          == Exti \cup Fdcan
HashTable           == Exti \cup {HashIrq}
NvicTable           == Exti \cup 23 .. 35 \cup 48 .. 55 \cup {RngIrq, HashIrq, 96, 97, 98}
RngTable            == Exti \cup {RngIrq}
SysTickTable        == Exti \cup {SysTick}
UartTable           == Exti \cup Lpdma \cup Usarts
UsbTable            == Exti \cup Usarts \cup {UsbIrq}
FlashTable          == Exti \cup {SysTick, FlashIrq}
BootloaderTable     == Exti \cup Usarts \cup {FlashIrq, UsbIrq}
SecureBootTable     == Exti \cup {RngIrq}
AppDemoTable        == Exti \cup Lpdma \cup Usarts
RootOfTrustTable    == Exti \cup Lpdma \cup Usarts
SecureFwUpdateTable == Exti \cup Lpdma \cup Usarts \cup {FlashIrq}

Table == [
  AES |-> AesTable, CRC |-> CrcTable, GPIO |-> GpioTable, ECDSA |-> EcdsaTable,
  RSA |-> RsaTable, DMA |-> DmaTable, FDCAN |-> FdcanTable, HASH |-> HashTable,
  NVIC |-> NvicTable, RNG |-> RngTable, SysTick |-> SysTickTable, UART |-> UartTable,
  USB_CDC |-> UsbTable, FLASH |-> FlashTable, Bootloader |-> BootloaderTable,
  Secure_Boot |-> SecureBootTable, App_Demo |-> AppDemoTable,
  Root_of_Trust |-> RootOfTrustTable, Secure_FW_Update |-> SecureFwUpdateTable]

Images     == DOMAIN Table
Loaders    == {"Bootloader", "Secure_Boot"}                      \* at 0x08000000, for ever
SlotImages == {"App_Demo", "Root_of_Trust", "Secure_FW_Update"}  \* in the active slot
Standalone == Images \ (Loaders \cup SlotImages)                 \* at 0x08000000, for a test

(* The interrupts the peripherals of image i are set up to request: B1 on   *)
(* EXTI13, LPDMA1 channel 1, FDCAN1 line 0, USART2 with RXNEIE (the UART    *)
(* demo only: RXNEIE is not set by the constructor), and so on.             *)
Requesting == [
  GPIO |-> {20}, NVIC |-> {20}, DMA |-> {24}, FDCAN |-> {34}, UART |-> {52},
  RNG |-> {RngIrq}, SysTick |-> {SysTick}, USB_CDC |-> {UsbIrq},
  FLASH |-> {FlashIrq, SysTick}, Bootloader |-> {FlashIrq, UsbIrq},
  Secure_FW_Update |-> {FlashIrq}]

Requests(i) == IF i \in DOMAIN Requesting THEN Requesting[i] ELSE {}

(* Enabled in the NVIC: those, and USART2's, by every USART_constructor.    *)
Enables(i) == Requests(i) \cup {52}
=============================================================================
